------------------------------ MODULE MCDagGate ------------------------------
(* Plans of four units in which a unit has at most MaxDependencies, and one *)
(* unit, WithGhost, may name a dependency that does not exist; rollbacks    *)
(* and replacements follow some of the results.                             *)
EXTENDS DagRecovery

CONSTANTS MaxDependencies, WithGhost

MCUnits == 1..4

MCGhosts == {5}

MCPlans ==
    {f \in [MCUnits -> {D \in SUBSET (MCUnits \cup MCGhosts) :
                            Cardinality(D) <= MaxDependencies}] :
        \A u \in MCUnits \ {WithGhost} : f[u] \cap MCGhosts = {}}

\* Replacements are looked at where at most one unit fails by itself.
MCReplaced == {{u} : u \in MCUnits}
=============================================================================
