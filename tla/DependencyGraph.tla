--------------------------- MODULE DependencyGraph ---------------------------
(***************************************************************************)
(* The dependency graph of an accepted change plan: which WorkUnits each    *)
(* WorkUnit names as its dependencies.  WorkUnit ids are strings that the   *)
(* code only sorts and compares; here they are numbers in that order.  A    *)
(* ghost is an id that a plan names and that no WorkUnit has.               *)
(***************************************************************************)
EXTENDS Naturals, FiniteSets

CONSTANTS
    Units,      \* the WorkUnit ids of a plan
    Ghosts,     \* ids that only occur as dependencies
    Plans       \* the dependency functions considered

ASSUME PlansAssumption ==
    /\ Units \subseteq Nat
    /\ IsFiniteSet(Units)
    /\ Ghosts \subseteq Nat
    /\ IsFiniteSet(Ghosts)
    /\ Ghosts \cap Units = {}
    /\ Plans \subseteq [Units -> SUBSET (Units \cup Ghosts)]

-----------------------------------------------------------------------------
(* References that the algorithms of the code are compared with *)

\* With each of its units the set holds the units that unit depends on.
Closed(deps, S) == \A u \in S : deps[u] \cap Units \subseteq S

\* The units u depends on, through any number of dependencies.
Needs(deps, u) ==
    {v \in Units : \A S \in SUBSET Units :
        (deps[u] \cap Units \subseteq S /\ Closed(deps, S)) => v \in S}

\* Two units of one cycle, or the same unit.
SameCycle(needs, u, v) == u = v \/ (u \in needs[v] /\ v \in needs[u])

\* With each of its units the set holds the units that depend on that unit.
ClosedUnderDependants(deps, S) ==
    \A u \in Units : deps[u] \cap S # {} => u \in S

\* S is the least such set that contains Seeds.
IsConsequenceOf(deps, S, Seeds) ==
    /\ Seeds \subseteq S
    /\ ClosedUnderDependants(deps, S)
    /\ \A T \in SUBSET Units :
          (Seeds \subseteq T /\ ClosedUnderDependants(deps, T)) => S \subseteq T
=============================================================================
