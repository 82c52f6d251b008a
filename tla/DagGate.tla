------------------------------- MODULE DagGate -------------------------------
(***************************************************************************)
(* One run of the DAG gate: createDagSemanticGate diagnoses the plan,       *)
(* orders its units, binds each to its commit, checks that dependencies are *)
(* ancestors, evaluates the units in order and derives the verdict.  A      *)
(* structural defect ends the run with verdict "error" and a diagnosis of   *)
(* the units; anything that throws ends it without a result ("failed").     *)
(*                                                                          *)
(* What a unit's own evidence says (source scope, Blueprint, policy,        *)
(* claims, checks) is an input: a set of reasons.  Evaluations of joins are *)
(* an input too.  Git commits are known by their ancestry and by the order  *)
(* of their object ids.                                                     *)
(***************************************************************************)
EXTENDS DagDependencies

CONSTANTS
    OwnReasons,         \* reasons that a unit's own evidence can give
    MaxDiagnostics      \* diagnostics a structural error result may hold

ASSUME MaxDiagnosticsAssumption == MaxDiagnostics \in Nat

ASSUME OwnReasonsAssumption == "DEPENDENCY_INVALID" \notin OwnReasons

VARIABLES
    pc,         \* the stage of the run
    order,      \* canonicalWorkUnitOrder, as far as it is made
    own,        \* reasons from each unit's own evidence
    at,         \* the place in order of the unit to evaluate next
    reasons,    \* reason codes of each unit of the result
    invalid,    \* units found invalid so far
    cut,        \* minimalAffectedCut
    verdict     \* "none" until there is a result

gateVars == <<pc, order, own, at, reasons, invalid, cut, verdict>>

vars == <<deps, index, low, stack, calls, components, diagnostics,
          pc, order, own, at, reasons, invalid, cut, verdict>>

Reasons == OwnReasons \cup Codes \cup {"DEPENDENCY_INVALID"}

Ended == pc \in {"done", "failed"}

NoReasons == [u \in Units |-> {}]

Init ==
    /\ SearchInit
    /\ pc = "searching"
    /\ order = <<>>
    /\ own = NoReasons
    /\ at = 1
    /\ reasons = NoReasons
    /\ invalid = {}
    /\ cut = {}
    /\ verdict = "none"

-----------------------------------------------------------------------------
(* Structural errors *)

\* Diagnostics must be strictly sorted by unit, reason and canonical bytes; of
\* two that agree in unit and reason the canonical bytes begin with the ids of
\* the commits.  The code leaves them in the order of the dependencies' names.
StrictlySorted(diags, oid) ==
    \A c, d \in diags : \A x \in c.related, y \in d.related :
        (c.unit = d.unit /\ c # d /\ c.code = "DEPENDENCY_NOT_ANCESTOR"
            /\ d.code = "DEPENDENCY_NOT_ANCESTOR" /\ x < y) => oid[x] < oid[y]

\* The verifier accepts a bounded and sorted list, and throws at any other.
Accepted(diags, oid) ==
    /\ Cardinality(diags) \in 1..MaxDiagnostics
    /\ StrictlySorted(diags, oid)

\* emitStructuralError, up to the check that the head has not moved: the result
\* holds the diagnosed units as its cut and its only invalid units.
EmitStructuralError(diags, oid) ==
    /\ diagnostics' = diags
    /\ \/ /\ Accepted(diags, oid)
          /\ pc' = "emitting"
          /\ verdict' = "error"
          /\ invalid' = {d.unit : d \in diags}
          /\ cut' = {d.unit : d \in diags}
          /\ reasons' = [u \in Units |-> {d.code : d \in {e \in diags : e.unit = u}}]
       \/ /\ ~Accepted(diags, oid)
          /\ pc' = "failed"
          /\ UNCHANGED <<verdict, invalid, cut, reasons>>
    /\ UNCHANGED <<order, own, at>>

NamesOnly == [u \in Units |-> u]

DiagnosePlan ==
    /\ pc = "searching"
    /\ SearchEnded
    /\ LET found == MissingDiagnostics \cup CycleDiagnostics
       IN \/ /\ found # {}
             /\ EmitStructuralError(found, NamesOnly)
          \/ /\ found = {}
             /\ pc' = "ordering"
             /\ UNCHANGED <<diagnostics, order, own, at, reasons, invalid, cut, verdict>>
    /\ UNCHANGED <<deps, index, low, stack, calls, components>>

Search ==
    /\ pc = "searching"
    /\ SearchStep
    /\ UNCHANGED gateVars

-----------------------------------------------------------------------------
(* canonicalWorkUnitOrder *)

Unordered == Units \ ToSet(order)

\* Seeded fault: one dependency in place is enough.
ReadyInPart ==
    {u \in Unordered : deps[u] = {} \/ deps[u] \cap ToSet(order) # {}}

Ready == {u \in Unordered : deps[u] \subseteq ToSet(order)}

\* Seeded fault: the last of the ready units goes first.
OrderNextLast ==
    /\ pc = "ordering"
    /\ Unordered # {}
    /\ order' = IF Ready = {} THEN order ELSE Append(order, Max(Ready))
    /\ pc' = IF Ready = {} THEN "failed" ELSE pc
    /\ UNCHANGED <<searchVars, own, at, reasons, invalid, cut, verdict>>

OrderNext ==
    /\ pc = "ordering"
    /\ Unordered # {}
    /\ order' = IF Ready = {} THEN order ELSE Append(order, Min(Ready))
    /\ pc' = IF Ready = {} THEN "failed" ELSE pc
    /\ UNCHANGED <<searchVars, own, at, reasons, invalid, cut, verdict>>

OrderComplete ==
    /\ pc = "ordering"
    /\ Unordered = {}
    /\ pc' = "binding"
    /\ UNCHANGED <<searchVars, order, own, at, reasons, invalid, cut, verdict>>

-----------------------------------------------------------------------------
(* Commits *)

BindingDiagnostics(commits) ==
    {[unit |-> u, code |-> "BINDING_MISSING", related |-> {}] :
        u \in {v \in Units : commits[v] = "none"}}
    \cup {[unit |-> u, code |-> "BINDING_AMBIGUOUS", related |-> {}] :
        u \in {v \in Units : commits[v] = "many"}}

\* Each unit is bound to the one implementation commit whose trailer names it.
Bind ==
    /\ pc = "binding"
    /\ \E commits \in [Units -> {"none", "one", "many"}] :
          LET found == BindingDiagnostics(commits)
          IN \/ /\ found # {}
                /\ EmitStructuralError(found, NamesOnly)
             \/ /\ found = {}
                /\ pc' = "ancestry"
                /\ UNCHANGED <<diagnostics, order, own, at, reasons, invalid, cut, verdict>>
    /\ UNCHANGED <<deps, index, low, stack, calls, components>>

\* A reachable commit names a unit that the plan does not have.
CommitOutsidePlan ==
    /\ pc = "binding"
    /\ pc' = "failed"
    /\ UNCHANGED <<searchVars, order, own, at, reasons, invalid, cut, verdict>>

\* Histories, as the units whose commits are ancestors of the commit of a unit.
Histories ==
    {f \in [Units -> SUBSET Units] :
        \A u \in Units : u \notin f[u] /\ \A v \in f[u] : f[v] \subseteq f[u]}

\* <<u, v>>: the commit of v is an ancestor of the commit of u.
Ancestries == {{p \in Units \X Units : p[2] \in f[p[1]]} : f \in Histories}

\* The order of the commits' object ids, which has nothing to do with ancestry.
ObjectIds == {f \in [Units -> 1..Cardinality(Units)] : IsInjective(f)}

AncestryDiagnostics(ancestry) ==
    {[unit |-> e[1], code |-> "DEPENDENCY_NOT_ANCESTOR", related |-> {e[2]}] :
        e \in {f \in Units \X Units : f[2] \in deps[f[1]] /\ f \notin ancestry}}

\* With the dependencies in place the units' evidence is collected.
CheckAncestry ==
    /\ pc = "ancestry"
    /\ \E found \in {AncestryDiagnostics(ancestry) : ancestry \in Ancestries} :
          \/ /\ found # {}
             /\ \E oid \in ObjectIds : EmitStructuralError(found, oid)
          \/ /\ found = {}
             /\ pc' = "evaluating"
             /\ own' \in [Units -> SUBSET OwnReasons]
             /\ UNCHANGED <<diagnostics, order, at, reasons, invalid, cut, verdict>>
    /\ UNCHANGED <<deps, index, low, stack, calls, components>>

-----------------------------------------------------------------------------
(* computeDagGateV2 *)

\* Seeded fault: only a dependency that itself fails makes a unit invalid.
UnitReasonsDirect(u) ==
    own[u] \cup (IF \E d \in deps[u] : own[d] # {} THEN {"DEPENDENCY_INVALID"} ELSE {})

UnitReasons(u) ==
    own[u] \cup (IF deps[u] \cap invalid # {} THEN {"DEPENDENCY_INVALID"} ELSE {})

EvaluateUnit ==
    /\ pc = "evaluating"
    /\ at <= Len(order)
    /\ LET u == order[at]
       IN /\ reasons' = [reasons EXCEPT ![u] = UnitReasons(u)]
          /\ invalid' = IF UnitReasons(u) = {} THEN invalid ELSE invalid \cup {u}
    /\ at' = at + 1
    /\ UNCHANGED <<searchVars, pc, order, own, cut, verdict>>

\* Seeded fault: units that fail on top of a failing dependency are in the cut.
AffectedCutOfFailing == {u \in invalid : own[u] # {}}

AffectedCut == {u \in invalid : deps[u] \cap invalid = {}}

\* The cut and the verdict; joinInvalid says that some join is not valid.
Decide ==
    /\ pc = "evaluating"
    /\ at > Len(order)
    /\ cut' = AffectedCut
    /\ \E joinInvalid \in BOOLEAN :
          verdict' = IF invalid = {} /\ ~joinInvalid THEN "pass" ELSE "blocked"
    /\ pc' = "emitting"
    /\ UNCHANGED <<searchVars, order, own, at, reasons, invalid>>

-----------------------------------------------------------------------------
\* The head still is the commit that was evaluated.
Emit ==
    /\ pc = "emitting"
    /\ pc' = "done"
    /\ UNCHANGED <<searchVars, order, own, at, reasons, invalid, cut, verdict>>

HeadMoved ==
    /\ pc = "emitting"
    /\ pc' = "failed"
    /\ verdict' = "none"
    /\ UNCHANGED <<searchVars, order, own, at, reasons, invalid, cut>>

RunEnded ==
    /\ Ended
    /\ UNCHANGED vars

Step ==
    \/ Search
    \/ DiagnosePlan
    \/ OrderNext
    \/ OrderComplete
    \/ Bind
    \/ CommitOutsidePlan
    \/ CheckAncestry
    \/ EvaluateUnit
    \/ Decide
    \/ Emit
    \/ HeadMoved

Next == Step \/ RunEnded

Spec == Init /\ [][Next]_vars

\* The run is one process that nothing blocks.
FairSpec == Spec /\ WF_vars(Step)

-----------------------------------------------------------------------------
(* Properties *)

\* What the search must find: every unit with a missing dependency, and every
\* unit on a cycle with the units it shares a cycle with.
PlanDefects ==
    MissingDiagnostics \cup
    LET needs == [u \in Units |-> Needs(deps, u)]
    IN {[unit |-> u, code |-> "DEPENDENCY_CYCLE",
         related |-> {v \in Units : SameCycle(needs, u, v)}] :
           u \in {v \in Units : v \in needs[v]}}

\* The low links of diagnoseDagDependenciesV2 single out exactly the missing and
\* cyclic dependencies, whatever the order in which the search meets the units.
DiagnosesPlan ==
    [][(pc = "searching" /\ pc' # "searching") => diagnostics' = PlanDefects]_vars

\* A sequence of all units in which each unit follows its dependencies.
Orders ==
    {f \in [1..Cardinality(Units) -> Units] :
        /\ IsInjective(f)
        /\ \A i \in DOMAIN f : deps[f[i]] \subseteq {f[j] : j \in 1..(i - 1)}}

\* canonicalWorkUnitOrder throws where no unit is ready.  It never does after a
\* diagnosis without findings: what the search by low links has not found to be
\* missing or cyclic does not hold up the order either, which is made apart.
SoundPlansAreOrdered == pc = "ordering" /\ Unordered # {} => Ready # {}

\* The least ready unit is picked each time; that makes the first, in the order of
\* names, of all orders that respect the dependencies, which is why runner and
\* verifier, computing it apart, must agree.
FirstOrder ==
    pc = "binding" =>
        /\ order \in Orders
        /\ \A f \in Orders \ {order} :
              \E i \in DOMAIN f :
                  /\ order[i] < f[i]
                  /\ \A j \in 1..(i - 1) : order[j] = f[j]

\* Every plan that the diagnosis lets through gets its canonical order.
CanonicalOrder == SoundPlansAreOrdered /\ FirstOrder

Failing == {u \in Units : own[u] # {}}

Decided == pc \in {"emitting", "done"} /\ verdict # "error"

\* The reasons given to a unit when its turn came are still right in the end:
\* the set of invalid units that the gate read while it was growing already
\* held all that the unit depends on.
ReasonsAreFinal ==
    Decided => /\ \A u \in Units : reasons[u] = UnitReasons(u)
               /\ invalid = {u \in Units : reasons[u] # {}}

\* The invalid units of a result are those that fail by their own evidence and
\* those that depend on them through any number of dependencies, and no other.
InvalidIsConsequence == Decided => IsConsequenceOf(deps, invalid, Failing)

\* minimalAffectedCut is enough to explain every invalid unit, each of its units
\* fails by its own evidence, and none is a consequence of the rest of the cut.
CutExplainsInvalid ==
    Decided =>
        /\ IsConsequenceOf(deps, invalid, cut)
        /\ cut \subseteq Failing
        /\ \A c \in cut : \E T \in SUBSET Units :
              cut \ {c} \subseteq T /\ ClosedUnderDependants(deps, T) /\ c \notin T

\* The search, the order and the evaluation all come to an end.
GateEnds == <>Ended
=============================================================================
