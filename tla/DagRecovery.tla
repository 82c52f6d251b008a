----------------------------- MODULE DagRecovery -----------------------------
(***************************************************************************)
(* What follows a result of the DAG gate.  A rollback derives the impact of *)
(* chosen units, admits a plan that changes or retains each unit affected,  *)
(* and judges the recovery branch by a second gate.  A replacement (the     *)
(* selective recovery of a blocked gate) lets a new plan replace the        *)
(* invalid units and carries the others.  Both judge a projection of the    *)
(* history in which a unit is carried, by its commit under the source plan, *)
(* or changed, by its commit under the new one.                             *)
(*                                                                          *)
(* How the branch is made, step by step, is module RecoveryRunner; here the *)
(* commits are there, in the order in which it makes them.                  *)
(***************************************************************************)
EXTENDS DagGate

CONSTANTS
    RolledBack,     \* bound: the verdicts after which a rollback is looked at
    Replaced,       \* bound: the failing sets whose replacement is looked at
    MaxTargets,     \* bound: targets of a rollback, unless it is of all units
    MaxRewired      \* bound: dependencies that a new plan adds or removes

\* The records of a source bundle must cover its plan: one of an error has none.
ASSUME RolledBackAssumption == RolledBack \subseteq {"pass", "blocked"}

VARIABLES
    stage,      \* where the recovery stands
    route,      \* "rollback" or "replacement"
    roots,      \* targets whose dependants are still to be traced
    queue,      \* paths of dependants still to be visited
    witness,    \* witnessById: the path that explains each affected unit
    changed,    \* the units whose implementation is not the source plan's
    postDeps,   \* the dependencies that the new plan declares
    outcome     \* of the second gate: its diagnosed units and what follows

recoveryVars == <<stage, route, roots, queue, witness, changed, postDeps, outcome>>

allVars == <<vars, recoveryVars>>

NoOutcome == [diagnosed |-> {}, result |-> "none"]

RecoveryInit ==
    /\ Init
    /\ stage = "none" /\ route = "none"
    /\ roots = <<>> /\ queue = <<>> /\ witness = <<>>
    /\ changed = {}
    /\ postDeps = deps
    /\ outcome = NoOutcome

-----------------------------------------------------------------------------
(* canonicalOrder and the edges of a new plan *)

\* One more turn of canonicalOrder, which throws when no unit is ready, on a cycle
\* as on a missing dependency; here the order then stays as far as it got.
Extended(plan, before) ==
    LET ready == {u \in Units \ ToSet(before) : plan[u] \subseteq ToSet(before)}
    IN IF ready = {} THEN before ELSE Append(before, Min(ready))

OrderOf(plan) ==
    LET prefix[n \in 0..Cardinality(Units)] ==
            IF n = 0 THEN <<>> ELSE Extended(plan, prefix[n - 1])
    IN prefix[Cardinality(Units)]

Orderable(plan) == Len(OrderOf(plan)) = Cardinality(Units)

\* New plans: the units of C are defined anew, which adds or removes edges.
PlansChanging(C) ==
    {[u \in Units |-> SymDiff(deps[u], {e[2] : e \in {f \in edges : f[1] = u}})] :
        edges \in UNION {kSubset(k, C \X Units) : k \in 0..MaxRewired}}

-----------------------------------------------------------------------------
(* computeRecoveryImpactV1 *)

\* Ids in the order of names.
Sorted(S) ==
    CHOOSE f \in [1..Cardinality(S) -> S] : \A i, j \in DOMAIN f : i < j => f[i] < f[j]

\* Of one target after the other the dependants are traced breadth first; the
\* targets of a whole plan come in its order, others in the order of names.
BeginRollback ==
    /\ pc = "done"
    /\ verdict \in RolledBack
    /\ stage = "none"
    /\ \E targets \in (SUBSET Units) \ {{}} :
          /\ targets = Units \/ Cardinality(targets) <= MaxTargets
          /\ \E sequence \in {Sorted(targets)}
                             \cup (IF targets = Units THEN {order} ELSE {}) :
                roots' = sequence
    /\ stage' = "tracing"
    /\ route' = "rollback"
    /\ UNCHANGED <<vars, queue, witness, changed, postDeps, outcome>>

NextRoot ==
    /\ stage = "tracing"
    /\ queue = <<>>
    /\ roots # <<>>
    /\ queue' = <<<<Head(roots)>>>>
    /\ roots' = Tail(roots)
    /\ UNCHANGED <<vars, stage, route, witness, changed, postDeps, outcome>>

\* Of two paths of one length the first in the order of their canonical bytes.
PathBefore(p, q) ==
    \E i \in DOMAIN p : p[i] < q[i] /\ \A j \in 1..(i - 1) : p[j] = q[j]

\* Seeded fault: a unit that has a witness keeps it.
FoundFirst(p, q) == q # <<>>

\* The path found before is as good as p.
NoBetter(p, q) == Len(q) < Len(p) \/ (Len(q) = Len(p) /\ (q = p \/ PathBefore(q, p)))

Extensions(p) ==
    LET next == Sorted({u \in Units : Last(p) \in deps[u]} \ ToSet(p))
    IN [i \in DOMAIN next |-> Append(p, next[i])]

VisitPath ==
    LET p == Head(queue)
        u == Last(p)
    IN /\ stage = "tracing"
       /\ queue # <<>>
       /\ IF u \in DOMAIN witness /\ NoBetter(p, witness[u])
          THEN /\ queue' = Tail(queue)
               /\ UNCHANGED witness
          ELSE /\ queue' = Tail(queue) \o Extensions(p)
               /\ witness' = [v \in DOMAIN witness \cup {u} |-> IF v = u THEN p ELSE witness[v]]
       /\ UNCHANGED <<vars, stage, route, roots, changed, postDeps, outcome>>

Affected == DOMAIN witness

-----------------------------------------------------------------------------
(* createRecoveryPlanV1 *)

\* A proposal says of each affected unit whether it is changed (by an inverse
\* or a compensation) or retained; a retained unit keeps its definition.  The
\* impact has been recorded, and only the plan is read from now on.
AcceptPlan ==
    /\ stage = "tracing"
    /\ roots = <<>> /\ queue = <<>>
    /\ \E C \in SUBSET Affected :
          /\ changed' = C
          /\ postDeps' \in {plan \in PlansChanging(C) : Orderable(plan)}
    /\ stage' = "accepted"
    /\ witness' = <<>>
    /\ UNCHANGED <<vars, route, roots, queue, outcome>>

\* Proposals that do not cover the impact, whose steps name other dependencies
\* than those on changed units, or whose plan cannot be ordered.
RefuseProposal ==
    /\ stage = "tracing"
    /\ roots = <<>> /\ queue = <<>>
    /\ stage' = "refused"
    /\ UNCHANGED <<vars, route, roots, queue, witness, changed, postDeps, outcome>>

\* <<u, d>>: the sequence holds d before u.
PairsInOrder(sequence) ==
    {<<sequence[p[1]], sequence[p[2]]>> : p \in
        {q \in (DOMAIN sequence) \X (DOMAIN sequence) : q[2] < q[1]}}

\* Seeded fault: the steps follow the order of the source plan.
ExecutionOrderOfSource == PairsInOrder(order) \cap (changed \X changed)

\* executionOrder, the changed units of the new plan's order: <<u, d>> if the step
\* of d comes before that of u.
ExecutionOrder == PairsInOrder(OrderOf(postDeps)) \cap (changed \X changed)

-----------------------------------------------------------------------------
(* The gate over the projection *)

Carried == Units \ changed

\* The commit of d is an ancestor of the commit of u: carried commits stand as
\* the first gate found them; the new ones contain what newer says.
Descends(u, d, newer) ==
    \/ u \in Carried /\ d \in Carried /\ d \in deps[u]
    \/ u \in changed /\ <<u, d>> \in newer

Diagnosed(newer) == {u \in Units : \E d \in postDeps[u] : ~Descends(u, d, newer)}

\* The branch of the recovery runner: on top of all that is carried one commit
\* for each step, in the order of the steps.
BranchOrder == (changed \X Carried) \cup ExecutionOrder

\* The gate of a completed rollback: units without their dependencies make it
\* an error; otherwise evidence and external effects decide.
JudgeRollback ==
    /\ stage = "accepted"
    /\ route = "rollback"
    /\ LET found == Diagnosed(BranchOrder)
       IN \E result \in IF found # {} THEN {"error"} ELSE {"recovered", "blocked"} :
             outcome' = [diagnosed |-> found, result |-> result]
    /\ stage' = "judged"
    /\ UNCHANGED <<vars, route, roots, queue, witness, changed, postDeps>>

-----------------------------------------------------------------------------
(* createDagSelectiveRecovery *)

\* A blocked gate, and a replan that partitions the units of its plan: made from
\* this gate's verdicts, or from others that spared one of the invalid units.
BeginReplacement ==
    /\ pc = "done"
    /\ verdict = "blocked"
    /\ stage = "none"
    /\ Failing \in Replaced
    /\ \E C \in {invalid} \cup {invalid \ {u} : u \in invalid} :
          /\ C # {}
          /\ changed' = C
          /\ postDeps' \in PlansChanging(C)
    /\ stage' = "accepted"
    /\ route' = "replacement"
    /\ UNCHANGED <<vars, roots, queue, witness, outcome>>

\* The projection needs one implementation of every unit under its own plan.
RefuseProjection ==
    /\ stage = "accepted"
    /\ route = "replacement"
    /\ stage' = "refused"
    /\ UNCHANGED <<vars, route, roots, queue, witness, changed, postDeps, outcome>>

\* The commits of the new plan are made by hand, some perhaps without what they
\* depend on (lost).  The defects of a plan that cannot be ordered are diagnosed
\* before its commits are.  A gate that ends in an error is no evidence here.
JudgeReplacement ==
    /\ stage = "accepted"
    /\ route = "replacement"
    /\ \E lost \in SUBSET {u \in changed : postDeps[u] # {}} :
          LET found == IF Orderable(postDeps) THEN Diagnosed((changed \ lost) \X Units) ELSE {}
          IN outcome' = [diagnosed |-> found,
                         result |-> IF found = {} /\ Orderable(postDeps)
                                    THEN "evaluated" ELSE "error"]
    /\ stage' = IF outcome'.result = "error" THEN "refused" ELSE "judged"
    /\ UNCHANGED <<vars, route, roots, queue, witness, changed, postDeps>>

PartitionMatches == changed = invalid

\* assertDagSelectiveRecoveryIntegrity compares the partition with the verdicts
\* of the source gate before the sidecar is written.
Seal ==
    /\ stage = "judged"
    /\ route = "replacement"
    /\ stage' = IF PartitionMatches THEN "sealed" ELSE "refused"
    /\ UNCHANGED <<vars, route, roots, queue, witness, changed, postDeps, outcome>>

-----------------------------------------------------------------------------
Recover ==
    \/ BeginRollback \/ NextRoot \/ VisitPath \/ AcceptPlan \/ RefuseProposal
    \/ JudgeRollback
    \/ BeginReplacement \/ RefuseProjection \/ JudgeReplacement \/ Seal

GateAndRecover ==
    \/ Next /\ UNCHANGED recoveryVars
    \/ Recover

RecoverySpec ==
    /\ RecoveryInit
    /\ [][GateAndRecover]_allVars
    /\ WF_allVars(Step /\ UNCHANGED recoveryVars)

-----------------------------------------------------------------------------
(* Properties *)

\* The paths along which units depend on a target, one on the other.
PathsFrom(targets) ==
    {p \in UNION {[1..n -> Units] : n \in 1..Cardinality(Units)} :
        p[1] \in targets /\ \A i \in 2..Len(p) : p[i - 1] \in deps[p[i]]}

\* The traced impact is the closure of its targets under dependants, and each
\* witness the first of the shortest paths from any target: a function of the
\* SET of targets, so that runner and verifier, which trace the targets in
\* different orders, find the same bytes (computeRecoveryImpactV1 157-176,
\* expectedImpact in recovery-integrity.ts 128-161).
ImpactIsCanonical ==
    stage = "tracing" /\ roots = <<>> /\ queue = <<>> =>
        LET targets == {u \in Affected : witness[u] = <<u>>}
        IN /\ IsConsequenceOf(deps, Affected, targets)
           /\ \A p \in PathsFrom(targets) :
                LET w == witness[Last(p)]
                IN Len(w) <= Len(p) /\ (Len(w) = Len(p) => ~PathBefore(p, w))

\* A carried unit stands on carried units: the second gate refuses it for its
\* ancestry exactly when it depends on a changed one.  A rollback may retain
\* such a unit and then ends in an error, although its own commits are always
\* in the right order; a replacement of all that the first gate found invalid
\* never does, because no valid unit depends on an invalid one.
CarriedStandOnCarried ==
    outcome.result # "none" =>
        LET orphans == {u \in Carried : postDeps[u] \cap changed # {}}
        IN /\ Orderable(postDeps) => outcome.diagnosed \cap Carried = orphans
           /\ route = "rollback" => outcome.diagnosed = orphans
           /\ route = "replacement" /\ changed = invalid => orphans = {}
=============================================================================
