---------------------------- MODULE Integration ----------------------------
(***************************************************************************)
(* The integration of one head with one target: the gate judges the head,  *)
(* an isolated clone merges it with the target, the blueprints of base,    *)
(* target, head and merge are evaluated and compared, and the result names *)
(* the revisions it is about.  The branches move meanwhile.                *)
(*                                                                         *)
(* Revisions of the target are numbered in the order of its history.  A    *)
(* head has a number too, the last target revision it contains (fork) and  *)
(* the verdict of its gate.                                                *)
(***************************************************************************)
EXTENDS IntegrationEffects

CONSTANTS
    None,
    Units,          \* the work units of the plan, in its order
    Deps,           \* Deps[u]: the units that u depends on
    Satisfying,     \* Satisfying[u]: the blueprints in which u's claims hold
    Blueprints,     \* the blueprints a revision may evaluate to
    Troubles,       \* what may be wrong with the revisions
    MaxTarget, MaxHead

UnitSet == {Units[i] : i \in DOMAIN Units}

ASSUME IntegrationAssumption ==
    /\ Deps \in [UnitSet -> SUBSET UnitSet]
    /\ Satisfying \in [UnitSet -> SUBSET Blueprints]
    /\ \A b \in Blueprints : IsBlueprint(b)
    /\ MaxTarget \in Nat /\ MaxHead \in Nat

VARIABLES
    refs,       \* the revisions that the names of target and head stand for
    run,        \* the integration in progress
    stood       \* the pairs of revisions that have stood since the evaluation

Verdicts == {"pass", "blocked", "error"}
NoRun == [at |-> "idle"]
Now(r) == <<r.target, r.head.id>>

IntegrationInit ==
    /\ \E verdict \in Verdicts :
            refs = [target |-> 1, head |-> [id |-> 1, fork |-> 1, verdict |-> verdict]]
    /\ run = NoRun
    /\ stood = {}

PushTarget ==
    /\ refs.target < MaxTarget
    /\ refs' = [refs EXCEPT !.target = @ + 1]
    /\ stood' = stood \cup {Now(refs')}
    /\ UNCHANGED run

PushHead ==
    /\ refs.head.id < MaxHead
    /\ \E fork \in {refs.head.fork, refs.target}, verdict \in Verdicts :
        refs' = [refs EXCEPT !.head = [id |-> @.id + 1, fork |-> fork, verdict |-> verdict]]
    /\ stood' = stood \cup {Now(refs')}
    /\ UNCHANGED run

-----------------------------------------------------------------------------
(* The result and its verifier. *)

ConflictReasons ==
    {"TEXT_CONFLICT", "CANDIDATE_BLUEPRINT_INVALID", "NODE_DELETE_CHANGE",
     "NODE_INCOMPATIBLE_CHANGE", "EDGE_INCOMPATIBLE_CHANGE", "SUBGRAPH_INCOMPATIBLE_CHANGE",
     "METADATA_INCOMPATIBLE_CHANGE", "CLAIM_INVALIDATED", "DEPENDENCY_INVALIDATED",
     "POLICY_INVALIDATED", "HEAD_GATE_NOT_PASSING"}

\* A candidate says what was integrated and whether all evidence is there.
Candidate(status) ==
    [target |-> run.target, head |-> run.gate.id, verdict |-> run.gate.verdict, status |-> status]

Accepts(candidate, result) ==
    LET blocking == result.reasons \cap ConflictReasons
        shown == {c.reason : c \in result.conflicts}
    IN /\ ("TARGET_MOVED" \in result.reasons) = (result.observed[1] # candidate.target)
       /\ ("HEAD_MOVED" \in result.reasons) = (result.observed[2] # candidate.head)
       /\ shown \subseteq result.reasons
       /\ result.outcome = "conflict" => /\ shown \subseteq ConflictReasons
                                         /\ blocking # {} /\ blocking \subseteq shown
       /\ result.outcome = "compatible" =>
            /\ candidate.status = "ready" /\ candidate.verdict = "pass"
            /\ result.reasons = {} /\ result.conflicts = {}
       /\ result.outcome = "error" => result.reasons # {}

\* A result is given out only if the verifier accepts it.
Assemble(next, candidate, result) ==
    IF Accepts(candidate, result)
    THEN run' = [run EXCEPT !.at = next, !.candidate = candidate, !.result = result]
    ELSE run' = [run EXCEPT !.at = "failed", !.why = "verifier"]

Judged(conflicts) ==
    [observed |-> <<run.target, run.gate.id>>, conflicts |-> conflicts,
     reasons |-> {c.reason : c \in conflicts},
     outcome |-> IF conflicts = {} THEN "compatible" ELSE "conflict"]

FailureOutcome(reason) == IF reason \in ConflictReasons THEN "conflict" ELSE "error"

\* Why there is no comparison, with the revisions as they are by then.
Fail(next, reason, observed) ==
    Assemble(next, Candidate(FailureOutcome(reason)),
             [observed |-> observed, conflicts |-> {Conflict(reason, <<reason>>)},
              reasons |-> {reason}, outcome |-> FailureOutcome(reason)])

GiveUp(why) == run' = [run EXCEPT !.at = "failed", !.why = why]

-----------------------------------------------------------------------------
(* The stages of a run. *)

\* A run is given the names of the branches, or revisions that never move.
StartRun(fixed) ==
    run' = [at |-> "gate", fixed |-> fixed, gate |-> None, target |-> None, graph |-> None,
            candidate |-> None, result |-> None, why |-> None]

Resolve(name) == IF run.fixed = None THEN refs[name] ELSE run.fixed[name]

IntegrateNames ==
    /\ run.at = "idle"
    /\ StartRun(None)
    /\ UNCHANGED <<refs, stood>>

\* The gate binds the plan at the head; without a plan there is no run.
GateHead ==
    /\ run.at = "gate"
    /\ \/ run' = [run EXCEPT !.at = "snapshot", !.gate = Resolve("head")]
       \/ "plan" \in Troubles /\ GiveUp("plan")
    /\ UNCHANGED <<refs, stood>>

\* The runtime of the target must evaluate the target.
SnapshotTarget ==
    /\ run.at = "snapshot"
    /\ \/ run' = [run EXCEPT !.at = "merge"]
       \/ "snapshot" \in Troubles /\ GiveUp("snapshot")
    /\ UNCHANGED <<refs, stood>>

\* The head contains the target, which is then their merge base.
Contains(head, target) == head.fork >= target

\* A failure of the merge leaves the run before the revisions are read again.
MergeTrouble ==
    {t \in {"ANCESTRY_AMBIGUOUS", "HEAD_RANGE_NON_LINEAR", "TEXT_CONFLICT"} :
        t \in Troubles /\ (Contains(run.gate, run.target) => t = "HEAD_RANGE_NON_LINEAR")}

ResolveTarget ==
    /\ run.at = "merge" /\ run.target = None
    /\ run' = [run EXCEPT !.target = Resolve("target")]
    /\ UNCHANGED <<refs, stood>>

MergeIsolated ==
    /\ run.at = "merge" /\ run.target # None
    /\ \/ run' = [run EXCEPT !.at = "evaluate"]
       \/ \E reason \in MergeTrouble : Fail("done", reason, <<run.target, run.gate.id>>)
    /\ UNCHANGED <<refs, stood>>

\* The four blueprints; a head that contains the target is itself the merge.
Evaluate ==
    /\ run.at = "evaluate"
    /\ \/ \E base, target, head, merge \in Blueprints :
            /\ Contains(run.gate, run.target) => base = target /\ merge = head
            /\ run' = [run EXCEPT !.at = "judge",
                        !.graph = [base |-> base, target |-> target, head |-> head, merge |-> merge]]
       \/ \E reason \in {"CANDIDATE_EVALUATION_FAILED", "CANDIDATE_BLUEPRINT_INVALID"} \cap Troubles :
            Fail("recheck", reason, <<run.target, run.gate.id>>)
    /\ stood' = {Now(refs)}
    /\ UNCHANGED refs

\* The units that lose a claim, or depend on an earlier unit that does.
Invalid(merge) ==
    LET bad[i \in DOMAIN Units] ==
            \/ merge \notin Satisfying[Units[i]]
            \/ \E j \in 1 .. i - 1 : Units[j] \in Deps[Units[i]] /\ bad[j]
    IN {Units[i] : i \in {j \in DOMAIN Units : bad[j]}}

\* Claims on the merge, and what depends on the units that lose theirs.
ClaimConflicts(merge) ==
    {Conflict("CLAIM_INVALIDATED", <<u>>) : u \in {v \in UnitSet : merge \notin Satisfying[v]}}
    \cup UNION {{Conflict("DEPENDENCY_INVALIDATED", <<u, d>>) : d \in Deps[u] \cap Invalid(merge)} :
                 u \in UnitSet}

GateConflicts ==
    IF run.gate.verdict = "pass" THEN {}
    ELSE {Conflict("HEAD_GATE_NOT_PASSING", <<"HEAD_GATE_NOT_PASSING">>)}

Judge ==
    /\ run.at = "judge"
    /\ \E policy \in {{}} \cup {{Conflict("POLICY_INVALIDATED", <<"policy">>)} :
                                t \in {"policy"} \cap Troubles} :
        Assemble("recheck", Candidate("ready"),
            Judged(GraphConflicts(run.graph) \cup ClaimConflicts(run.graph.merge)
                   \cup GateConflicts \cup policy))
    /\ UNCHANGED <<refs, stood>>

\* Seeded fault: the target is not read again.
RecheckTargetNever ==
    /\ run.at = "recheck"
    /\ run' = [run EXCEPT !.at = "rehead", !.graph = None]
    /\ UNCHANGED <<refs, stood>>
RecheckTarget ==
    /\ run.at = "recheck"
    /\ IF Resolve("target") = run.target THEN run' = [run EXCEPT !.at = "rehead", !.graph = None]
       ELSE Fail("done", "TARGET_MOVED", <<Resolve("target"), run.gate.id>>)
    /\ UNCHANGED <<refs, stood>>

\* Seeded fault: the head that was found is not put into the result.
RecheckHeadOnly ==
    /\ run.at = "rehead"
    /\ IF Resolve("head").id = run.gate.id THEN run' = [run EXCEPT !.at = "done"]
       ELSE Fail("done", "HEAD_MOVED", <<run.target, run.gate.id>>)
    /\ UNCHANGED <<refs, stood>>
RecheckHead ==
    /\ run.at = "rehead"
    /\ IF Resolve("head").id = run.gate.id THEN run' = [run EXCEPT !.at = "done"]
       ELSE Fail("done", "HEAD_MOVED", <<run.target, Resolve("head").id>>)
    /\ UNCHANGED <<refs, stood>>

RunStep ==
    \/ GateHead \/ SnapshotTarget \/ ResolveTarget \/ MergeIsolated \/ Evaluate
    \/ Judge \/ RecheckTarget \/ RecheckHead

-----------------------------------------------------------------------------
(* Properties. *)

Compatible == run.at = "done" /\ run.result.outcome = "compatible"

\* A merge called compatible keeps every change of both branches, part by part,
\* and every claim of the plan holds in it (integration-effects.ts 205-354,
\* integration-semantics.ts 84-179).
CompatibleIsSafe ==
    run.at = "recheck" /\ run.result.outcome = "compatible" =>
        /\ KeepsWatched(run.graph)
        /\ \A u \in UnitSet : run.graph.merge \in Satisfying[u]
        /\ run.gate.verdict = "pass"

\* The revisions of a compatible result stood together at some moment after
\* their evaluation, whatever moved in between (withIsolatedGitCandidate,
\* integration-candidate.ts 571-596, and runIntegration, integration-runner.ts
\* 219-244): docs/product/contracts.jsonl:48, "Target or head movement
\* invalidates the result".
CompatibleStoodTogether ==
    Compatible /\ run.fixed = None => <<run.target, run.gate.id>> \in stood

\* No result that the runner assembles is refused by its own verifier, whatever
\* moved (integration-runner.ts 107-138 and integration-integrity.ts 38-148).
VerifierNeverRefuses == run.at = "failed" => run.why # "verifier"

=============================================================================
