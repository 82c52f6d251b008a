---------------------------- MODULE RecoveryChain ----------------------------
(***************************************************************************)
(* The history of a recovery, as every reader of it validates it: the      *)
(* RecoveryAttempt artifacts and assertRecoveryAttemptChainIntegrity.      *)
(*                                                                         *)
(* An attempt names its predecessor by digest, so an attempt file stands   *)
(* for the whole history that ends with it: here it IS that history.       *)
(* Recovery commits are made with fixed author, committer and dates on top *)
(* of the expected head, so a commit is known by how many it is above it.  *)
(***************************************************************************)
EXTENDS Integers, Sequences, FiniteSets

CONSTANTS
    Units,      \* WorkUnit ids
    Retained,   \* the ids of the plan's retain steps, in the plan's order
    Order       \* executionOrder: the ids of the inverse and compensate steps

NoUnit == "none"

ASSUME PlanAssumption ==
    /\ Retained \in Seq(Units)
    /\ Order \in Seq(Units)
    /\ NoUnit \notin Units

Failures == {"none", "patch", "conflict", "store"}

StepStatuses == {"step-retained", "step-applied", "step-failed"}
ExecutionStatuses == {"step-applied", "step-failed", "partial", "completed"}
TerminalStatuses == {"completed", "aborted"}
Mutations == {"plan-accepted", "step-applied"}
Statuses == {"branch-created", "plan-accepted"}
            \cup StepStatuses \cup ExecutionStatuses \cup TerminalStatuses

\* How many attempts before the i-th have this status.
CountBefore(h, i, status) == Cardinality({j \in 1..(i - 1) : h[j].status = status})

Count(h, status) == CountBefore(h, Len(h) + 1, status)

HeadOf(h) == h[Len(h)].after

Terminal(h) == \E i \in 1..Len(h) : h[i].status \in TerminalStatuses

\* The i-th unit of a list is this one.
IsNext(list, i, unit) == i <= Len(list) /\ unit = list[i]

Linked(h) == \A i \in 2..Len(h) : h[i].before = h[i - 1].after

Receipts(h) ==
    \A i \in 1..Len(h) :
        /\ (h[i].status \in StepStatuses) = (h[i].unit # NoUnit)
        /\ (h[i].status = "step-failed") = (h[i].failure # "none")
        /\ (h[i].status \in Mutations) = (h[i].before # h[i].after)

Opening(h) ==
    /\ h[1].status = "branch-created"
    /\ h[1].before = 0 /\ h[1].after = 0
    /\ \A i \in 2..Len(h) :
           /\ h[i].status # "branch-created"
           /\ h[i].status = "plan-accepted" => i = 2
    /\ \/ Count(h, "plan-accepted") = 1
       \/ \A i \in 2..Len(h) : h[i].status = "aborted"

StepsInOrder(h) ==
    \A i \in 1..Len(h) :
        LET retained == CountBefore(h, i, "step-retained")
            applied == CountBefore(h, i, "step-applied")
        IN /\ h[i].status = "step-retained" => IsNext(Retained, retained + 1, h[i].unit)
           /\ h[i].status \in ExecutionStatuses => retained = Len(Retained)
           /\ h[i].status \in {"step-applied", "step-failed"} =>
                  IsNext(Order, applied + 1, h[i].unit)
           /\ h[i].status = "completed" => applied = Len(Order)

EndsOnce(h) == \A i \in 1..(Len(h) - 1) : h[i].status \notin TerminalStatuses

ChainOk(h) ==
    /\ h # <<>>
    /\ Linked(h)
    /\ Receipts(h)
    /\ Opening(h)
    /\ StepsInOrder(h)
    /\ EndsOnce(h)
=============================================================================
