---------------------------- MODULE RecoveryRunner ----------------------------
(***************************************************************************)
(* grfs rollback apply, resume and abort: short-lived processes that share *)
(* one Git ref, moved by compare-and-swap, and one directory of attempt    *)
(* files, created exclusively.  Nothing locks the two together, and a      *)
(* process may die between any two of its steps.                           *)
(***************************************************************************)
EXTENDS RecoveryChain

CONSTANTS
    Commands,       \* invocations of the command line
    StepLimit,      \* the --max-steps a limited invocation is given
    MaxSequence,    \* the largest sequence number the attempt schema accepts
    Overlap,        \* may a command start while another one runs?
    Faults          \* what the environment may do

FaultKinds == {"crash", "disk", "patch", "evidence", "foreign"}

ASSUME RunnerAssumption ==
    /\ IsFiniteSet(Commands)
    /\ StepLimit \in Nat \ {0}
    /\ MaxSequence \in Nat
    /\ Overlap \in BOOLEAN
    /\ Faults \subseteq FaultKinds

VARIABLES
    ref,       \* refs/heads/grfs/recovery/<plan>
    files,     \* complete attempt files, each as the history it ends
    torn,      \* attempt files created but not (or not yet) written
    results,   \* files of RecoveryResults, by the history they embed, whole or not
    cmd        \* where each invocation stands

vars == <<ref, files, torn, results, cmd>>

Absent == -1
Foreign == -2    \* a commit that is not the recovery's

Commit == Nat

Idle == [pc |-> "idle"]

NoEntry == [status |-> "branch-created", unit |-> NoUnit, before |-> 0, after |-> 0,
            failure |-> "none"]

Running == {"reading", "creating", "matching", "working", "creatingFile",
            "fillingFile", "checking", "confirming", "persisting", "fillingResult"}
\* How an invocation ends: what it reports, an error or a dead process. One that ends
\* either way while it records an attempt is told apart.
Ended == {"partial", "complete", "aborted", "failed", "crashed", "unrecorded"}

-----------------------------------------------------------------------------
Active(c) == cmd[c].pc \in Running

Recording(c) == cmd[c].pc \in {"creatingFile", "fillingFile"}

Quiet == \A c \in Commands : ~Active(c)

\* readAttempts returns the files in the order of their sequence numbers; it
\* throws on a file that does not parse.
Readable == torn = {}

\* assertAttemptState accepts the files: they are the prefixes of one history.
IsChain(h) ==
    /\ files = {SubSeq(h, 1, i) : i \in 1..Len(h)}
    /\ ChainOk(h)

Ends == {h \in files : \A g \in files : Len(g) <= Len(h)}

EndRecorded == \E h \in files : h[Len(h)].status \in TerminalStatuses

Init ==
    /\ ref = Absent
    /\ files = {}
    /\ torn = {}
    /\ results = {}
    /\ cmd = [c \in Commands |-> Idle]

GoTo(c, state) == cmd' = [cmd EXCEPT ![c].pc = state]

\* An invocation starts, or is refused before it looks at the recovery: the
\* caller's HEAD has moved, or a plan or authorization cannot be loaded.
Start(c, kind, limited) ==
    /\ cmd[c] = Idle
    /\ Overlap \/ Quiet
    /\ kind = "abort" => ~limited
    /\ \E state \in {"reading", "failed"} :
           cmd' = [cmd EXCEPT ![c] = [pc |-> state, kind |-> kind, limited |-> limited,
                                      history |-> <<>>, entry |-> NoEntry, applied |-> 0]]
    /\ UNCHANGED <<ref, files, torn, results>>

-----------------------------------------------------------------------------
(* Appending one attempt *)

Entry(status, unit, before, after, failure) ==
    [status |-> status, unit |-> unit, before |-> before, after |-> after,
     failure |-> failure]

\* An attempt that moves nothing, at the head of the worktree.
Note(h, status, unit, failure) == Entry(status, unit, HeadOf(h), HeadOf(h), failure)

ToAppend(c, entry) ==
    cmd' = [cmd EXCEPT ![c].pc = "creatingFile", ![c].entry = entry]

\* An error inside the try block of a step is caught and recorded as the
\* failure of that step; anywhere else it ends the invocation.
Throw(c, failure) ==
    LET entry == cmd[c].entry IN
    IF entry.status = "step-applied"
    THEN ToAppend(c, Entry("step-failed", entry.unit, entry.before, entry.before, failure))
    ELSE GoTo(c, "unrecorded")

AfterAppend(status) ==
    CASE status = "branch-created" -> "matching"
      [] status \in {"plan-accepted", "step-retained", "step-applied"} -> "working"
      [] status \in {"partial", "step-failed"} -> "partial"
      [] status = "completed" -> "confirming"
      [] status = "aborted" -> "aborted"

Appended(c) == Append(cmd[c].history, cmd[c].entry)

Remember(c) ==
    LET status == cmd[c].entry.status IN
    cmd' = [cmd EXCEPT ![c].pc = AfterAppend(status),
                       ![c].history = Appended(c),
                       ![c].applied = IF status = "step-applied" THEN @ + 1 ELSE @]

\* writeFile with the flag wx. A file of the same content that is already
\* there is accepted, one that cannot be parsed is an error.
CreateFile(c) ==
    /\ cmd[c].pc = "creatingFile"
    /\ LET h == Appended(c) IN
       \/ /\ \/ Len(cmd[c].history) > MaxSequence
             \/ h \in torn
          /\ Throw(c, "store")
          /\ UNCHANGED torn
       \/ /\ Len(cmd[c].history) <= MaxSequence
          /\ h \in files
          /\ Remember(c)
          /\ UNCHANGED torn
       \/ /\ Len(cmd[c].history) <= MaxSequence
          /\ h \notin files \cup torn
          /\ torn' = torn \cup {h}
          /\ GoTo(c, "fillingFile")
    /\ UNCHANGED <<ref, files, results>>

FillFile(c) ==
    /\ cmd[c].pc = "fillingFile"
    /\ torn' = torn \ {Appended(c)}
    /\ files' = files \cup {Appended(c)}
    /\ Remember(c)
    /\ UNCHANGED <<ref, results>>

\* The file cannot be created, or has been created and cannot be written.
DiskFull(c) ==
    /\ "disk" \in Faults
    /\ Recording(c)
    /\ Throw(c, "store")
    /\ UNCHANGED <<ref, files, torn, results>>

-----------------------------------------------------------------------------
(* Reading the state of the recovery *)

ReadToApply(c) ==
    /\ cmd[c].pc = "reading"
    /\ cmd[c].kind = "apply"
    /\ GoTo(c, IF Readable /\ files = {} /\ ref = Absent THEN "creating" ELSE "failed")
    /\ UNCHANGED <<ref, files, torn, results>>

\* Seeded fault: a recovery that has ended is read like any other.
ReadChainPastEnd(c) ==
    /\ cmd[c].pc = "reading"
    /\ cmd[c].kind # "apply"
    /\ Readable
    /\ \E h \in Ends :
           /\ IsChain(h)
           /\ cmd' = [cmd EXCEPT ![c].pc = IF cmd[c].kind = "resume"
                                           THEN "matching" ELSE "checking",
                                 ![c].history = h]
    /\ UNCHANGED <<ref, files, torn, results>>

\* resume and abort validate the chain and refuse one that has ended.
ReadChain(c) ==
    /\ cmd[c].pc = "reading"
    /\ cmd[c].kind # "apply"
    /\ \/ /\ Readable
          /\ ~EndRecorded
          /\ \E h \in Ends :
                 /\ IsChain(h)
                 /\ cmd' = [cmd EXCEPT ![c].pc = IF cmd[c].kind = "resume"
                                                 THEN "matching" ELSE "checking",
                                       ![c].history = h]
       \/ /\ ~Readable \/ EndRecorded \/ ~\E h \in Ends : IsChain(h)
          /\ GoTo(c, "failed")
    /\ UNCHANGED <<ref, files, torn, results>>

\* update-ref with the zero object name as the prior value.
CreateRef(c) ==
    /\ cmd[c].pc = "creating"
    /\ \/ /\ ref = Absent
          /\ ref' = 0
          /\ ToAppend(c, Entry("branch-created", NoUnit, 0, 0, "none"))
       \/ /\ ref # Absent
          /\ GoTo(c, "failed")
          /\ UNCHANGED ref
    /\ UNCHANGED <<files, torn, results>>

\* The worktree is checked out at the ref, which must be the witnessed head.
MatchRef(c) ==
    /\ cmd[c].pc = "matching"
    /\ GoTo(c, IF ref = HeadOf(cmd[c].history) THEN "working" ELSE "failed")
    /\ UNCHANGED <<ref, files, torn, results>>

-----------------------------------------------------------------------------
(* Materializing the plan: each duty of the loop, in its order *)

Working(c) == cmd[c].pc = "working"

PlanAccepted(h) == Count(h, "plan-accepted") > 0

\* Seeded fault: retained units are skipped.
RetainsSkipped(h) == PlanAccepted(h)

RetainsDone(h) == PlanAccepted(h) /\ Count(h, "step-retained") = Len(Retained)

StepsDone(h) == RetainsDone(h) /\ Count(h, "step-applied") = Len(Order)

NextUnit(h) == Order[Count(h, "step-applied") + 1]

LimitReached(c) == cmd[c].limited /\ cmd[c].applied >= StepLimit

\* Seeded faults: the prior value is not passed, and the ref is left behind.
SwapAny(before, after) == ref \in {before, after, Foreign} /\ ref' = after

SwapNothing(before, after) == ref = before /\ ref' = ref

\* update-ref with the prior value: the ref moves from the head of the worktree
\* to its new commit, or the update is refused.
Swap(before, after) ==
    /\ ref = before
    /\ ref' = after

AcceptPlan(c) ==
    LET head == HeadOf(cmd[c].history) IN
    /\ Working(c)
    /\ ~PlanAccepted(cmd[c].history)
    /\ \/ /\ Swap(head, head + 1)
          /\ ToAppend(c, Entry("plan-accepted", NoUnit, head, head + 1, "none"))
       \/ /\ ref # head
          /\ GoTo(c, "failed")
          /\ UNCHANGED ref
    /\ UNCHANGED <<files, torn, results>>

Retain(c) ==
    LET h == cmd[c].history IN
    /\ Working(c)
    /\ PlanAccepted(h)
    /\ ~RetainsDone(h)
    /\ ToAppend(c, Note(h, "step-retained", Retained[Count(h, "step-retained") + 1], "none"))
    /\ UNCHANGED <<ref, files, torn, results>>

Pause(c) ==
    LET h == cmd[c].history IN
    /\ Working(c)
    /\ RetainsDone(h)
    /\ ~StepsDone(h)
    /\ LimitReached(c)
    /\ ToAppend(c, Note(h, "partial", NoUnit, "none"))
    /\ UNCHANGED <<ref, files, torn, results>>

\* The patch is applied and committed in the worktree, then the ref is swapped.
ApplyStep(c) ==
    LET h == cmd[c].history
        head == HeadOf(h)
    IN /\ Working(c)
       /\ RetainsDone(h)
       /\ ~StepsDone(h)
       /\ ~LimitReached(c)
       /\ \/ /\ Swap(head, head + 1)
             /\ ToAppend(c, Entry("step-applied", NextUnit(h), head, head + 1, "none"))
          \/ /\ ref # head
             /\ ToAppend(c, Note(h, "step-failed", NextUnit(h), "conflict"))
             /\ UNCHANGED ref
       /\ UNCHANGED <<files, torn, results>>

\* The patch does not apply, is empty or leaves its scope.
PatchFails(c) ==
    LET h == cmd[c].history IN
    /\ "patch" \in Faults
    /\ Working(c)
    /\ RetainsDone(h)
    /\ ~StepsDone(h)
    /\ ~LimitReached(c)
    /\ ToAppend(c, Note(h, "step-failed", NextUnit(h), "patch"))
    /\ UNCHANGED <<ref, files, torn, results>>

\* The post-recovery evidence is computed, then the end is recorded.
Complete(c) ==
    /\ Working(c)
    /\ StepsDone(cmd[c].history)
    /\ ToAppend(c, Note(cmd[c].history, "completed", NoUnit, "none"))
    /\ UNCHANGED <<ref, files, torn, results>>

EvidenceFails(c) ==
    /\ "evidence" \in Faults
    /\ Working(c)
    /\ StepsDone(cmd[c].history)
    /\ GoTo(c, "failed")
    /\ UNCHANGED <<ref, files, torn, results>>

\* The ref is read again before the result is persisted.
ConfirmRef(c) ==
    /\ cmd[c].pc = "confirming"
    /\ GoTo(c, IF ref = HeadOf(cmd[c].history) THEN "persisting" ELSE "failed")
    /\ UNCHANGED <<ref, files, torn, results>>

ResultFile(c, whole) == [history |-> cmd[c].history, whole |-> whole]

Persisted(h) == [history |-> h, whole |-> TRUE] \in results

\* The result is a content-addressed file like an attempt, in a directory of its own.
PersistResult(c) ==
    /\ cmd[c].pc = "persisting"
    /\ \/ /\ ResultFile(c, TRUE) \in results
          /\ GoTo(c, "complete")
          /\ UNCHANGED results
       \/ /\ ResultFile(c, FALSE) \in results
          /\ GoTo(c, "failed")
          /\ UNCHANGED results
       \/ /\ \A whole \in BOOLEAN : ResultFile(c, whole) \notin results
          /\ GoTo(c, "fillingResult")
          /\ results' = results \cup {ResultFile(c, FALSE)}
    /\ UNCHANGED <<ref, files, torn>>

FillResult(c) ==
    /\ cmd[c].pc = "fillingResult"
    /\ results' = (results \ {ResultFile(c, FALSE)}) \cup {ResultFile(c, TRUE)}
    /\ GoTo(c, "complete")
    /\ UNCHANGED <<ref, files, torn>>

\* After the end is recorded the result may fail its schema or its integrity, and the
\* file may not be created or not be written.
ResultFails(c) ==
    /\ \/ "evidence" \in Faults /\ cmd[c].pc = "confirming"
       \/ "disk" \in Faults /\ cmd[c].pc \in {"persisting", "fillingResult"}
    /\ GoTo(c, "failed")
    /\ UNCHANGED <<ref, files, torn, results>>

\* abort checks the ref and appends; it moves nothing.
CheckRef(c) ==
    /\ cmd[c].pc = "checking"
    /\ IF ref = HeadOf(cmd[c].history)
       THEN ToAppend(c, Note(cmd[c].history, "aborted", NoUnit, "none"))
       ELSE GoTo(c, "failed")
    /\ UNCHANGED <<ref, files, torn, results>>

-----------------------------------------------------------------------------
Crash(c) ==
    /\ "crash" \in Faults
    /\ Active(c)
    /\ GoTo(c, IF Recording(c) THEN "unrecorded" ELSE "crashed")
    /\ UNCHANGED <<ref, files, torn, results>>

\* Somebody commits to the recovery branch, or resets it.
ForeignUpdate ==
    /\ "foreign" \in Faults
    /\ ref \in Commit
    /\ ref' = Foreign
    /\ UNCHANGED <<files, torn, results, cmd>>

Step(c) ==
    \/ ReadToApply(c) \/ ReadChain(c) \/ CreateRef(c) \/ MatchRef(c)
    \/ CreateFile(c) \/ FillFile(c)
    \/ AcceptPlan(c) \/ Retain(c) \/ Pause(c) \/ ApplyStep(c) \/ Complete(c)
    \/ ConfirmRef(c) \/ PersistResult(c) \/ FillResult(c) \/ CheckRef(c)

Fault(c) == Crash(c) \/ DiskFull(c) \/ PatchFails(c) \/ EvidenceFails(c) \/ ResultFails(c)

Next ==
    \/ \E c \in Commands :
           \/ \E kind \in {"apply", "resume", "abort"}, limited \in BOOLEAN :
                  Start(c, kind, limited)
           \/ Step(c)
           \/ Fault(c)
    \/ ForeignUpdate

Spec == Init /\ [][Next]_vars

-----------------------------------------------------------------------------
(* Safety, whatever runs at once and whatever fails *)

\* Two packages agree: every history the runner writes is one that
\* assertRecoveryAttemptChainIntegrity accepts, after any failure or retry.
WritersSatisfyVerifier == \A h \in files : ChainOk(h)

\* Commits are witnessed one by one: the recovery branch is never more than one
\* commit ahead of the attempts on disk, and never behind a recorded commit.
BranchIsWitnessed ==
    ref \in Commit =>
        /\ \A h \in files : HeadOf(h) <= ref
        /\ ref > 0 => \E h \in files : ref - 1 <= HeadOf(h)

-----------------------------------------------------------------------------
(* Safety of commands that run one after the other: whatever failed and       *)
(* whichever process died, a stop leaves damage of few kinds, each with one   *)
(* command that caused it.                                                    *)

\* An attempt of this command was not recorded: it could not be written, the sequence
\* was at its end, or the process died over it.  A step reports that as its failure.
Unrecorded(c) ==
    \/ cmd[c].pc = "unrecorded"
    \/ cmd[c] # Idle /\ cmd[c].entry.failure = "store"

\* It had moved the branch before.
Unwitnessed(c) ==
    /\ Unrecorded(c)
    /\ \/ cmd[c].entry.status \in Mutations \cup {"branch-created"}
       \/ cmd[c].entry.failure = "store"

\* The complete files never stop being one history that every reader accepts.
OneChain == files = {} \/ \E h \in Ends : IsChain(h)

\* A torn file, after which nobody can read the recovery, is an unrecorded attempt.
TornIsExplained == torn # {} => \E c \in Commands : Unrecorded(c)

\* The branch is at the last witnessed head, unless somebody else has moved it or one
\* command died or failed after it had moved the branch and before that was recorded.
BranchIsExplained ==
    \/ ref = Foreign
    \/ ref = IF files = {} THEN Absent ELSE HeadOf(CHOOSE h \in Ends : TRUE)
    \/ \E c \in Commands : Unwitnessed(c)

\* A completed recovery has its result, or the command that completed it failed or died
\* before the result was persisted.  No other command ever makes up for that.
ResultIsExplained ==
    \A h \in files : h[Len(h)].status = "completed" =>
        \/ Persisted(h)
        \/ \E c \in Commands : cmd[c].pc \in {"failed", "crashed"} /\ cmd[c].history = h

\* The sequence is used up by the plan and by pauses, failed steps and the end, of which
\* each command records one at most.
Closings(h) ==
    {i \in 1..Len(h) : h[i].status \in {"partial", "step-failed"} \cup TerminalStatuses}

LengthIsExplained ==
    \A h \in files :
        Cardinality(Closings(h)) <= Cardinality({c \in Commands : cmd[c] # Idle})

\* When no command runs, what is left is one history, and whatever is wrong with it can
\* be traced to one command that died or failed over one effect, or to a foreign update.
StopIsExplained ==
    Quiet =>
        /\ OneChain
        /\ TornIsExplained
        /\ BranchIsExplained
        /\ ResultIsExplained
        /\ LengthIsExplained

-----------------------------------------------------------------------------
(* Refinement, for commands that run one after the other: the longest history *)
(* is the ledger, whichever steps fail and wherever a command dies.           *)

Ledger == INSTANCE RecoveryLedger WITH
    ledger <- IF files = {} THEN <<>> ELSE CHOOSE h \in Ends : TRUE,
    branch <- ref

ImplementsRecoveryLedger == Ledger!Spec
=============================================================================
