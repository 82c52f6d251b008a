---------------------------- MODULE RecoveryLedger ----------------------------
(***************************************************************************)
(* What a recovery promises about its branch and its evidence, with no     *)
(* commands, files or crashes: one ledger that only grows and that every   *)
(* reader accepts, a branch that advances by one commit at a time and only *)
(* when the ledger witnesses all of it, and nothing after the end.         *)
(***************************************************************************)
EXTENDS RecoveryChain

VARIABLES
    ledger,   \* the recorded attempts
    branch    \* commits on the recovery branch above the authorized head

vars == <<ledger, branch>>

Absent == -1
Foreign == -2    \* somebody else moved the branch

Witnessed == IF ledger = <<>> THEN Absent ELSE HeadOf(ledger)

Init ==
    /\ ledger = <<>>
    /\ branch = Absent

\* The branch is created, or grows by the next commit.
Advance ==
    /\ branch = Witnessed
    /\ ~Terminal(ledger)
    /\ branch' = branch + 1
    /\ UNCHANGED ledger

\* An attempt is recorded; one that claims a commit finds it on the branch.
Attempts ==
    LET head == IF ledger = <<>> THEN 0 ELSE Witnessed
    IN  [status : Statuses, unit : Units \cup {NoUnit},
         before : {head}, after : {head, head + 1}, failure : Failures]

Record ==
    /\ UNCHANGED branch
    /\ branch # Absent
    /\ ~Terminal(ledger)
    /\ ledger' \in {Append(ledger, attempt) : attempt \in Attempts}
    /\ ChainOk(ledger')
    /\ HeadOf(ledger') # Witnessed => branch \in {Foreign, HeadOf(ledger')}

Interfere ==
    /\ branch # Absent
    /\ branch' = Foreign
    /\ UNCHANGED ledger

Next ==
    \/ Advance
    \/ Record
    \/ Interfere

Spec == Init /\ [][Next]_vars
=============================================================================
