----------------------------- MODULE DecisionLog -----------------------------
(***************************************************************************)
(* What hosted review promises of decisions (D36).  Evidence is open to    *)
(* decisions from when it is stored until it is withdrawn; a log grows by  *)
(* decisions about evidence that is open at that moment; a decision that   *)
(* supersedes another names one the log already has about the same         *)
(* evidence; and evidence that was decided upon is never opened again, so  *)
(* that a decision keeps speaking of the content it was made on.           *)
(*                                                                         *)
(* One decision may have several successors: the program compares nothing  *)
(* with what the client had seen, and a reader finds both in the list.     *)
(***************************************************************************)
CONSTANTS Ids, Evidence, NoId

VARIABLES
    log,    \* the decisions
    open    \* the evidence that may be decided upon

Entry == [id: Ids, evidence: Evidence, supersedes: Ids \cup {NoId}]

Init == log = {} /\ open = {}

DecidedUpon == {x.evidence : x \in log}

Append(e) ==
    /\ e.evidence \in open
    /\ \A x \in log : x.id # e.id
    /\ e.supersedes # NoId =>
         \E x \in log : x.id = e.supersedes /\ x.evidence = e.evidence
    /\ log' = log \cup {e}
    /\ UNCHANGED open

Open(k) ==
    /\ k \notin open \cup DecidedUpon
    /\ open' = open \cup {k}
    /\ UNCHANGED log

Withdraw ==
    /\ open' \in SUBSET open
    /\ UNCHANGED log

Next ==
    \/ \E e \in Entry : Append(e)
    \/ \E k \in Evidence : Open(k)
    \/ Withdraw

Spec == Init /\ [][Next]_<<log, open>>
=============================================================================
