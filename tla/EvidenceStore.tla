---------------------------- MODULE EvidenceStore ----------------------------
(***************************************************************************)
(* What the hosted control plane promises about one stored envelope, with  *)
(* no database, object store, transaction or clock: a client can fetch the *)
(* content of an envelope from the moment it is admitted until its access  *)
(* is withdrawn, withdrawal is final, and only a withdrawn envelope may be *)
(* forgotten so that the same digest can be admitted again.                *)
(***************************************************************************)
CONSTANT Keys   \* the tenant-scoped names an envelope can be stored under

VARIABLES
    readable,   \* envelopes whose content a client can fetch now
    withdrawn   \* envelopes still indexed whose content is out of reach

vars == <<readable, withdrawn>>

TypeOK ==
    /\ readable \subseteq Keys
    /\ withdrawn \subseteq Keys
    /\ readable \cap withdrawn = {}

Init ==
    /\ readable = {}
    /\ withdrawn = {}

\* An envelope is admitted once. An upload that waited out the whole content
\* retention is indexed without ever becoming readable.
Admit(k) ==
    /\ k \notin readable \cup withdrawn
    /\ \/ readable' = readable \cup {k} /\ UNCHANGED withdrawn
       \/ withdrawn' = withdrawn \cup {k} /\ UNCHANGED readable

\* A deletion request or the end of the retention takes envelopes out of reach.
Withdraw(S) ==
    /\ readable' = readable \ S
    /\ withdrawn' = withdrawn \cup S

\* Retention drops the index of withdrawn envelopes.
Forget(S) ==
    /\ withdrawn' = withdrawn \ S
    /\ UNCHANGED readable

Next ==
    \/ \E k \in Keys : Admit(k)
    \/ \E S \in SUBSET readable : Withdraw(S)
    \/ \E S \in SUBSET withdrawn : Forget(S)

Spec == Init /\ [][Next]_vars
=============================================================================
