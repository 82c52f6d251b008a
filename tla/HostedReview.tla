---------------------------- MODULE HostedReview ----------------------------
(***************************************************************************)
(* HostedReviewService over PostgresHostedReviewStore, composed with the   *)
(* persistence whose rows and objects it reads.                            *)
(*                                                                         *)
(* A visit is one call of readEvidence or appendDecision.  Its time is     *)
(* read once, after it was authorised; then follow, each awaited on its    *)
(* own, the select of the index, the select and the fetch of the stored    *)
(* envelope, and the transaction that writes.  Uploads, deletions and      *)
(* purges of HostedPersistence run in between.                             *)
(***************************************************************************)
EXTENDS HostedPersistence

CONSTANTS
    Visits,         \* calls of the review service
    VisitFaults     \* "lost": the answer to COMMIT is lost; "audit": the audit
                    \* statement of a read fails. A visit whose process dies is
                    \* one that takes no further step: nothing obliges it to.

ASSUME ReviewAssumption == VisitFaults \subseteq {"lost", "audit"}

VARIABLES
    visit,      \* where each visit stands
    decisions,  \* hosted_decisions
    events      \* hosted_audit_events of the review service

reviewVars == <<visit, decisions, events>>

allVars == <<vars, reviewVars>>
-----------------------------------------------------------------------------
NoDecision == "none"
Unknown == "unknown"      \* an id that no decision has

ReviewInit ==
    /\ Init
    /\ visit = [v \in Visits |-> Idle]
    /\ decisions = {}
    /\ events = {}

DecisionsOn(k) == {d \in decisions : d.key = k}

ActionName(v) == IF visit[v].kind = "read" THEN "evidence-read" ELSE "decision-append"

Event(v, action, outcome, at) ==
    [visit |-> v, action |-> action, outcome |-> outcome, at |-> at]

Recorded(v, action, outcome) == events \cup {Event(v, action, outcome, now)}

VisitMoves(v, pc) == visit' = [visit EXCEPT ![v].pc = pc]

\* The end of a visit on an error. appendDecision records the rejection in its
\* catch block; readEvidence has none and records only states it returns.
VisitFails(v, pc) ==
    /\ VisitMoves(v, pc)
    /\ events' = IF visit[v].kind = "append" \/ pc = "unavailable"
                 THEN Recorded(v, ActionName(v), "rejected") ELSE events

-----------------------------------------------------------------------------
(* The visit.                                                              *)

\* #authorize, and the time that is read once it has answered. The client may
\* name any decision it has seen on this or on another envelope, or an unknown one.
Arrive(v, kind, k) ==
    /\ visit[v] = Idle
    /\ \E s \in {NoDecision} \cup (IF kind = "read" THEN {}
                                   ELSE {Unknown} \cup {d.id : d \in decisions}),
          authorized \in BOOLEAN :
        /\ visit' = [visit EXCEPT ![v] =
               [pc |-> IF authorized THEN "index" ELSE "denied", kind |-> kind, key |-> k,
                at |-> now, dated |-> now, supersedes |-> s,
                late |-> k \in DOMAIN index /\ Denied(k)]]
        /\ events' = IF authorized THEN events
                     ELSE Recorded(v, "authorization-deny", "rejected")
    /\ UNCHANGED <<vars, decisions>>

\* Seeded fault: a deleted row is an answer like any other.
LoadDeniedIndex(v) ==
    /\ visit[v].pc = "index"
    /\ IF visit[v].key \in DOMAIN index
       THEN VisitMoves(v, "list") /\ UNCHANGED events
       ELSE VisitFails(v, "unavailable")
    /\ UNCHANGED <<vars, decisions>>

\* loadEvidence: not yet synced, deleted and expired are answers
LoadIndex(v) ==
    LET k == visit[v].key IN
    /\ visit[v].pc = "index"
    /\ IF k \in DOMAIN index /\ ~Denied(k) /\ ~ContentExpired(k, visit[v].at)
       THEN VisitMoves(v, "select") /\ UNCHANGED events
       ELSE VisitFails(v, "unavailable")
    /\ UNCHANGED <<vars, decisions>>

\* The WHERE clause of read and, FOR SHARE, of appendDecision: it is evaluated on
\* the row as it is now and with the time the visit read at its start.
Live(k, at) ==
    /\ k \in DOMAIN index
    /\ ~Denied(k) /\ ~Purged(k) /\ ~ContentExpired(k, at)

SelectRow(v) ==
    /\ visit[v].pc = "select"
    /\ IF Live(visit[v].key, visit[v].at)
       THEN VisitMoves(v, "fetch") /\ UNCHANGED events
       ELSE VisitFails(v, "unavailable")
    /\ UNCHANGED <<vars, decisions>>

\* The row was selected without a lock: a purge may have removed the object since,
\* and read throws "hosted object is missing for an accessible index". The decision
\* and its accepted event are made from the envelope; the event is dated here.
FetchObject(v) ==
    /\ visit[v].pc = "fetch"
    /\ IF visit[v].key \in objects
       THEN /\ visit' = [visit EXCEPT
                   ![v].pc = IF visit[v].kind = "read" THEN "list" ELSE "commit",
                   ![v].dated = now]
            /\ UNCHANGED events
       ELSE VisitFails(v, "failed")
    /\ UNCHANGED <<vars, decisions>>

\* listDecisions, the audit of the read, and the answer with the content
ShowEvidence(v) ==
    /\ visit[v].pc = "list"
    /\ \/ /\ VisitMoves(v, "shown")
          /\ events' = Recorded(v, "evidence-read", "accepted")
       \/ /\ "audit" \in VisitFaults
          /\ VisitFails(v, "failed")
    /\ UNCHANGED <<vars, decisions>>

\* the predecessor is looked for on the same envelope
PredecessorExists(v) ==
    \/ visit[v].supersedes = NoDecision
    \/ \E d \in DecisionsOn(visit[v].key) : d.id = visit[v].supersedes

AcceptedEvent(v) == Event(v, "decision-append", "accepted", visit[v].dated)

RejectedEvent(v) == Event(v, "decision-append", "rejected", now)

Appended(v) ==
    decisions \cup {[id |-> v, key |-> visit[v].key, at |-> visit[v].at,
                     supersedes |-> visit[v].supersedes]}

\* Seeded fault: the accepted event is written beside the transaction, before it.
AppendAuditedEarly(v) ==
    /\ visit[v].pc = "commit"
    /\ events' = events \cup {AcceptedEvent(v)}
    /\ IF Live(visit[v].key, visit[v].at) /\ PredecessorExists(v)
       THEN decisions' = Appended(v) /\ VisitMoves(v, "appended")
       ELSE UNCHANGED decisions /\ VisitMoves(v, "conflict")
    /\ UNCHANGED vars

\* Seeded fault: the row that was selected before is not selected again.
AppendUnlocked(v) ==
    /\ visit[v].pc = "commit"
    /\ IF PredecessorExists(v)
       THEN /\ decisions' = Appended(v)
            /\ VisitMoves(v, "appended")
            /\ events' = events \cup {AcceptedEvent(v)}
       ELSE VisitFails(v, "conflict") /\ UNCHANGED decisions
    /\ UNCHANGED vars

\* One transaction: the row FOR SHARE, the predecessor, the decision and its
\* accepted event. When the answer to COMMIT is lost the catch block records a
\* rejection of a decision that stands.
AppendDecision(v) ==
    /\ visit[v].pc = "commit"
    /\ IF Live(visit[v].key, visit[v].at) /\ PredecessorExists(v)
       THEN /\ decisions' = Appended(v)
            /\ \/ /\ VisitMoves(v, "appended")
                  /\ events' = events \cup {AcceptedEvent(v)}
               \/ /\ "lost" \in VisitFaults
                  /\ VisitMoves(v, "failed")
                  /\ events' = events \cup {AcceptedEvent(v), RejectedEvent(v)}
       ELSE /\ VisitFails(v, "conflict")
            /\ UNCHANGED decisions
    /\ UNCHANGED vars

-----------------------------------------------------------------------------
(* The retention transaction, now that decisions refer to rows: a row with *)
(* a decision cannot be deleted, and with it nothing of the tenant is. The *)
(* trigger on hosted_decisions keeps the decision for ever.                *)

Referenced == {d.key : d \in decisions}

\* The audit events of the tenant's visits are kept as long as its index rows.
ExpiredEvents(t) ==
    {e \in events : TenantOfKey(visit[e.visit].key) = t /\ e.at + IndexRetention <= now}

\* late speaks of the row there was when the visit began: it is no longer late for a
\* row that is stored under the same key after that one was forgotten.
Forgets(t) ==
    visit' = [v \in Visits |->
                 IF visit[v] # Idle /\ visit[v].key \in ExpiredIndexes(t)
                 THEN [visit[v] EXCEPT !.late = FALSE] ELSE visit[v]]

\* Seeded fault: decisions do not hold their rows.
PurgeReferencedMetadata(t) ==
    /\ PurgeExpiredMetadata(t, {})
    /\ events' = events \ ExpiredEvents(t)
    /\ Forgets(t)
    /\ UNCHANGED decisions

PurgeMetadata(t) ==
    /\ PurgeExpiredMetadata(t, Referenced)
    /\ events' = events \ ExpiredEvents(t)
    /\ Forgets(t)
    /\ UNCHANGED decisions

VisitStep(v) ==
    \/ \E k \in Keys, kind \in {"read", "append"} : Arrive(v, kind, k)
    \/ LoadIndex(v) \/ SelectRow(v) \/ FetchObject(v) \/ ShowEvidence(v) \/ AppendDecision(v)

\* the persistence below, except for the metadata purge that PurgeMetadata replaces
PersistenceStep ==
    /\ \/ Tick
       \/ \E u \in Requests : \/ \E k \in Keys : Begin(u, k)
                               \/ UploadStep(u) \/ UploadFault(u)
       \/ \E p \in Purgers : PurgeStep(p) \/ PurgeFails(p)
       \/ \E k \in Keys : ScheduleDeletion(k)
       \/ \E t \in Tenants : ScheduleExpired(t)
    /\ UNCHANGED reviewVars

ReviewNext ==
    \/ PersistenceStep
    \/ \E t \in Tenants : PurgeMetadata(t)
    \/ \E v \in Visits : VisitStep(v)

ReviewSpec == ReviewInit /\ [][ReviewNext]_allVars

-----------------------------------------------------------------------------
(* A decision outlives the content it judged but never its index row: the  *)
(* row it was made on, readable when the decision was made, is still there *)
(* with the same date of receipt, whatever retention has removed.          *)
DecisionKeepsItsRow ==
    \A d \in decisions :
        /\ d.key \in DOMAIN index
        /\ index[d.key].receivedAt + EnvelopeRetention > d.at

(* A visit that begins after the denial is never shown the content, though *)
(* the state is read in two transactions and the bytes outside of them. A  *)
(* row stored anew once the denied one was forgotten may be shown to it.   *)
NoContentAfterDenial ==
    \A v \in Visits : visit[v] # Idle /\ visit[v].pc = "shown" => ~visit[v].late

(* The audit tells the truth about decisions: a decision has its accepted  *)
(* event until retention removes the event, an accepted event has its      *)
(* decision, and only a visit whose COMMIT was not acknowledged leaves a   *)
(* rejected event beside a decision.                                       *)
EventOf(d, outcome) ==
    \E e \in events : e.visit = d.id /\ e.action = "decision-append" /\ e.outcome = outcome

AuditTellsTheTruth ==
    /\ \A d \in decisions :
        /\ EventOf(d, "accepted") \/ d.at + IndexRetention <= now
        /\ EventOf(d, "rejected") => visit[d.id].pc = "failed"
    /\ \A e \in events :
        e.action = "decision-append" /\ e.outcome = "accepted" =>
            \E d \in decisions : d.id = e.visit

Log == INSTANCE DecisionLog WITH
    Ids <- Visits, Evidence <- Keys, NoId <- NoDecision,
    log <- {[id |-> d.id, evidence |-> d.key, supersedes |-> d.supersedes] : d \in decisions},
    open <- {k \in DOMAIN index : ~Denied(k) /\ ~Purged(k)}

(* The decisions implement DecisionLog, the evidence open to them being    *)
(* the rows that are neither denied nor purged: a visit that selected and  *)
(* fetched its envelope before a deletion adds no decision after it, and   *)
(* the content of a key that was decided upon is not stored a second time, *)
(* though its row may be denied, purged and expired and its digest be      *)
(* uploaded again. A row that expires while a visit runs is still open:    *)
(* the visit compares it with the time it read at its start.               *)
ImplementsDecisionLog == Log!Spec
=============================================================================
