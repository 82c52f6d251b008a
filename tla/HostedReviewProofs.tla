------------------------- MODULE HostedReviewProofs -------------------------
(***************************************************************************)
(* Theorems about HostedPersistence and, on top of it, HostedReview, for    *)
(* any tenants, repositories, digests, requests, visits, purge runs, faults, *)
(* limits and clocks.                                                       *)
(*                                                                          *)
(* Of the persistence: LiveIndexHasObject and PurgedContentIsGone are not   *)
(* inductive alone, since that an insert finds its object, or a purged key  *)
(* stays empty, depends on what the other transactions in flight may be     *)
(* about to do.  IInv says it; a receipt that said stored lasts by it, and  *)
(* rows and objects implement EvidenceStore.  The day's bytes are bounded   *)
(* by DayInv: the lock keeps the day's room for the one upload admitted.    *)
(*                                                                          *)
(* The review keeps that persistence, so that IInv is taken over; ReviewInv *)
(* adds what a visit in progress and the audit know.                        *)
(***************************************************************************)
EXTENDS HostedReview, NumberFacts

\* Transactions past the advisory lock belong to different repositories.
LockExcludes ==
    \A u, v \in Requests :
        (InTxn(u) /\ InTxn(v) /\ u # v) => upload[u].key.repo # upload[v].key.repo

\* An upload that found no row is the only one that can insert it.
StoringStates == {"measuring", "admitted", "confirming", "inserting"}

AdmittedStates == {"admitted", "confirming", "inserting"}

AbsentWhileStoring ==
    \A u \in Requests :
        upload[u].pc \in StoringStates => upload[u].key \notin DOMAIN index

\* A run of the purge holds denied, unpurged rows; what it has dealt with is gone.
PurgeHoldsDenied ==
    \A p \in Purgers :
        purger[p].pc = "purging" =>
            /\ purger[p].left \subseteq purger[p].batch
            /\ \A k \in purger[p].batch :
                   /\ k \in DOMAIN index
                   /\ Denied(k)
                   /\ ~Purged(k)
                   /\ k \notin purger[p].left => k \notin objects

\* Two runs never hold the same row (FOR UPDATE SKIP LOCKED).
PurgesDisjoint ==
    \A p, q \in Purgers :
        (p # q /\ purger[p].pc = "purging" /\ purger[q].pc = "purging")
            => purger[p].batch \cap purger[q].batch = {}

IInv ==
    /\ TypeOK
    /\ LockExcludes
    /\ AbsentWhileStoring
    /\ PurgeHoldsDenied
    /\ PurgesDisjoint
    /\ PurgedContentIsGone

\* Without a late cleanup, an upload about to insert has its object in place.
CleanupFree == "rollback" \notin Faults /\ "ambiguous" \notin Faults

NoCleanup == \A u \in Requests : upload[u].pc # "cleanup"

InsertFindsObject ==
    \A u \in Requests : upload[u].pc = "inserting" => upload[u].key \in objects

LiveInv ==
    /\ NoCleanup
    /\ InsertFindsObject
    /\ LiveIndexHasObject

-----------------------------------------------------------------------------
\* The LIMIT of purgePrimary's SELECT only drops rows: a batch is part of the due rows.
LEMMA BatchWithinDue ==
    ASSUME NEW due, NEW B \in Batches(due)
    PROVE  B \subseteq DOMAIN due
BY DEF Batches

\* A request in progress has a record.
LEMMA RecordOf ==
    ASSUME upload \in [Requests -> Upload \cup {Idle}],
           NEW u \in Requests, upload[u].pc # "idle"
    PROVE  upload[u] \in Upload
BY DEF Idle

\* What a change of its pc leaves alone.
LEMMA GoToStep ==
    ASSUME upload \in [Requests -> Upload \cup {Idle}],
           NEW u \in Requests, upload[u].pc # "idle",
           NEW state \in TxnStates \cup Answers \cup {"queued", "cleanup"},
           GoTo(u, state)
    PROVE  /\ upload' \in [Requests -> Upload \cup {Idle}]
           /\ upload[u] \in Upload
           /\ upload'[u].pc = state
           /\ upload'[u].key = upload[u].key
           /\ upload'[u].receivedAt = upload[u].receivedAt
           /\ upload'[u].created = upload[u].created
           /\ \A v \in Requests : v # u => upload'[v] = upload[v]
<1>1. upload[u] \in Upload
  BY DEF Idle
<1>2. [upload[u] EXCEPT !.pc = state] \in Upload
  BY <1>1 DEF Upload
<1>3. upload' = [upload EXCEPT ![u] = [upload[u] EXCEPT !.pc = state]]
  BY DEF GoTo
<1>4. upload' \in [Requests -> Upload \cup {Idle}]
  BY <1>2, <1>3
<1>5. QED
  BY <1>1, <1>2, <1>3, <1>4 DEF Upload

\* The committed INSERT of a request adds one well-formed row.
LEMMA InsertType ==
    ASSUME TypeOK, NEW u \in Requests, upload[u].pc # "idle", Insert(u)
    PROVE  /\ DOMAIN index' = DOMAIN index \cup {upload[u].key}
           /\ DOMAIN index' \subseteq Keys
           /\ index' \in [DOMAIN index' -> Row]
<1>1. upload[u] \in Upload
  BY DEF TypeOK, Idle
<1>2. upload[u].key \in Keys /\ NewRow(u) \in Row
  BY <1>1 DEF Upload, NewRow, Row, NullableTime, Null
<1>3. QED
  BY <1>2 DEF Insert, TypeOK

\* The UPDATE of both denials keeps the rows and changes two columns.
LEMMA DenyType ==
    ASSUME TypeOK, NEW K, Deny(K)
    PROVE  /\ DOMAIN index' = DOMAIN index
           /\ index' \in [DOMAIN index -> Row]
           /\ \A k \in DOMAIN index :
                /\ index'[k].receivedAt = index[k].receivedAt
                /\ index'[k].purgedAt = index[k].purgedAt
                /\ k \in K => index'[k].deniedAt = now
                /\ k \notin K => index'[k] = index[k]
<1>1. now \in NullableTime /\ now + PrimaryPurgeDelay \in NullableTime
  BY ConstantsAssumption DEF TypeOK, NullableTime
<1>2. ASSUME NEW k \in DOMAIN index
      PROVE  /\ index[k] \in Row
             /\ [index[k] EXCEPT !.deniedAt = now,
                                 !.purgeDueAt = now + PrimaryPurgeDelay] \in Row
  <2>1. index[k] \in Row
    BY DEF TypeOK
  <2>2. QED
    BY <1>1, <2>1 DEF Row
<1>3. QED
  BY <1>2 DEF Deny, Row

\* An empty database and object store, with no request begun, is well typed.
LEMMA InitType == Init => TypeOK
BY DEF Init, TypeOK

\* Rows, uploads, purge runs and tombstones keep the shape the tables and the code's
\* records give them, whatever the requests do.
THEOREM TypeInvariant == Spec => []TypeOK
<1> USE DEF TypeOK
<1>1. Init => TypeOK
  BY InitType
<1>2. TypeOK /\ [Next]_vars => TypeOK'
  <2> SUFFICES ASSUME TypeOK, [Next]_vars PROVE TypeOK'
    OBVIOUS
  <2>1. CASE Tick
    BY <2>1 DEF Tick
  <2>2. ASSUME NEW u \in Requests, NEW k \in Keys, Begin(u, k) PROVE TypeOK'
    BY <2>2 DEF Begin, Upload, Idle
  <2>3. ASSUME NEW u \in Requests, UploadStep(u) PROVE TypeOK'
    <3> USE GoToStep DEF TxnStates, Answers
    <3>1. CASE LockAndSelect(u)
      BY <3>1 DEF LockAndSelect
    <3>2. CASE VerifyDuplicate(u)
      BY <3>2 DEF VerifyDuplicate
    <3>3. CASE MeasureQuota(u)
      BY <3>3 DEF MeasureQuota
    <3>4. CASE PutObject(u)
      <4>1. upload[u].pc # "idle"
        BY <3>4 DEF PutObject
      <4>2. upload[u] \in Upload
        BY <4>1, RecordOf, Zenon
      <4>3. QED
        BY <3>4, <4>2 DEF PutObject, Upload
    <3>5. CASE ConfirmObject(u)
      BY <3>5 DEF ConfirmObject
    <3>6. CASE InsertAndCommit(u)
      BY <3>6, InsertType DEF InsertAndCommit
    <3>7. CASE Cleanup(u)
      BY <3>7 DEF Cleanup
    <3>8. QED
      BY <2>3, <3>1, <3>2, <3>3, <3>4, <3>5, <3>6, <3>7 DEF UploadStep
  <2>4. ASSUME NEW u \in Requests, UploadFault(u) PROVE TypeOK'
    <3> USE GoToStep DEF TxnStates, Answers
    <3>1. CASE Abort(u)
      BY <3>1 DEF Abort, InTxn
    <3>2. CASE Rollback(u)
      BY <3>2 DEF Rollback, InTxn
    <3>3. CASE AmbiguousCommit(u)
      BY <3>3, InsertType DEF AmbiguousCommit
    <3>4. CASE PutFails(u)
      <4>1. upload[u] \in Upload
        BY <3>4 DEF PutFails, Idle
      <4>2. upload[u].key \in Keys
        BY <4>1 DEF Upload
      <4>3. QED
        BY <3>4, <4>2 DEF PutFails
    <3>5. CASE Crash(u)
      BY <3>5 DEF Crash
    <3>6. QED
      BY <2>4, <3>1, <3>2, <3>3, <3>4, <3>5 DEF UploadFault
  <2>5. ASSUME NEW p \in Purgers, PurgeStep(p) \/ PurgeFails(p) PROVE TypeOK'
    <3>1. ASSUME NEW t \in Tenants, PurgeBegin(p, t) PROVE TypeOK'
      <4>1. PICK B \in Batches([k \in DueForPurge(t) |-> index[k].purgeDueAt]) :
                purger' = [purger EXCEPT ![p] = [pc |-> "purging", at |-> now,
                                                 batch |-> B, left |-> B]]
        BY <3>1 DEF PurgeBegin
      <4>2. B \subseteq Keys
        BY <4>1, BatchWithinDue DEF DueForPurge, RowsOfTenant
      <4>3. [pc |-> "purging", at |-> now, batch |-> B, left |-> B] \in Purge
        BY <4>2 DEF Purge
      <4>4. QED
        BY <3>1, <4>1, <4>3 DEF PurgeBegin
    <3>2. CASE PurgeObject(p)
      BY <3>2 DEF PurgeObject, Purge, Idle
    <3>3. CASE PurgeCommit(p)
      BY <3>3 DEF PurgeCommit, Purge, Idle, Row, NullableTime
    <3>4. CASE PurgeFails(p)
      BY <3>4 DEF PurgeFails
    <3>5. QED
      BY <2>5, <3>1, <3>2, <3>3, <3>4 DEF PurgeStep
  <2>6. CASE Maintenance
    <3>1. ASSUME NEW k \in Keys, ScheduleDeletion(k) PROVE TypeOK'
      BY <3>1, DenyType DEF ScheduleDeletion, Tombstone
    <3>2. ASSUME NEW t \in Tenants, ScheduleExpired(t) PROVE TypeOK'
      BY <3>2, DenyType DEF ScheduleExpired
    <3>3. ASSUME NEW t \in Tenants, PurgeExpiredMetadata(t, {}) PROVE TypeOK'
      BY <3>3 DEF PurgeExpiredMetadata
    <3>4. QED
      BY <2>6, <3>1, <3>2, <3>3 DEF Maintenance
  <2>7. CASE UNCHANGED vars
    BY <2>7 DEF vars
  <2>8. QED
    BY <2>1, <2>2, <2>3, <2>4, <2>5, <2>6, <2>7 DEF Next
<1>3. QED
  BY <1>1, <1>2, PTL DEF Spec
-----------------------------------------------------------------------------
(* The parts of IInv, one lemma each *)

\* Only LockAndSelect starts a transaction; every other step of a request keeps
\* its key and either stays in its transaction or leaves it.
LEMMA RequestStep ==
    ASSUME TypeOK, NEW u \in Requests, UploadStep(u) \/ UploadFault(u)
    PROVE  /\ upload[u] \in Upload
           /\ upload' \in [Requests -> Upload \cup {Idle}]
           /\ upload'[u].key = upload[u].key
           /\ upload'[u].receivedAt = upload[u].receivedAt
           /\ \A v \in Requests : v # u => upload'[v] = upload[v]
           /\ upload[u].pc = "queued" \/ InTxn(u) \/ upload'[u].pc = "failed"
                 \/ upload'[u].pc = "crashed"
           /\ upload[u].pc = "queued" /\ upload'[u].pc \in TxnStates =>
                 LockAndSelect(u)
           /\ upload'[u].pc \in StoringStates =>
                 LockAndSelect(u) \/ upload[u].pc \in StoringStates
           /\ upload'[u].pc = "inserting" => PutObject(u) \/ ConfirmObject(u)
           /\ upload'[u].pc = "cleanup" => Rollback(u) \/ AmbiguousCommit(u)
           /\ upload'[u].pc = "stored" => InsertAndCommit(u)
           /\ upload'[u].pc \in AdmittedStates =>
                 \/ upload[u].pc \in AdmittedStates
                 \/ WithinQuota(upload[u].key, upload[u].receivedAt) /\ UNCHANGED index
<1> USE GoToStep DEF TypeOK, TxnStates, Answers, StoringStates, AdmittedStates, InTxn
<1>1. CASE LockAndSelect(u)
  BY <1>1 DEF LockAndSelect
<1>2. CASE VerifyDuplicate(u)
  BY <1>2 DEF VerifyDuplicate
<1>3. CASE MeasureQuota(u)
  BY <1>3 DEF MeasureQuota
<1>4. CASE PutObject(u)
  <2>1. upload[u].pc # "idle"
    BY <1>4 DEF PutObject
  <2>2. upload[u] \in Upload
    BY <2>1, RecordOf, Zenon
  <2>3. QED
    BY <1>4, <2>2 DEF PutObject, Upload
<1>5. CASE ConfirmObject(u)
  BY <1>5 DEF ConfirmObject
<1>6. CASE InsertAndCommit(u)
  BY <1>6 DEF InsertAndCommit
<1>7. CASE Cleanup(u)
  BY <1>7 DEF Cleanup
<1>8. CASE Abort(u)
  BY <1>8 DEF Abort
<1>9. CASE Rollback(u)
  BY <1>9 DEF Rollback
<1>10. CASE AmbiguousCommit(u)
  BY <1>10 DEF AmbiguousCommit
<1>11. CASE PutFails(u)
  BY <1>11 DEF PutFails
<1>12. CASE Crash(u)
  BY <1>12 DEF Crash
<1>13. QED
  BY <1>1, <1>2, <1>3, <1>4, <1>5, <1>6, <1>7, <1>8, <1>9, <1>10, <1>11, <1>12
     DEF UploadStep, UploadFault

\* pg_advisory_xact_lock: no step lets two uploads of one repository past the lock.
LEMMA LockExcludesStep ==
    ASSUME TypeOK, LockExcludes, [Next]_vars
    PROVE  LockExcludes'
<1>1. ASSUME NEW u \in Requests, NEW k \in Keys, Begin(u, k) PROVE LockExcludes'
  BY <1>1 DEF Begin, LockExcludes, InTxn, TxnStates, TypeOK
<1>2. ASSUME NEW u \in Requests, UploadStep(u) \/ UploadFault(u)
      PROVE  LockExcludes'
  <2>1. CASE LockAndSelect(u)
    BY <1>2, <2>1, RequestStep
       DEF LockAndSelect, LockFree, LockExcludes, InTxn
  <2>2. CASE ~LockAndSelect(u)
    BY <1>2, <2>2, RequestStep DEF LockExcludes, InTxn, TxnStates
  <2>3. QED
    BY <2>1, <2>2
<1>3. CASE UNCHANGED upload
  BY <1>3 DEF LockExcludes, InTxn
<1>4. QED
  BY <1>1, <1>2, <1>3 DEF Next, vars, Tick, PurgeStep, PurgeBegin, PurgeObject,
     PurgeCommit, PurgeFails, Maintenance, ScheduleDeletion, ScheduleExpired,
     PurgeExpiredMetadata

\* What any step does to the set of indexed keys and to the objects.
LEMMA IndexStep ==
    ASSUME TypeOK, [Next]_vars
    PROVE  \/ DOMAIN index' \subseteq DOMAIN index
           \/ \E u \in Requests :
                 /\ upload[u].pc = "inserting"
                 /\ upload'[u].pc \notin TxnStates
                 /\ upload'[u].key = upload[u].key
                 /\ Insert(u)
                 /\ UNCHANGED <<now, objects, purger, tombstones>>
                 /\ \A v \in Requests : v # u => upload'[v] = upload[v]
<1>1. ASSUME NEW u \in Requests, InsertAndCommit(u) \/ AmbiguousCommit(u)
      PROVE  /\ upload[u].pc = "inserting"
             /\ upload'[u].pc \notin TxnStates
             /\ Insert(u)
             /\ UNCHANGED <<now, objects, purger, tombstones>>
  BY <1>1, GoToStep DEF InsertAndCommit, AmbiguousCommit, TypeOK, TxnStates, Answers
<1>2. ASSUME NEW u \in Requests, InsertAndCommit(u) \/ AmbiguousCommit(u)
      PROVE  /\ upload'[u].key = upload[u].key
             /\ \A v \in Requests : v # u => upload'[v] = upload[v]
  BY <1>2, RequestStep DEF UploadStep, UploadFault
<1>3. ASSUME NEW k \in Keys, ScheduleDeletion(k)
      PROVE  DOMAIN index' \subseteq DOMAIN index
  BY <1>3, DenyType DEF ScheduleDeletion
<1>4. ASSUME NEW t \in Tenants, ScheduleExpired(t)
      PROVE  DOMAIN index' \subseteq DOMAIN index
  BY <1>4, DenyType DEF ScheduleExpired
<1>5. ASSUME NEW t \in Tenants, PurgeExpiredMetadata(t, {})
      PROVE  DOMAIN index' \subseteq DOMAIN index
  BY <1>5 DEF PurgeExpiredMetadata
<1>6. ASSUME NEW p \in Purgers, PurgeCommit(p)
      PROVE  DOMAIN index' \subseteq DOMAIN index
  BY <1>6 DEF PurgeCommit
<1>7. CASE UNCHANGED index
  BY <1>7
<1>8. QED
  BY <1>1, <1>2, <1>3, <1>4, <1>5, <1>6, <1>7 DEF Next, vars, Tick, Begin,
     UploadStep, LockAndSelect, VerifyDuplicate, MeasureQuota, PutObject,
     ConfirmObject, Cleanup, UploadFault, Abort, Rollback, PutFails, Crash,
     PurgeStep, PurgeBegin, PurgeObject, PurgeFails, Maintenance

\* The duplicate SELECT stays true until the INSERT: nobody else adds the row of an
\* upload that found none, since that upload holds its repository's lock.
LEMMA AbsentStep ==
    ASSUME TypeOK, LockExcludes, AbsentWhileStoring, [Next]_vars
    PROVE  AbsentWhileStoring'
<1> SUFFICES ASSUME NEW v \in Requests, upload'[v].pc \in StoringStates
             PROVE  upload'[v].key \notin DOMAIN index'
  BY DEF AbsentWhileStoring
<1>1. CASE \E u \in Requests :
              /\ upload[u].pc = "inserting"
              /\ upload'[u].pc \notin TxnStates
              /\ upload'[u].key = upload[u].key
              /\ Insert(u)
              /\ \A w \in Requests : w # u => upload'[w] = upload[w]
  BY <1>1 DEF AbsentWhileStoring, LockExcludes, Insert, InTxn, StoringStates, TxnStates
<1>2. CASE DOMAIN index' \subseteq DOMAIN index
  <2>1. ASSUME NEW u \in Requests, NEW k \in Keys, Begin(u, k)
        PROVE  upload'[v] = upload[v]
    BY <2>1 DEF Begin, TypeOK, StoringStates
  <2>2. ASSUME NEW u \in Requests, UploadStep(u) \/ UploadFault(u), u = v
        PROVE  upload'[v].key \notin DOMAIN index
    <3>1. CASE LockAndSelect(u)
      BY <2>2, <3>1, GoToStep DEF LockAndSelect, TypeOK, TxnStates, StoringStates
    <3>2. CASE upload[u].pc \in StoringStates
      BY <2>2, <3>2, RequestStep DEF AbsentWhileStoring
    <3>3. QED
      BY <2>2, <3>1, <3>2, RequestStep
  <2>3. ASSUME NEW u \in Requests, UploadStep(u) \/ UploadFault(u), u # v
        PROVE  upload'[v] = upload[v]
    BY <2>3, RequestStep
  <2>4. CASE UNCHANGED upload
    BY <1>2, <2>4 DEF AbsentWhileStoring
  <2>5. QED
    BY <1>2, <2>1, <2>2, <2>3, <2>4 DEF Next, vars, Tick, PurgeStep, PurgeBegin,
       PurgeObject, PurgeCommit, PurgeFails, Maintenance, ScheduleDeletion,
       ScheduleExpired, PurgeExpiredMetadata, AbsentWhileStoring
<1>3. QED
  BY <1>1, <1>2, IndexStep

\* What any step may do to a row, and to the objects, while runs of the purge
\* stay as they are: rows of a batch keep their columns and no object returns.
LEMMA RowStep ==
    ASSUME TypeOK, AbsentWhileStoring, PurgeHoldsDenied, PurgesDisjoint,
           [Next]_vars,
           NEW k \in DOMAIN index
    PROVE  /\ k \notin objects => k \notin objects'
           /\ \/ /\ k \notin DOMAIN index' /\ Purged(k)
                 /\ index[k].receivedAt + IndexRetention <= now
              \/ /\ k \in DOMAIN index'
                 /\ index'[k].receivedAt = index[k].receivedAt
                 /\ Denied(k) => Denied(k)'
                 /\ \/ index'[k].purgedAt = index[k].purgedAt
                    \/ \E p \in Purgers :
                          /\ purger[p].pc = "purging"
                          /\ purger[p].left = {}
                          /\ k \in purger[p].batch
                          /\ purger' = [purger EXCEPT ![p] = Idle]
<1>1. ASSUME NEW u \in Requests, InsertAndCommit(u) \/ AmbiguousCommit(u)
      PROVE  k \in DOMAIN index' /\ index'[k] = index[k] /\ objects' = objects
  <2>1. upload[u].key \notin DOMAIN index
    BY <1>1 DEF InsertAndCommit, AmbiguousCommit, AbsentWhileStoring, StoringStates
  <2>2. Insert(u) /\ objects' = objects
    BY <1>1 DEF InsertAndCommit, AmbiguousCommit
  <2>3. QED
    BY <2>1, <2>2 DEF Insert
<1>2. ASSUME NEW u \in Requests, PutObject(u) \/ PutFails(u)
      PROVE  (k \notin objects => k \notin objects') /\ index' = index
  BY <1>2 DEF PutObject, PutFails, AbsentWhileStoring, StoringStates
<1>3. ASSUME NEW j \in Keys, ScheduleDeletion(j)
      PROVE  /\ k \in DOMAIN index' /\ objects' = objects
             /\ index'[k].receivedAt = index[k].receivedAt
             /\ index'[k].purgedAt = index[k].purgedAt
             /\ Denied(k) => Denied(k)'
  <2>1. Deny({j}) /\ ~Denied(j) /\ objects' = objects
    BY <1>3 DEF ScheduleDeletion
  <2>2. QED
    BY <2>1, DenyType DEF Denied
<1>4. ASSUME NEW t \in Tenants, ScheduleExpired(t)
      PROVE  /\ k \in DOMAIN index' /\ objects' = objects
             /\ index'[k].receivedAt = index[k].receivedAt
             /\ index'[k].purgedAt = index[k].purgedAt
             /\ Denied(k) => Denied(k)'
  <2>1. PICK B : Deny(B) /\ objects' = objects
    BY <1>4 DEF ScheduleExpired
  <2>2. now # Null
    BY DEF TypeOK, Null
  <2>3. QED
    BY <2>1, <2>2, DenyType DEF Denied
<1>5. ASSUME NEW t \in Tenants, PurgeExpiredMetadata(t, {})
      PROVE  /\ objects' = objects
             /\ \/ /\ k \notin DOMAIN index' /\ Purged(k)
                   /\ index[k].receivedAt + IndexRetention <= now
                \/ k \in DOMAIN index' /\ index'[k] = index[k]
  BY <1>5 DEF PurgeExpiredMetadata, ExpiredIndexes
<1>6. ASSUME NEW p \in Purgers, PurgeCommit(p)
      PROVE  /\ k \in DOMAIN index' /\ objects' = objects
             /\ index'[k].receivedAt = index[k].receivedAt
             /\ Denied(k) => Denied(k)'
             /\ purger[p].pc = "purging" /\ purger[p].left = {}
             /\ purger' = [purger EXCEPT ![p] = Idle]
             /\ k \notin purger[p].batch => index'[k] = index[k]
  <2>1. index[k] \in Row
    BY DEF TypeOK
  <2>2. QED
    BY <1>6, <2>1 DEF PurgeCommit, Denied, Row
<1>7. ASSUME NEW p \in Purgers, PurgeObject(p)
      PROVE  index' = index /\ (k \notin objects => k \notin objects')
  BY <1>7 DEF PurgeObject
<1>8. ASSUME NEW u \in Requests, Cleanup(u)
      PROVE  index' = index /\ (k \notin objects => k \notin objects')
  BY <1>8 DEF Cleanup
<1>9. CASE UNCHANGED <<index, objects>>
  BY <1>9 DEF Denied
<1>10. QED
  BY <1>1, <1>2, <1>3, <1>4, <1>5, <1>6, <1>7, <1>8, <1>9 DEF Next, vars, Tick,
     Begin, UploadStep, LockAndSelect, VerifyDuplicate, MeasureQuota,
     ConfirmObject, UploadFault, Abort, Rollback, Crash,
     PurgeStep, PurgeBegin, PurgeFails, Maintenance, Denied

\* A run of the purge changes only by its own steps.
LEMMA PurgerStep ==
    ASSUME TypeOK, [Next]_vars
    PROVE  \/ UNCHANGED purger
           \/ \E p \in Purgers : purger' = [purger EXCEPT ![p] = Idle]
           \/ \E p \in Purgers : PurgeObject(p)
           \/ \E p \in Purgers, t \in Tenants : PurgeBegin(p, t)
BY DEF Next, vars, Tick, Begin, UploadStep, LockAndSelect, VerifyDuplicate,
   MeasureQuota, PutObject, ConfirmObject, InsertAndCommit, Cleanup,
   UploadFault, Abort, Rollback, AmbiguousCommit, PutFails, Crash,
   PurgeStep, PurgeCommit, PurgeFails, Maintenance, ScheduleDeletion,
   ScheduleExpired, PurgeExpiredMetadata

\* While a run of purgePrimary holds rows they stay indexed, denied and unpurged, no
\* object it has deleted returns, and no other run takes them.
LEMMA PurgeHoldsDeniedStep ==
    ASSUME TypeOK, TypeOK', AbsentWhileStoring, PurgeHoldsDenied, PurgesDisjoint,
           [Next]_vars
    PROVE  PurgeHoldsDenied' /\ PurgesDisjoint'
<1>1. CASE UNCHANGED purger
  <2>1. ASSUME NEW p \in Purgers, purger[p].pc = "purging", NEW k \in purger[p].batch
        PROVE  /\ k \in DOMAIN index'
               /\ Denied(k)'
               /\ ~Purged(k)'
               /\ k \notin purger[p].left => k \notin objects'
    <3>1. k \in DOMAIN index /\ Denied(k) /\ ~Purged(k)
      BY <2>1 DEF PurgeHoldsDenied
    <3>2. ~\E q \in Purgers : purger[q].pc = "purging"
                                /\ purger' = [purger EXCEPT ![q] = Idle]
      BY <1>1 DEF TypeOK, Idle
    <3>3. QED
      BY <2>1, <3>1, <3>2, RowStep DEF PurgeHoldsDenied, Purged
  <2>2. QED
    BY <1>1, <2>1 DEF PurgeHoldsDenied, PurgesDisjoint
<1>2. ASSUME NEW p \in Purgers, purger' = [purger EXCEPT ![p] = Idle]
      PROVE  PurgeHoldsDenied' /\ PurgesDisjoint'
  <2>1. ASSUME NEW q \in Purgers, q # p, purger[q].pc = "purging",
               NEW k \in purger[q].batch
        PROVE  /\ k \in DOMAIN index'
               /\ Denied(k)'
               /\ ~Purged(k)'
               /\ k \notin purger[q].left => k \notin objects'
    <3>1. k \in DOMAIN index /\ Denied(k) /\ ~Purged(k)
      BY <2>1 DEF PurgeHoldsDenied
    <3>2. ~\E o \in Purgers : /\ purger[o].pc = "purging"
                              /\ k \in purger[o].batch
                              /\ purger' = [purger EXCEPT ![o] = Idle]
      BY <1>2, <2>1 DEF PurgesDisjoint, TypeOK, Idle
    <3>3. QED
      BY <2>1, <3>1, <3>2, RowStep DEF PurgeHoldsDenied, Purged
  <2>2. QED
    BY <1>2, <2>1 DEF PurgeHoldsDenied, PurgesDisjoint, TypeOK, Idle
<1>3. ASSUME NEW p \in Purgers, PurgeObject(p)
      PROVE  PurgeHoldsDenied' /\ PurgesDisjoint'
  <2>1. purger[p] \in Purge
    BY <1>3 DEF PurgeObject, TypeOK, Idle
  <2>2. PICK k \in purger[p].left :
            /\ objects' = objects \ {k}
            /\ purger' = [purger EXCEPT ![p] = [purger[p] EXCEPT !.left = @ \ {k}]]
    BY <1>3 DEF PurgeObject
  <2>3. /\ purger'[p].pc = "purging" /\ purger'[p].batch = purger[p].batch
        /\ purger'[p].left = purger[p].left \ {k}
        /\ \A q \in Purgers : q # p => purger'[q] = purger[q]
    BY <2>1, <2>2 DEF Purge, TypeOK
  <2>4. index' = index /\ purger[p].pc = "purging"
    BY <1>3 DEF PurgeObject
  <2>5. QED
    BY <2>2, <2>3, <2>4 DEF PurgeHoldsDenied, PurgesDisjoint, Denied, Purged
<1>4. ASSUME NEW p \in Purgers, NEW t \in Tenants, PurgeBegin(p, t)
      PROVE  PurgeHoldsDenied' /\ PurgesDisjoint'
  <2>1. PICK B \in Batches([k \in DueForPurge(t) |-> index[k].purgeDueAt]) :
            purger' = [purger EXCEPT ![p] = [pc |-> "purging", at |-> now,
                                             batch |-> B, left |-> B]]
    BY <1>4 DEF PurgeBegin
  <2>2. \A k \in B : /\ k \in DOMAIN index
                     /\ Denied(k)
                     /\ ~Purged(k)
                     /\ ~RowLocked(k)
    BY <2>1, BatchWithinDue DEF DueForPurge, RowsOfTenant
  <2>3. /\ purger'[p] = [pc |-> "purging", at |-> now, batch |-> B, left |-> B]
        /\ \A q \in Purgers : q # p => purger'[q] = purger[q]
    BY <2>1 DEF TypeOK
  <2>4. index' = index /\ objects' = objects
    BY <1>4 DEF PurgeBegin
  <2>5. QED
    BY <2>2, <2>3, <2>4
       DEF PurgeHoldsDenied, PurgesDisjoint, Denied, Purged, RowLocked
<1>5. QED
  BY <1>1, <1>2, <1>3, <1>4, PurgerStep

\* A row gets its content_purged_at only from a run that has deleted its object, and
\* no upload of the same digest can put it back.
LEMMA PurgedContentStep ==
    ASSUME TypeOK, AbsentWhileStoring, PurgeHoldsDenied, PurgesDisjoint,
           PurgedContentIsGone, [Next]_vars
    PROVE  PurgedContentIsGone'
<1> SUFFICES ASSUME NEW k \in DOMAIN index', Purged(k)'
             PROVE  Denied(k)' /\ k \notin objects'
  BY DEF PurgedContentIsGone
<1>1. k \in DOMAIN index
  <2>1. ASSUME NEW u \in Requests, Insert(u), k \notin DOMAIN index PROVE FALSE
    <3>1. index'[k] = NewRow(u)
      BY <2>1 DEF Insert
    <3>2. QED
      BY <3>1 DEF Purged, NewRow
  <2>2. QED
    BY <2>1, IndexStep
<1>2. CASE Purged(k)
  BY <1>1, <1>2, RowStep DEF PurgedContentIsGone
<1>3. CASE ~Purged(k)
  <2>1. PICK p \in Purgers : /\ purger[p].pc = "purging"
                             /\ purger[p].left = {}
                             /\ k \in purger[p].batch
    BY <1>1, <1>3, RowStep DEF Purged
  <2>2. Denied(k) /\ k \notin objects
    BY <2>1 DEF PurgeHoldsDenied
  <2>3. QED
    BY <1>1, <2>2, RowStep
<1>4. QED
  BY <1>2, <1>3

\* The parts above hold together in every reachable state of uploads, purges and
\* maintenance: the invariant PurgedContentIsGone is proved from.
THEOREM InductiveInvariant == Spec => []IInv
<1>1. Init => IInv
  BY InitType DEF Init, IInv, LockExcludes, AbsentWhileStoring, PurgeHoldsDenied,
     PurgesDisjoint, PurgedContentIsGone, InTxn, TxnStates, StoringStates, Idle
<1>2. IInv /\ TypeOK' /\ [Next]_vars => IInv'
  BY LockExcludesStep, AbsentStep, PurgeHoldsDeniedStep, PurgedContentStep DEF IInv
<1>3. QED
  BY <1>1, <1>2, TypeInvariant, PTL DEF Spec

\* However uploads, purges, failures and crashes interleave, content recorded as
\* purged is denied and has no object.
THEOREM PurgedContentStaysGone == Spec => []PurgedContentIsGone
<1>1. IInv => PurgedContentIsGone
  BY DEF IInv
<1>2. QED
  BY <1>1, InductiveInvariant, PTL

-----------------------------------------------------------------------------
\* With no rollback after a put, every object of a live row, or of an upload about to
\* insert its row, is kept: only the purge of a denied row deletes.
LEMMA LiveInvStep ==
    ASSUME CleanupFree, IInv, LiveInv, [Next]_vars
    PROVE  LiveInv'
<1> USE DEF IInv
<1>1. NoCleanup'
  <2>1. ASSUME NEW u \in Requests, NEW k \in Keys, Begin(u, k) PROVE NoCleanup'
    BY <2>1 DEF Begin, NoCleanup, LiveInv, TypeOK
  <2>2. ASSUME NEW u \in Requests, UploadStep(u) \/ UploadFault(u)
        PROVE  upload'[u].pc # "cleanup"
    BY <2>2, RequestStep DEF CleanupFree, Rollback, AmbiguousCommit
  <2>3. ASSUME NEW u \in Requests, UploadStep(u) \/ UploadFault(u) PROVE NoCleanup'
    BY <2>2, <2>3, RequestStep DEF LiveInv, NoCleanup
  <2>4. CASE UNCHANGED upload
    BY <2>4 DEF LiveInv, NoCleanup
  <2>5. QED
    BY <2>1, <2>3, <2>4 DEF Next, vars, Tick, PurgeStep, PurgeBegin, PurgeObject,
       PurgeCommit, PurgeFails, Maintenance, ScheduleDeletion, ScheduleExpired,
       PurgeExpiredMetadata
<1>2. ASSUME NEW k \in objects, k \notin objects'
      PROVE  /\ k \in DOMAIN index /\ Denied(k)
             /\ UNCHANGED <<index, upload>>
  <2>1. ASSUME NEW p \in Purgers, PurgeObject(p)
        PROVE  /\ k \in DOMAIN index /\ Denied(k)
               /\ UNCHANGED <<index, upload>>
    BY <1>2, <2>1 DEF PurgeObject, PurgeHoldsDenied
  <2>2. \A u \in Requests : ~Cleanup(u)
    BY DEF Cleanup, LiveInv, NoCleanup
  <2>3. QED
    BY <1>2, <2>1, <2>2 DEF Next, vars, Tick, Begin, UploadStep, LockAndSelect,
       VerifyDuplicate, MeasureQuota, PutObject, ConfirmObject, InsertAndCommit,
       UploadFault, Abort, Rollback, AmbiguousCommit, PutFails, Crash, PurgeStep,
       PurgeBegin, PurgeCommit, PurgeFails, Maintenance, ScheduleDeletion,
       ScheduleExpired, PurgeExpiredMetadata
<1>3. InsertFindsObject'
  <2> SUFFICES ASSUME NEW v \in Requests, upload'[v].pc = "inserting"
               PROVE  upload'[v].key \in objects'
    BY DEF InsertFindsObject
  <2>1. CASE upload'[v] = upload[v]
    BY <1>2, <2>1 DEF LiveInv, InsertFindsObject, AbsentWhileStoring, StoringStates
  <2>2. ASSUME NEW u \in Requests, UploadStep(u) \/ UploadFault(u), u = v,
               upload'[v] # upload[v]
        PROVE  upload'[v].key \in objects'
    <3>1. CASE PutObject(u)
      BY <2>2, <3>1, RequestStep DEF PutObject
    <3>2. CASE ConfirmObject(u)
      BY <2>2, <3>2, GoToStep DEF ConfirmObject, TypeOK, TxnStates, Answers
    <3>3. CASE ~PutObject(u) /\ ~ConfirmObject(u)
      BY <2>2, <3>3, RequestStep
    <3>4. QED
      BY <3>1, <3>2, <3>3
  <2>3. ASSUME NEW u \in Requests, UploadStep(u) \/ UploadFault(u), u # v
        PROVE  upload'[v] = upload[v]
    BY <2>3, RequestStep
  <2>4. ASSUME NEW u \in Requests, NEW k \in Keys, Begin(u, k)
        PROVE  upload'[v] = upload[v]
    BY <2>4 DEF Begin, TypeOK
  <2>5. QED
    BY <2>1, <2>2, <2>3, <2>4 DEF Next, vars, Tick, PurgeStep, PurgeBegin,
       PurgeObject, PurgeCommit, PurgeFails, Maintenance, ScheduleDeletion,
       ScheduleExpired, PurgeExpiredMetadata
<1>4. LiveIndexHasObject'
  <2> SUFFICES ASSUME NEW k \in DOMAIN index', ~Denied(k)'
               PROVE  k \in objects'
    BY DEF LiveIndexHasObject
  <2>1. CASE k \in DOMAIN index
    BY <1>2, <2>1, RowStep DEF LiveInv, LiveIndexHasObject
  <2>2. CASE k \notin DOMAIN index
    <3>1. PICK u \in Requests : /\ upload[u].pc = "inserting"
                                /\ Insert(u)
                                /\ objects' = objects
      BY <2>2, IndexStep
    <3>2. k = upload[u].key
      BY <2>2, <3>1 DEF Insert
    <3>3. QED
      BY <3>1, <3>2 DEF LiveInv, InsertFindsObject
  <2>3. QED
    BY <2>1, <2>2
<1>5. QED
  BY <1>1, <1>3, <1>4 DEF LiveInv

\* Unless a transaction fails after its upload has created the object, or a
\* commit is reported as failed, every envelope that nobody has deleted keeps
\* its content, through any interleaving, any crash and any failed purge.
THEOREM LiveIndexKeepsObject ==
    ASSUME CleanupFree
    PROVE  Spec => []LiveIndexHasObject
<1>1. Init => LiveInv
  BY DEF Init, LiveInv, NoCleanup, InsertFindsObject, LiveIndexHasObject, Idle
<1>2. IInv /\ LiveInv /\ [Next]_vars => LiveInv'
  BY LiveInvStep
<1>3. LiveInv => LiveIndexHasObject
  BY DEF LiveInv
<1>4. QED
  BY <1>1, <1>2, <1>3, InductiveInvariant, PTL DEF Spec

-----------------------------------------------------------------------------
(* Receipts, and the quota of a day *)

\* What a step does to the clock and to one request.
LEMMA ClockStep ==
    ASSUME TypeOK, [Next]_vars
    PROVE  now' = now \/ now' = now + 1
BY DEF Next, vars, Tick, Begin, UploadStep, LockAndSelect, VerifyDuplicate, MeasureQuota,
   PutObject, ConfirmObject, InsertAndCommit, Cleanup, UploadFault, Abort, Rollback,
   AmbiguousCommit, PutFails, Crash, PurgeStep, PurgeBegin, PurgeObject, PurgeCommit,
   PurgeFails, Maintenance, ScheduleDeletion, ScheduleExpired, PurgeExpiredMetadata

LEMMA OneRequestStep ==
    ASSUME TypeOK, [Next]_vars, NEW u \in Requests
    PROVE  \/ upload'[u] = upload[u]
           \/ upload'[u].pc = "queued"
           \/ UploadStep(u) \/ UploadFault(u)
<1>1. ASSUME NEW v \in Requests, NEW k \in Keys, Begin(v, k)
      PROVE  upload'[u] = upload[u] \/ upload'[u].pc = "queued"
  BY <1>1 DEF Begin, TypeOK
<1>2. ASSUME NEW v \in Requests, UploadStep(v) \/ UploadFault(v), v # u
      PROVE  upload'[u] = upload[u]
  BY <1>2, RequestStep
<1>3. CASE UNCHANGED upload
  BY <1>3
<1>4. QED
  BY <1>1, <1>2, <1>3 DEF Next, vars, Tick, PurgeStep, PurgeBegin, PurgeObject,
     PurgeCommit, PurgeFails, Maintenance, ScheduleDeletion, ScheduleExpired,
     PurgeExpiredMetadata

\* The row of a receipt is overwritten by no insert, which found no row, and dropped
\* by no retention before its time.
LEMMA ReceiptStep ==
    ASSUME IInv, ReceiptIsDurable, [Next]_vars
    PROVE  ReceiptIsDurable'
<1> SUFFICES ASSUME NEW u \in Requests, upload'[u].pc = "stored"
             PROVE  \/ /\ upload'[u].key \in DOMAIN index'
                       /\ index'[upload'[u].key].receivedAt = upload'[u].receivedAt
                    \/ upload'[u].receivedAt + IndexRetention <= now'
  BY DEF ReceiptIsDurable
<1>1. CASE InsertAndCommit(u)
  <2>1. /\ upload'[u].key = upload[u].key
        /\ upload'[u].receivedAt = upload[u].receivedAt
    BY <1>1, RequestStep DEF IInv, UploadStep
  <2>2. QED
    BY <1>1, <2>1 DEF InsertAndCommit, Insert, NewRow
<1>2. CASE upload'[u] = upload[u]
  <2> DEFINE k == upload[u].key
             t == upload[u].receivedAt
  <2>1. \/ k \in DOMAIN index /\ index[k].receivedAt = t
        \/ t + IndexRetention <= now
    BY <1>2 DEF ReceiptIsDurable
  <2>2. t \in Nat
    BY <1>2 DEF IInv, TypeOK, Upload, Idle
  <2> HIDE DEF k, t
  <2>3. CASE k \in DOMAIN index /\ index[k].receivedAt = t
    <3>1. \/ k \in DOMAIN index' /\ index'[k].receivedAt = t
          \/ t + IndexRetention <= now
      BY <2>3, RowStep DEF IInv
    <3>2. now <= now'
      BY ClockStep DEF IInv, TypeOK
    <3>3. now' \in Nat /\ now \in Nat
      BY ClockStep DEF IInv, TypeOK
    <3>4. t + IndexRetention <= now => t + IndexRetention <= now'
      BY <2>2, <3>2, <3>3, ConstantsAssumption
    <3>5. QED
      BY <1>2, <3>1, <3>4 DEF k, t
  <2>4. CASE t + IndexRetention <= now
    <3>1. now' \in Nat /\ now \in Nat /\ now <= now'
      BY ClockStep DEF IInv, TypeOK
    <3>2. t + IndexRetention <= now'
      BY <2>2, <2>4, <3>1, ConstantsAssumption
    <3>3. QED
      BY <1>2, <3>2 DEF t
  <2>5. QED
    BY <2>1, <2>3, <2>4
<1>3. QED
  BY <1>1, <1>2, OneRequestStep, RequestStep DEF IInv

\* A receipt stays true until the index retention ends, whatever else is stored,
\* denied, purged or forgotten, and whatever fails.
THEOREM ReceiptStaysTrue == Spec => []ReceiptIsDurable
<1>1. Init => ReceiptIsDurable
  BY DEF Init, ReceiptIsDurable, Idle
<1>2. IInv /\ ReceiptIsDurable /\ [Next]_vars => ReceiptIsDurable'
  BY ReceiptStep
<1>3. QED
  BY <1>1, <1>2, InductiveInvariant, PTL DEF Spec

\* An admitted upload still has room in its day when it inserts: it alone adds rows to
\* its repository.
QuotaHeld ==
    \A u \in Requests :
        upload[u].pc \in AdmittedStates =>
            Cardinality(UploadsSince(upload[u].key.repo, DayStart(upload[u].receivedAt)))
                < DailyUploadLimit

DayInv ==
    /\ IsFiniteSet(DOMAIN index)
    /\ QuotaHeld
    /\ DailyUploadBound

\* A day begins at or before each of its moments.
LEMMA DayStartBefore ==
    ASSUME NEW t \in Nat
    PROVE  DayStart(t) \in Int /\ DayStart(t) <= t
<1>1. DayLength \in Nat /\ DayLength > 0
  BY ConstantsAssumption
<1>2. t % DayLength \in Int /\ t % DayLength >= 0
  BY <1>1
<1>3. QED
  BY <1>2 DEF DayStart

\* A count that only loses rows does not grow.
LEMMA FewerRows ==
    ASSUME NEW S, NEW T, IsFiniteSet(S), T \subseteq S, NEW n \in Nat
    PROVE  /\ IsFiniteSet(T)
           /\ Cardinality(S) < n => Cardinality(T) < n
           /\ Cardinality(S) <= n => Cardinality(T) <= n
<1>1. IsFiniteSet(T) /\ Cardinality(T) <= Cardinality(S)
  BY FS_Subset
<1>2. Cardinality(T) \in Nat /\ Cardinality(S) \in Nat
  BY <1>1, FS_CardinalityType
<1>3. QED
  BY <1>1, <1>2

\* The rows of one UTC day of one repository.
SameDay(k) ==
    {j \in DOMAIN index :
        j.repo = k.repo /\ DayStart(index[j].receivedAt) = DayStart(index[k].receivedAt)}

\* A step that inserts nothing leaves every count as it is, or smaller.
LEMMA DayStepWithoutInsert ==
    ASSUME IInv, DayInv, [Next]_vars, DOMAIN index' \subseteq DOMAIN index
    PROVE  DayInv'
<1>0. DailyUploadLimit \in Nat
  BY ConstantsAssumption
<1>1. \A k \in DOMAIN index' : index'[k].receivedAt = index[k].receivedAt
  BY RowStep DEF IInv
<1>2. IsFiniteSet(DOMAIN index)'
  BY <1>0, FewerRows DEF DayInv
<1>3. QuotaHeld'
  <2> SUFFICES ASSUME NEW u \in Requests, upload'[u].pc \in AdmittedStates
               PROVE  Cardinality(UploadsSince(upload[u].key.repo,
                                               DayStart(upload[u].receivedAt))') < DailyUploadLimit
                      /\ upload'[u].key = upload[u].key
                      /\ upload'[u].receivedAt = upload[u].receivedAt
    BY DEF QuotaHeld, UploadsSince
  <2> DEFINE r == upload[u].key.repo
             t == DayStart(upload[u].receivedAt)
             S == {k \in DOMAIN index : k.repo = r /\ index[k].receivedAt >= t}
             T == {k \in DOMAIN index' : k.repo = r /\ index'[k].receivedAt >= t}
  <2>1. upload'[u] = upload[u] \/ UploadStep(u) \/ UploadFault(u)
    BY OneRequestStep DEF IInv, AdmittedStates
  <2>2. upload'[u].key = upload[u].key /\ upload'[u].receivedAt = upload[u].receivedAt
    BY <2>1, RequestStep DEF IInv
  <2>3. Cardinality(S) < DailyUploadLimit
    BY <2>1, RequestStep DEF IInv, DayInv, QuotaHeld, WithinQuota, UploadsSince
  <2>4. T \subseteq S /\ S \subseteq DOMAIN index
    BY <1>1
  <2>5. Cardinality(T) < DailyUploadLimit
    <3> HIDE DEF S, T
    <3>1. IsFiniteSet(S)
      BY <1>0, <2>4, FewerRows DEF DayInv
    <3>2. QED
      BY <1>0, <2>3, <2>4, <3>1, FewerRows
  <2>6. QED
    BY <2>2, <2>5 DEF UploadsSince
<1>4. DailyUploadBound'
  <2> SUFFICES ASSUME NEW k \in DOMAIN index'
               PROVE  Cardinality(SameDay(k)') <= DailyUploadLimit
    BY DEF DailyUploadBound, SameDay
  <2>1. SameDay(k)' \subseteq SameDay(k) /\ SameDay(k) \subseteq DOMAIN index
    BY <1>1 DEF SameDay
  <2>2. Cardinality(SameDay(k)) <= DailyUploadLimit
    BY DEF DayInv, DailyUploadBound, SameDay
  <2>3. IsFiniteSet(SameDay(k))
    BY <1>0, <2>1, FewerRows DEF DayInv
  <2>4. QED
    BY <1>0, <2>1, <2>2, <2>3, FewerRows
<1>5. QED
  BY <1>2, <1>3, <1>4 DEF DayInv

\* An insert adds its row to a day that still had room, and to no other.
LEMMA DayStepOfInsert ==
    ASSUME IInv, DayInv, [Next]_vars,
           NEW u \in Requests, upload[u].pc = "inserting", upload'[u].pc \notin TxnStates,
           Insert(u), \A v \in Requests : v # u => upload'[v] = upload[v]
    PROVE  DayInv'
<1> DEFINE n == upload[u].key
           t == upload[u].receivedAt
           S == UploadsSince(n.repo, DayStart(t))
<1>0. DailyUploadLimit \in Nat
  BY ConstantsAssumption
<1>1. n \notin DOMAIN index /\ InTxn(u)
  BY DEF IInv, AbsentWhileStoring, StoringStates, InTxn, TxnStates
<1>2. /\ DOMAIN index' = DOMAIN index \cup {n}
      /\ index'[n].receivedAt = t
      /\ \A k \in DOMAIN index : index'[k] = index[k]
  BY <1>1 DEF Insert, NewRow
<1>3. IsFiniteSet(DOMAIN index)'
  BY <1>2, FS_AddElement DEF DayInv
<1>4. QuotaHeld'
  <2> SUFFICES ASSUME NEW v \in Requests, upload'[v].pc \in AdmittedStates
               PROVE  Cardinality(UploadsSince(upload[v].key.repo,
                                               DayStart(upload[v].receivedAt)))' < DailyUploadLimit
    BY DEF QuotaHeld
  <2>1. v # u /\ upload'[v] = upload[v]
    BY DEF AdmittedStates, TxnStates
  <2>2. upload[v].key.repo # n.repo
    BY <1>1, <2>1 DEF IInv, LockExcludes, InTxn, TxnStates, AdmittedStates
  <2>3. UploadsSince(upload[v].key.repo, DayStart(upload[v].receivedAt))'
           = UploadsSince(upload[v].key.repo, DayStart(upload[v].receivedAt))
    BY <1>2, <2>1, <2>2 DEF UploadsSince
  <2>4. Cardinality(UploadsSince(upload[v].key.repo, DayStart(upload[v].receivedAt)))
           < DailyUploadLimit
    BY <2>1 DEF DayInv, QuotaHeld
  <2>5. QED
    BY <2>3, <2>4
<1>5. IsFiniteSet(S) /\ Cardinality(S) < DailyUploadLimit
  <2>1. S \subseteq DOMAIN index
    BY DEF UploadsSince
  <2>2. Cardinality(S) < DailyUploadLimit
    BY DEF DayInv, QuotaHeld, AdmittedStates
  <2>3. QED
    BY <1>0, <2>1, <2>2, FewerRows DEF DayInv
<1>6. DailyUploadBound'
  <2> SUFFICES ASSUME NEW k \in DOMAIN index'
               PROVE  Cardinality(SameDay(k)') <= DailyUploadLimit
    BY DEF DailyUploadBound, SameDay
  <2>1. CASE n \in SameDay(k)'
    <3>1. SameDay(k)' \subseteq S \cup {n}
      <4> SUFFICES ASSUME NEW j \in SameDay(k)', j # n
                   PROVE  j \in S
        OBVIOUS
      <4>1. /\ j \in DOMAIN index /\ j.repo = n.repo
            /\ DayStart(index[j].receivedAt) = DayStart(t)
        BY <1>2, <2>1 DEF SameDay, DayStart
      <4>2. index[j].receivedAt \in Nat
        BY <4>1 DEF IInv, TypeOK, Row
      <4>3. index[j].receivedAt >= DayStart(t)
        BY <4>1, <4>2, DayStartBefore
      <4>4. QED
        BY <4>1, <4>3 DEF UploadsSince
    <3> HIDE DEF S
    <3>2. IsFiniteSet(S \cup {n}) /\ Cardinality(S \cup {n}) <= Cardinality(S) + 1
      <4>1. IsFiniteSet(S \cup {n})
        BY <1>5, FS_AddElement
      <4>2. Cardinality(S \cup {n}) \in {Cardinality(S), Cardinality(S) + 1}
        BY <1>5, FS_AddElement
      <4>3. Cardinality(S) \in Nat
        BY <1>5, FS_CardinalityType
      <4>4. QED
        BY <4>1, <4>2, <4>3
    <3>3. Cardinality(S \cup {n}) <= DailyUploadLimit
      BY <1>0, <1>5, <3>2, FS_CardinalityType
    <3>4. QED
      BY <1>0, <3>1, <3>2, <3>3, FewerRows
  <2>2. CASE n \notin SameDay(k)'
    <3>1. k \in DOMAIN index
      BY <1>2, <2>2 DEF SameDay
    <3>2. SameDay(k)' \subseteq SameDay(k) /\ SameDay(k) \subseteq DOMAIN index
      BY <1>2, <2>2, <3>1 DEF SameDay, DayStart
    <3>3. Cardinality(SameDay(k)) <= DailyUploadLimit
      BY <3>1 DEF DayInv, DailyUploadBound, SameDay
    <3>4. IsFiniteSet(SameDay(k))
      BY <1>0, <3>2, FewerRows DEF DayInv
    <3>5. QED
      BY <1>0, <3>2, <3>3, <3>4, FewerRows
  <2>3. QED
    BY <2>1, <2>2
<1>7. QED
  BY <1>3, <1>4, <1>6 DEF DayInv

\* A day never gets rows that its repository had no room for.
LEMMA DayInvariant == Spec => []DayInv
<1>1. Init => DayInv
  <2>1. ASSUME Init PROVE DayInv
    BY <2>1, FS_EmptySet DEF Init, DayInv, QuotaHeld, DailyUploadBound, AdmittedStates, Idle
  <2>2. QED
    BY <2>1
<1>2. IInv /\ DayInv /\ [Next]_vars => DayInv'
  BY IndexStep, DayStepOfInsert, DayStepWithoutInsert DEF IInv
<1>3. QED
  BY <1>1, <1>2, InductiveInvariant, PTL DEF Spec

\* No interleaving of uploads and no wait past midnight puts more than the limit into
\* one UTC day of a repository.
THEOREM DayIsBounded == Spec => []DailyUploadBound
<1>1. DayInv => DailyUploadBound
  BY DEF DayInv
<1>2. QED
  BY <1>1, DayInvariant, PTL

-----------------------------------------------------------------------------
(* Storage.  The sum of the code is a fold over a set of rows, which takes the *)
(* rows in an order that CHOOSE decides.                                        *)

BytesOf(S) == MapThenSumSet(KeySize, S)

Chosen(S) == CHOOSE k \in S : TRUE

BytesFrom(f, S) == IF S = {} THEN 0 ELSE KeySize(Chosen(S)) + f[S \ {Chosen(S)}]

\* The fold is a recursive function on the sets of rows.
LEMMA BytesUnfold ==
    ASSUME NEW S
    PROVE  BytesOf(S) = (CHOOSE f : f = [T \in SUBSET S |-> BytesFrom(f, T)])[S]
BY Zenon DEF BytesOf, BytesFrom, Chosen, MapThenSumSet, MapThenFoldSet

\* It is defined on a finite set: set by set, the smaller ones first.
LEMMA BytesExist ==
    ASSUME NEW S, IsFiniteSet(S)
    PROVE  \E f : f = [T \in SUBSET S |-> BytesFrom(f, T)]
<1> DEFINE Small(n) == {T \in SUBSET S : Cardinality(T) <= n}
           N == {n \in Nat : \E f : f = [T \in Small(n) |-> BytesFrom(f, T)]}
<1>0. ASSUME NEW T \in SUBSET S PROVE Cardinality(T) \in Nat
  BY FS_Subset, FS_CardinalityType
<1>1. ASSUME NEW T \in SUBSET S, T # {}
      PROVE  /\ T \ {Chosen(T)} \in SUBSET S
             /\ Cardinality(T \ {Chosen(T)}) = Cardinality(T) - 1
  <2>1. IsFiniteSet(T)
    BY FS_Subset
  <2>2. Chosen(T) \in T
    BY <1>1 DEF Chosen
  <2>3. QED
    BY <2>1, <2>2, FS_RemoveElement, Zenon
<1>2. 0 \in N
  <2> DEFINE f == [T \in Small(0) |-> 0]
  <2>1. ASSUME NEW T \in Small(0) PROVE T = {}
    <3>1. T \in SUBSET S /\ Cardinality(T) = 0
      BY <1>0
    <3>2. QED
      BY <3>1, FS_Subset, FS_EmptySet
  <2>2. \A T \in Small(0) : f[T] = BytesFrom(f, T)
    BY <2>1 DEF BytesFrom
  <2>3. f = [T \in Small(0) |-> BytesFrom(f, T)]
    BY <2>2
  <2> HIDE DEF f, Small
  <2>4. QED
    BY <2>3
<1>3. ASSUME NEW n \in Nat, n \in N PROVE n + 1 \in N
  <2>1. PICK f : f = [T \in Small(n) |-> BytesFrom(f, T)]
    BY <1>3
  <2> DEFINE g == [T \in Small(n + 1) |-> BytesFrom(f, T)]
  <2>2. ASSUME NEW T \in Small(n) PROVE T \in Small(n + 1)
    BY <1>0
  <2>3. ASSUME NEW T \in Small(n) PROVE g[T] = f[T]
    <3>1. f[T] = BytesFrom(f, T)
      <4> HIDE DEF Small
      <4>1. QED
        BY <2>1, Zenon
    <3>2. T \in Small(n + 1)
      BY <2>2
    <3> HIDE DEF Small
    <3>3. QED
      BY <3>1, <3>2
  <2>4. ASSUME NEW T \in Small(n + 1) PROVE g[T] = BytesFrom(g, T)
    <3>1. g[T] = BytesFrom(f, T)
      OBVIOUS
    <3>2. T # {} => T \ {Chosen(T)} \in Small(n)
      BY <1>0, <1>1
    <3> HIDE DEF g, Small
    <3>3. QED
      BY <2>3, <3>1, <3>2 DEF BytesFrom
  <2>5. g = [T \in Small(n + 1) |-> BytesFrom(g, T)]
    BY <2>4
  <2> HIDE DEF g, Small
  <2>6. QED
    BY <2>5
<1> HIDE DEF N
<1>4. Cardinality(S) \in N
  BY <1>0, <1>2, <1>3, AllNumbers
<1>5. Small(Cardinality(S)) = SUBSET S
  <2>1. ASSUME NEW T \in SUBSET S PROVE Cardinality(T) <= Cardinality(S)
    BY FS_Subset
  <2>2. QED
    BY <2>1
<1>6. QED
  BY <1>4, <1>5 DEF N

\* The fold takes one row, and then the others.
LEMMA BytesChosen ==
    ASSUME NEW S, IsFiniteSet(S)
    PROVE  BytesOf(S) = IF S = {} THEN 0
                        ELSE KeySize(Chosen(S)) + BytesOf(S \ {Chosen(S)})
<1> DEFINE F(T) == CHOOSE f : f = [U \in SUBSET T |-> BytesFrom(f, U)]
<1>1. ASSUME NEW T \in SUBSET S
      PROVE  /\ \A U \in SUBSET T : F(T)[U] = BytesFrom(F(T), U)
             /\ BytesOf(T) = F(T)[T]
  <2>1. IsFiniteSet(T)
    BY FS_Subset
  <2>2. F(T) = [U \in SUBSET T |-> BytesFrom(F(T), U)]
    BY <2>1, BytesExist, Zenon
  <2>3. BytesOf(T) = F(T)[T]
    BY BytesUnfold
  <2> HIDE DEF F
  <2>4. QED
    BY <2>2, <2>3
<1> DEFINE R == S \ {Chosen(S)}
           W == {T \in SUBSET R : F(R)[T] = F(S)[T]}
<1> HIDE DEF F
<1>2. ASSUME S # {} PROVE R \in W
  <2>1. IsFiniteSet(R) /\ R \in SUBSET S
    BY FS_Subset
  <2>2. ASSUME NEW T \in SUBSET R
        PROVE  F(R)[T] = BytesFrom(F(R), T) /\ F(S)[T] = BytesFrom(F(S), T)
    BY <1>1, <2>1
  <2> HIDE DEF R
  <2>3. ASSUME NEW T \in SUBSET R, \A x \in T : T \ {x} \in W PROVE T \in W
    <3>1. CASE T = {}
      BY <2>2, <3>1 DEF BytesFrom
    <3>2. CASE T # {}
      <4>1. Chosen(T) \in T
        BY <3>2 DEF Chosen
      <4>2. F(R)[T \ {Chosen(T)}] = F(S)[T \ {Chosen(T)}]
        BY <2>3, <4>1
      <4>3. QED
        BY <2>2, <4>2 DEF BytesFrom
    <3>3. QED
      BY <3>1, <3>2
  <2> HIDE DEF W
  <2>4. QED
    BY <2>1, <2>3, FiniteSubset
<1>3. QED
  <2>1. S \in SUBSET S /\ R \in SUBSET S
    OBVIOUS
  <2>2. BytesOf(S) = BytesFrom(F(S), S) /\ BytesOf(R) = F(R)[R]
    BY <1>1, <2>1
  <2>3. CASE S = {}
    BY <2>2, <2>3 DEF BytesFrom
  <2>4. CASE S # {}
    BY <1>2, <2>2, <2>4 DEF BytesFrom
  <2>5. QED
    BY <2>3, <2>4

\* Rows whose bytes can be summed.
Sized(S) == IsFiniteSet(S) /\ S \subseteq Keys

\* What remains of a set of rows is one again.
LEMMA SizedPart ==
    ASSUME NEW S, Sized(S), NEW T \in SUBSET S
    PROVE  Sized(T)
BY FS_Subset DEF Sized

\* Sizes are numbers of bytes, and so are their sums.
LEMMA KeySizeType ==
    ASSUME NEW k \in Keys
    PROVE  KeySize(k) \in Nat
BY ConstantsAssumption DEF KeySize, Keys

LEMMA BytesOfNat ==
    ASSUME NEW S, Sized(S)
    PROVE  BytesOf(S) \in Nat
<1> DEFINE W == {T \in SUBSET S : BytesOf(T) \in Nat}
<1>1. ASSUME NEW T \in SUBSET S, \A k \in T : T \ {k} \in W PROVE T \in W
  <2>1. IsFiniteSet(T) /\ T \subseteq Keys
    BY SizedPart DEF Sized
  <2>2. CASE T = {}
    <3>1. BytesOf(T) = 0
      BY <2>1, <2>2, BytesChosen
    <3>2. QED
      BY <3>1
  <2>3. CASE T # {}
    <3>1. Chosen(T) \in T /\ KeySize(Chosen(T)) \in Nat
      BY <2>1, <2>3, KeySizeType DEF Chosen
    <3>2. BytesOf(T) = KeySize(Chosen(T)) + BytesOf(T \ {Chosen(T)})
      BY <2>1, <2>3, BytesChosen
    <3>3. QED
      BY <1>1, <3>1, <3>2
  <2>4. QED
    BY <2>2, <2>3
<1> HIDE DEF W
<1>2. S \in W
  BY <1>1, FiniteSubset DEF Sized
<1>3. QED
  BY <1>2 DEF W

\* The bytes of some rows are those of any one of them and those of the others.
LEMMA BytesOfOne ==
    ASSUME NEW S, Sized(S), NEW k \in S
    PROVE  BytesOf(S) = KeySize(k) + BytesOf(S \ {k})
<1> DEFINE Each(T) == \A j \in T : BytesOf(T) = KeySize(j) + BytesOf(T \ {j})
           W == {T \in SUBSET S : Each(T)}
<1>1. ASSUME NEW T \in SUBSET S, \A j \in T : T \ {j} \in W PROVE T \in W
  <2>1. Sized(T) /\ IsFiniteSet(T) /\ T \subseteq Keys
    BY SizedPart DEF Sized
  <2> SUFFICES ASSUME NEW j \in T PROVE BytesOf(T) = KeySize(j) + BytesOf(T \ {j})
    OBVIOUS
  <2> DEFINE c == Chosen(T)
  <2>2. c \in T
    BY DEF Chosen
  <2>3. BytesOf(T) = KeySize(c) + BytesOf(T \ {c})
    BY <2>1, BytesChosen
  <2> HIDE DEF c
  <2>4. CASE j = c
    BY <2>3, <2>4
  <2>5. CASE j # c
    <3>1. Each(T \ {c}) /\ Each(T \ {j})
      BY <1>1, <2>2
    <3>2. BytesOf(T \ {c}) = KeySize(j) + BytesOf((T \ {c}) \ {j})
      BY <2>5, <3>1
    <3>3. BytesOf(T \ {j}) = KeySize(c) + BytesOf((T \ {j}) \ {c})
      BY <2>2, <2>5, <3>1
    <3>4. (T \ {c}) \ {j} = (T \ {j}) \ {c}
      OBVIOUS
    <3>5. BytesOf((T \ {c}) \ {j}) \in Nat /\ KeySize(c) \in Nat /\ KeySize(j) \in Nat
      <4>1. Sized((T \ {c}) \ {j})
        BY SizedPart
      <4>2. QED
        BY <2>1, <2>2, <4>1, BytesOfNat, KeySizeType
    <3> HIDE DEF Each, W
    <3>6. QED
      BY <2>3, <3>2, <3>3, <3>4, <3>5
  <2>6. QED
    BY <2>4, <2>5
<1> HIDE DEF W
<1>2. S \in W
  BY <1>1, FiniteSubset DEF Sized
<1>3. QED
  BY <1>2 DEF W

\* Fewer rows have no more bytes.
LEMMA BytesOfPart ==
    ASSUME NEW S, Sized(S), NEW A \in SUBSET S
    PROVE  BytesOf(A) <= BytesOf(S)
<1> DEFINE W == {T \in SUBSET S : A \subseteq T => BytesOf(A) <= BytesOf(T)}
<1>1. ASSUME NEW T \in SUBSET S, \A k \in T : T \ {k} \in W, A \subseteq T
      PROVE  BytesOf(A) <= BytesOf(T)
  <2>1. Sized(T) /\ Sized(A)
    BY SizedPart
  <2>2. BytesOf(A) \in Nat /\ BytesOf(T) \in Nat
    BY <2>1, BytesOfNat
  <2>3. CASE A = T
    BY <2>2, <2>3
  <2>4. ASSUME NEW k \in T, k \notin A PROVE BytesOf(A) <= BytesOf(T)
    <3>1. BytesOf(A) <= BytesOf(T \ {k})
      BY <1>1, <2>4
    <3>2. BytesOf(T) = KeySize(k) + BytesOf(T \ {k})
      BY <2>1, BytesOfOne
    <3>3. BytesOf(T \ {k}) \in Nat
      <4>1. Sized(T \ {k})
        BY <2>1, SizedPart
      <4>2. QED
        BY <4>1, BytesOfNat
    <3>4. KeySize(k) \in Nat
      BY <2>1, KeySizeType DEF Sized
    <3>5. QED
      BY <2>2, <3>1, <3>2, <3>3, <3>4
  <2>5. QED
    BY <1>1, <2>3, <2>4
<1>2. \A T \in SUBSET S : (\A k \in T : T \ {k} \in W) => T \in W
  BY <1>1
<1> HIDE DEF W
<1>3. S \in W
  BY <1>2, FiniteSubset DEF Sized
<1>4. QED
  BY <1>3 DEF W

\* More rows have at most the largest size for each.
LEMMA BytesOfMore ==
    ASSUME NEW A, NEW B, Sized(A), Sized(B), NEW L \in Nat, \A k \in Keys : KeySize(k) <= L
    PROVE  BytesOf(A \cup B) <= BytesOf(A) + Cardinality(B) * L
<1> DEFINE W == {T \in SUBSET B : BytesOf(A \cup T) <= BytesOf(A) + Cardinality(T) * L}
<1>1. ASSUME NEW T \in SUBSET B, \A k \in T : T \ {k} \in W PROVE T \in W
  <2>1. Sized(T) /\ Sized(A \cup T)
    <3>1. Sized(T)
      BY SizedPart
    <3>2. QED
      BY <3>1, FS_Union DEF Sized
  <2>2. BytesOf(A) \in Nat /\ BytesOf(A \cup T) \in Nat
    BY <2>1, BytesOfNat
  <2>3. CASE T = {}
    <3>1. Cardinality(T) = 0 /\ A \cup T = A /\ 0 * L = 0
      BY <2>3, FS_EmptySet
    <3>2. BytesOf(A \cup T) = BytesOf(A) /\ Cardinality(T) * L = 0
      BY <3>1
    <3>3. QED
      BY <2>2, <3>2
  <2>4. ASSUME NEW k \in T PROVE T \in W
    <3>1. Sized(A \cup (T \ {k})) /\ Sized((A \cup T) \ {k}) /\ KeySize(k) \in Nat /\ KeySize(k) <= L
      BY <2>1, SizedPart, KeySizeType DEF Sized
    <3> DEFINE n == Cardinality(T \ {k})
               x == BytesOf(A \cup (T \ {k}))
               y == BytesOf((A \cup T) \ {k})
    <3>2. n \in Nat /\ Cardinality(T) = n + 1
      <4>1. IsFiniteSet(T)
        BY <2>1 DEF Sized
      <4>2. IsFiniteSet(T \ {k}) /\ Cardinality(T \ {k}) = Cardinality(T) - 1
        BY <4>1, FS_RemoveElement, Zenon
      <4>3. Cardinality(T) \in Nat /\ n \in Nat
        BY <4>1, <4>2, FS_CardinalityType
      <4>4. QED
        BY <4>2, <4>3
    <3>3. x <= BytesOf(A) + n * L
      BY <1>1
    <3>4. BytesOf(A \cup T) = KeySize(k) + y
      BY <2>1, BytesOfOne
    <3>5. y <= x
      BY <3>1, BytesOfPart
    <3>6. x \in Nat /\ y \in Nat
      BY <3>1, BytesOfNat
    <3>7. (n + 1) * L = n * L + L /\ n * L \in Nat
      <4> HIDE DEF n
      <4>1. QED
        BY <3>2
    <3> HIDE DEF n, x, y
    <3>8. BytesOf(A \cup T) <= BytesOf(A) + Cardinality(T) * L
      BY <2>2, <3>1, <3>2, <3>3, <3>4, <3>5, <3>6, <3>7
    <3>9. QED
      BY <3>8
  <2>5. QED
    BY <2>3, <2>4
<1> HIDE DEF W
<1>2. B \in W
  BY <1>1, FiniteSubset DEF Sized
<1>3. QED
  BY <1>2 DEF W

\* The rows that count for a tenant, and with them the uploads that passed the quota:
\* their rows will count as soon as they are inserted.
Counted(t) == {k \in RowsOfTenant(t) : ~Purged(k)}

Admitted(t) ==
    {k \in Keys : TenantOfKey(k) = t
                  /\ \E u \in Requests : upload[u].pc \in AdmittedStates /\ upload[u].key = k}

StorageLimit(t) == TenantStorageLimit + (Cardinality(ReposOf(t)) - 1) * LargestSize

StorageInv ==
    \A t \in {TenantOf[r] : r \in Repos} : BytesOf(Counted(t) \cup Admitted(t)) <= StorageLimit(t)

SizesAreBounded ==
    /\ \A t \in Tenants : IsFiniteSet(ReposOf(t))
    /\ \E d \in Digests : \A e \in Digests : Size[e] <= Size[d]

\* A tenant's repositories are at least one, and there is a largest envelope.
LEMMA StorageTypes ==
    ASSUME SizesAreBounded, NEW r \in Repos, NEW t, t = TenantOf[r]
    PROVE  /\ IsFiniteSet(ReposOf(t)) /\ r \in ReposOf(t)
           /\ Cardinality(ReposOf(t)) \in Nat /\ Cardinality(ReposOf(t)) >= 1
           /\ LargestSize \in Nat /\ TenantStorageLimit \in Nat
           /\ \A k \in Keys : KeySize(k) <= LargestSize
<1>1. t \in Tenants /\ TenantStorageLimit \in Nat
  BY ConstantsAssumption
<1>2. IsFiniteSet(ReposOf(t)) /\ r \in ReposOf(t)
  BY <1>1 DEF SizesAreBounded, ReposOf
<1>3. Cardinality(ReposOf(t)) \in Nat /\ Cardinality(ReposOf(t)) # 0
  BY <1>2, FS_CardinalityType, FS_EmptySet
<1>4. LargestSize \in {Size[d] : d \in Digests} /\ \A d \in Digests : Size[d] <= LargestSize
  <2>1. \E s \in {Size[d] : d \in Digests} : \A d \in Digests : Size[d] <= s
    BY DEF SizesAreBounded
  <2>2. QED
    BY <2>1 DEF LargestSize
<1>5. LargestSize \in Nat
  BY <1>4, ConstantsAssumption
<1>6. \A k \in Keys : KeySize(k) <= LargestSize
  BY <1>4 DEF KeySize, Keys
<1>7. QED
  BY <1>1, <1>2, <1>3, <1>5, <1>6

\* Uploads past the quota belong to different repositories, as the lock does.
LEMMA AdmittedFew ==
    ASSUME TypeOK, LockExcludes, NEW t, IsFiniteSet(ReposOf(t))
    PROVE  /\ Sized(Admitted(t))
           /\ \A k \in Admitted(t) :
                Sized(Admitted(t) \ {k})
                /\ Cardinality(Admitted(t) \ {k}) <= Cardinality(ReposOf(t)) - 1
<1> DEFINE A == Admitted(t)
           repo == [k \in A |-> k.repo]
<1>1. repo \in Injection(A, ReposOf(t))
  <2>1. ASSUME NEW k \in A PROVE k.repo \in ReposOf(t)
    BY DEF Admitted, Keys, TenantOfKey, ReposOf
  <2>2. ASSUME NEW j \in A, NEW k \in A, j.repo = k.repo PROVE j = k
    BY <2>2 DEF Admitted, LockExcludes, InTxn, TxnStates, AdmittedStates
  <2>3. repo \in [A -> ReposOf(t)] /\ IsInjective(repo)
    BY <2>1, <2>2 DEF IsInjective
  <2>4. QED
    BY <2>3 DEF Injection
<1>2. IsFiniteSet(A) /\ Cardinality(A) <= Cardinality(ReposOf(t))
  BY <1>1, FS_Injection
<1>3. Sized(A)
  BY <1>2 DEF Sized, Admitted
<1> HIDE DEF A
<1>4. ASSUME NEW k \in A
      PROVE  /\ Sized(A \ {k})
             /\ Cardinality(A \ {k}) <= Cardinality(ReposOf(t)) - 1
  <2>1. Cardinality(A \ {k}) = Cardinality(A) - 1
    BY <1>2, FS_RemoveElement, Zenon
  <2>2. Cardinality(A) \in Nat /\ Cardinality(ReposOf(t)) \in Nat
    BY <1>2, FS_CardinalityType
  <2>3. QED
    BY <1>2, <1>3, <2>1, <2>2, SizedPart
<1>5. QED
  BY <1>3, <1>4 DEF A

\* Only finitely many rows are ever counted or admitted at one time.
LEMMA StorageSized ==
    ASSUME SizesAreBounded, IInv, IsFiniteSet(DOMAIN index), NEW r \in Repos, NEW t, t = TenantOf[r]
    PROVE  Sized(Counted(t)) /\ Sized(Counted(t) \cup Admitted(t))
<1>1. Counted(t) \subseteq DOMAIN index /\ DOMAIN index \subseteq Keys
  BY DEF Counted, RowsOfTenant, IInv, TypeOK
<1>2. Sized(Counted(t))
  BY <1>1, FS_Subset DEF Sized
<1>3. Sized(Admitted(t))
  BY AdmittedFew, StorageTypes DEF IInv
<1>4. QED
  BY <1>2, <1>3, FS_Union DEF Sized

\* The same of the next state.
AdmittedFewPlainly ==
    TypeOK /\ LockExcludes =>
        \A t \in Tenants, k \in Keys :
            IsFiniteSet(ReposOf(t)) /\ k \in Admitted(t) =>
                /\ Sized(Admitted(t)) /\ Sized(Admitted(t) \ {k})
                /\ Cardinality(Admitted(t) \ {k}) <= Cardinality(ReposOf(t)) - 1

LEMMA AdmittedFewNext == AdmittedFewPlainly'
<1>1. AdmittedFewPlainly
  BY AdmittedFew DEF AdmittedFewPlainly
<1>2. QED
  BY <1>1, PTL

\* Without an admission a tenant's rows to come only become rows, or are given up.
LEMMA StorageStep ==
    ASSUME IInv, [Next]_vars, NEW t,
           \A u \in Requests :
              (TenantOfKey(upload[u].key) = t /\ upload'[u].pc \in AdmittedStates)
                 => upload[u].pc \in AdmittedStates
    PROVE  (Counted(t) \cup Admitted(t))' \subseteq Counted(t) \cup Admitted(t)
<1> SUFFICES ASSUME NEW k, k \in Counted(t)' \/ k \in Admitted(t)'
             PROVE  k \in Counted(t) \cup Admitted(t)
  OBVIOUS
<1>1. CASE k \in Admitted(t)'
  <2>1. PICK u \in Requests : upload'[u].pc \in AdmittedStates /\ upload'[u].key = k
    BY <1>1 DEF Admitted
  <2>2. upload'[u].key = upload[u].key
    <3>1. CASE upload'[u] = upload[u]
      BY <3>1
    <3>2. CASE UploadStep(u) \/ UploadFault(u)
      BY <3>2, RequestStep DEF IInv
    <3>3. QED
      BY <2>1, <3>1, <3>2, OneRequestStep DEF IInv, AdmittedStates
  <2>3. k \in Keys /\ TenantOfKey(k) = t
    BY <1>1 DEF Admitted
  <2>4. upload[u].pc \in AdmittedStates
    BY <2>1, <2>2, <2>3
  <2>5. QED
    BY <2>1, <2>2, <2>3, <2>4 DEF Admitted
<1>2. CASE k \in Counted(t)' /\ k \in DOMAIN index
  <2>1. Purged(k) => Purged(k)'
    BY <1>2, RowStep DEF IInv, PurgeHoldsDenied, Purged, Counted, RowsOfTenant
  <2>2. QED
    BY <1>2, <2>1 DEF Counted, RowsOfTenant
<1>3. CASE k \in Counted(t)' /\ k \notin DOMAIN index
  <2>1. k \in DOMAIN index' /\ TenantOfKey(k) = t
    BY <1>3 DEF Counted, RowsOfTenant
  <2>2. PICK u \in Requests : upload[u].pc = "inserting" /\ Insert(u)
    BY <1>3, <2>1, IndexStep DEF IInv
  <2>3. k = upload[u].key
    BY <1>3, <2>1, <2>2 DEF Insert
  <2>4. upload[u] \in Upload
    BY <2>2, RecordOf DEF IInv, TypeOK
  <2>5. QED
    BY <2>1, <2>2, <2>3, <2>4 DEF Admitted, AdmittedStates, Upload
<1>4. QED
  BY <1>1, <1>2, <1>3

\* The quota has room for the upload it admits; the others in flight are one for each
\* other repository.
LEMMA StorageAdmission ==
    ASSUME SizesAreBounded, IInv, IInv', IsFiniteSet(DOMAIN index), [Next]_vars,
           NEW u \in Requests, upload'[u].pc \in AdmittedStates,
           upload[u].pc \notin AdmittedStates,
           NEW t, t = TenantOfKey(upload[u].key)
    PROVE  BytesOf(Counted(t) \cup Admitted(t))' <= StorageLimit(t)
<1> DEFINE k == upload[u].key
           B == Admitted(t)' \ {k}
           n == Cardinality(ReposOf(t))
<1>1. /\ upload'[u].key = k /\ k \in Keys /\ UNCHANGED index
      /\ StoredBytes(t) + KeySize(k) <= TenantStorageLimit
  <2>1. UploadStep(u) \/ UploadFault(u)
    BY OneRequestStep DEF IInv, AdmittedStates
  <2>2. /\ upload'[u].key = k /\ upload[u] \in Upload
        /\ WithinQuota(k, upload[u].receivedAt) /\ UNCHANGED index
    BY <2>1, RequestStep DEF IInv
  <2>3. QED
    BY <2>2 DEF WithinQuota, Upload
<1>2. k.repo \in Repos /\ t = TenantOf[k.repo]
  BY <1>1 DEF Keys, TenantOfKey
<1>3. /\ IsFiniteSet(ReposOf(t)) /\ n \in Nat /\ n >= 1 /\ LargestSize \in Nat
      /\ TenantStorageLimit \in Nat /\ \A j \in Keys : KeySize(j) <= LargestSize
  BY <1>2, StorageTypes
<1>4. k \notin DOMAIN index /\ k \in Admitted(t)'
  <2>1. k \notin DOMAIN index'
    BY <1>1 DEF IInv, AbsentWhileStoring, StoringStates, AdmittedStates
  <2>2. QED
    BY <1>1, <2>1 DEF Admitted, TenantOfKey
<1>5. Sized(B) /\ Cardinality(B) <= n - 1
  <2>1. TypeOK' /\ LockExcludes' /\ t \in Tenants
    BY <1>2, ConstantsAssumption DEF IInv
  <2>2. \A s \in Tenants, j \in Keys :
          IsFiniteSet(ReposOf(s)) /\ j \in Admitted(s)' =>
              /\ Sized(Admitted(s)' \ {j})
              /\ Cardinality(Admitted(s)' \ {j}) <= Cardinality(ReposOf(s)) - 1
    BY <2>1, AdmittedFewNext DEF AdmittedFewPlainly
  <2>3. QED
    BY <1>1, <1>3, <1>4, <2>1, <2>2
<1>6. Sized(Counted(t) \cup {k}) /\ Sized(Counted(t))
  <2>1. Sized(Counted(t))
    BY <1>2, StorageSized
  <2>2. QED
    BY <1>1, <2>1, FS_AddElement DEF Sized
<1>7. BytesOf(Counted(t) \cup {k}) <= TenantStorageLimit
  <2>1. k \notin Counted(t)
    BY <1>4 DEF Counted, RowsOfTenant
  <2>2. (Counted(t) \cup {k}) \ {k} = Counted(t)
    BY <2>1
  <2>3. BytesOf(Counted(t) \cup {k}) = KeySize(k) + BytesOf(Counted(t))
    BY <1>6, <2>2, BytesOfOne
  <2>4. BytesOf(Counted(t)) = StoredBytes(t)
    BY DEF BytesOf, StoredBytes, Counted
  <2>5. KeySize(k) \in Nat /\ BytesOf(Counted(t)) \in Nat
    BY <1>1, <1>6, KeySizeType, BytesOfNat
  <2>6. QED
    BY <1>1, <2>3, <2>4, <2>5
<1>8. (Counted(t) \cup Admitted(t))' = (Counted(t) \cup {k}) \cup B
  <2>1. Counted(t)' = Counted(t)
    BY <1>1 DEF Counted, RowsOfTenant, Purged
  <2>2. QED
    BY <1>4, <2>1
<1> DEFINE C == Counted(t) \cup {k}
<1> HIDE DEF B, n, k, C
<1>9. BytesOf(C \cup B) <= BytesOf(C) + Cardinality(B) * LargestSize
  BY <1>3, <1>5, <1>6, BytesOfMore DEF C
<1>10. Cardinality(B) * LargestSize <= (n - 1) * LargestSize
  <2>1. Cardinality(B) \in Nat /\ n - 1 \in Nat
    BY <1>3, <1>5, FS_CardinalityType DEF Sized
  <2>2. QED
    BY <1>3, <1>5, <2>1
<1>11. BytesOf(C \cup B) \in Nat /\ BytesOf(C) \in Nat
  <2>1. Sized(C \cup B) /\ Sized(C)
    BY <1>5, <1>6, FS_Union DEF Sized, C
  <2>2. QED
    BY <2>1, BytesOfNat
<1> DEFINE x == Cardinality(B) * LargestSize
           y == (n - 1) * LargestSize
<1>12. x \in Nat /\ y \in Nat
  <2>1. Cardinality(B) \in Nat /\ n - 1 \in Nat
    BY <1>3, <1>5, FS_CardinalityType DEF Sized
  <2>2. QED
    BY <1>3, <2>1
<1>13. StorageLimit(t) = TenantStorageLimit + y
  BY DEF StorageLimit, n
<1>14. BytesOf(C) <= TenantStorageLimit /\ BytesOf(Counted(t) \cup Admitted(t))' = BytesOf(C \cup B)
  BY <1>7, <1>8 DEF C
<1> HIDE DEF x, y
<1>15. BytesOf(C \cup B) <= TenantStorageLimit + y
  <2>1. BytesOf(C \cup B) <= BytesOf(C) + x /\ x <= y
    BY <1>9, <1>10 DEF x, y
  <2>2. QED
    BY <1>3, <1>11, <1>12, <1>14, <2>1
<1>16. QED
  BY <1>13, <1>14, <1>15

\* Of any number of uploads at once, each other repository of a tenant puts one envelope
\* at most above its storage quota.
THEOREM StorageIsBounded ==
    ASSUME SizesAreBounded
    PROVE  Spec => []StorageOvershootBound
<1>1. Init => StorageInv
  <2> SUFFICES ASSUME Init, NEW r \in Repos, NEW t, t = TenantOf[r]
               PROVE  BytesOf(Counted(t) \cup Admitted(t)) <= StorageLimit(t)
    BY DEF StorageInv
  <2>1. Counted(t) \cup Admitted(t) = {}
    BY DEF Init, Counted, RowsOfTenant, Admitted, AdmittedStates, Idle
  <2>2. BytesOf({}) = 0
    BY FS_EmptySet, BytesChosen
  <2>3. Cardinality(ReposOf(t)) - 1 \in Nat /\ LargestSize \in Nat /\ TenantStorageLimit \in Nat
    BY StorageTypes
  <2> DEFINE x == (Cardinality(ReposOf(t)) - 1) * LargestSize
  <2>4. x \in Nat /\ StorageLimit(t) = TenantStorageLimit + x
    BY <2>3 DEF StorageLimit
  <2> HIDE DEF x
  <2>5. 0 <= StorageLimit(t)
    BY <2>3, <2>4
  <2>6. BytesOf(Counted(t) \cup Admitted(t)) = 0
    BY <2>1, <2>2
  <2>7. QED
    BY <2>5, <2>6
<1>2. IInv /\ IInv' /\ DayInv /\ StorageInv /\ [Next]_vars => StorageInv'
  <2> SUFFICES ASSUME IInv, IInv', DayInv, StorageInv, [Next]_vars,
                      NEW r \in Repos, NEW t, t = TenantOf[r]
               PROVE  BytesOf(Counted(t) \cup Admitted(t))' <= StorageLimit(t)
    BY DEF StorageInv, StorageLimit, ReposOf
  <2>1. CASE \E u \in Requests : /\ TenantOfKey(upload[u].key) = t
                                 /\ upload'[u].pc \in AdmittedStates
                                 /\ upload[u].pc \notin AdmittedStates
    BY <2>1, StorageAdmission DEF DayInv
  <2>2. CASE \A u \in Requests :
               (TenantOfKey(upload[u].key) = t /\ upload'[u].pc \in AdmittedStates)
                  => upload[u].pc \in AdmittedStates
    <3> DEFINE C == Counted(t) \cup Admitted(t)
               D == (Counted(t) \cup Admitted(t))'
    <3>1. D \in SUBSET C
      BY <2>2, StorageStep
    <3>2. Sized(C)
      BY StorageSized DEF DayInv
    <3>3. BytesOf(C) <= StorageLimit(t)
      BY DEF StorageInv
    <3>4. StorageLimit(t) \in Int
      BY StorageTypes DEF StorageLimit
    <3> HIDE DEF C, D
    <3>5. BytesOf(D) <= BytesOf(C) /\ Sized(D)
      BY <3>1, <3>2, BytesOfPart, SizedPart
    <3>6. BytesOf(C) \in Nat /\ BytesOf(D) \in Nat
      BY <3>2, <3>5, BytesOfNat
    <3>7. BytesOf(D) <= StorageLimit(t)
      BY <3>3, <3>4, <3>5, <3>6
    <3>8. QED
      BY <3>7 DEF D
  <2>3. QED
    BY <2>1, <2>2
<1>3. IInv /\ DayInv /\ StorageInv => StorageOvershootBound
  <2> SUFFICES ASSUME IInv, DayInv, StorageInv, NEW r \in Repos, NEW t, t = TenantOf[r]
               PROVE  StoredBytes(t) <= StorageLimit(t)
    BY DEF StorageOvershootBound, StorageLimit
  <2>1. Sized(Counted(t) \cup Admitted(t))
    BY StorageSized DEF DayInv
  <2>2. BytesOf(Counted(t)) <= BytesOf(Counted(t) \cup Admitted(t))
    BY <2>1, BytesOfPart
  <2>3. BytesOf(Counted(t)) = StoredBytes(t)
    BY DEF BytesOf, StoredBytes, Counted
  <2>4. BytesOf(Counted(t)) \in Nat /\ BytesOf(Counted(t) \cup Admitted(t)) \in Nat
    BY <2>1, SizedPart, BytesOfNat
  <2>5. StorageLimit(t) \in Int
    BY StorageTypes DEF StorageLimit
  <2>6. QED
    BY <2>2, <2>3, <2>4, <2>5 DEF StorageInv
<1>4. Spec => []DayInv
  BY DayInvariant
<1>5. QED
  BY <1>1, <1>2, <1>3, <1>4, InductiveInvariant, PTL DEF Spec

-----------------------------------------------------------------------------
(* Refinement *)

Reach == {k \in DOMAIN index : Accessible(k)}

Beyond == {k \in DOMAIN index : ~Accessible(k)}

\* While no live row lacks its object, what a client may read is what it can read.
LEMMA ReachIsReadable ==
    ASSUME LiveIndexHasObject
    PROVE  {k \in DOMAIN index : Accessible(k) /\ k \in objects} = Reach
BY DEF LiveIndexHasObject, Reach, Accessible

\* An envelope that has left the reach of clients does not come back into it.
LEMMA ReachShrinks ==
    ASSUME IInv, [Next]_vars, NEW k \in DOMAIN index, k \in DOMAIN index', Accessible(k)'
    PROVE  Accessible(k)
<1>1. ~Denied(k) /\ index'[k].receivedAt = index[k].receivedAt
  BY RowStep DEF IInv, Accessible
<1>2. ~Purged(k)
  BY <1>1 DEF IInv, PurgedContentIsGone
<1>3. ~ContentExpired(k, now)
  <2>1. now \in Nat /\ now' \in Nat /\ now <= now'
    BY ClockStep DEF IInv, TypeOK
  <2>2. index[k].receivedAt \in Nat
    BY DEF IInv, TypeOK, Row
  <2>3. ~(index[k].receivedAt + EnvelopeRetention <= now')
    BY <1>1 DEF Accessible, ContentExpired
  <2>4. QED
    BY <2>1, <2>2, <2>3, ConstantsAssumption DEF ContentExpired
<1>4. QED
  BY <1>1, <1>2, <1>3 DEF Accessible

\* Every step admits one envelope, withdraws some, forgets some, or does nothing.
LEMMA StoreStep ==
    ASSUME IInv, LiveIndexHasObject, LiveIndexHasObject', [Next]_vars
    PROVE  [Store!Next]_(Store!vars)
<1> DEFINE R == {k \in DOMAIN index : Accessible(k) /\ k \in objects}
           W == {k \in DOMAIN index : ~Accessible(k)}
<1>1. R = Reach /\ W = Beyond /\ R' = Reach' /\ W' = Beyond'
  BY ReachIsReadable DEF Reach, Beyond, LiveIndexHasObject, Accessible
<1> HIDE DEF R, W
<1>2. ASSUME NEW t \in Tenants, PurgeExpiredMetadata(t, {})
      PROVE  \E S \in SUBSET W : W' = W \ S /\ R' = R
  <2> DEFINE S == ExpiredIndexes(t)
  <2>1. /\ DOMAIN index' = DOMAIN index \ S
        /\ \A k \in DOMAIN index' : index'[k] = index[k]
        /\ now' = now
    BY <1>2 DEF PurgeExpiredMetadata
  <2>2. \A k \in S : k \in DOMAIN index /\ ~Accessible(k)
    BY DEF ExpiredIndexes, RowsOfTenant, Accessible
  <2>3. \A k \in DOMAIN index' : Accessible(k)' <=> Accessible(k)
    BY <2>1 DEF Accessible, Denied, Purged, ContentExpired
  <2> HIDE DEF S
  <2>4. Beyond' = Beyond \ S /\ Reach' = Reach /\ S \subseteq Beyond
    BY <2>1, <2>2, <2>3 DEF Reach, Beyond
  <2>5. QED
    BY <1>1, <2>4
<1>3. ASSUME NEW u \in Requests, upload[u].pc = "inserting", Insert(u), UNCHANGED now
      PROVE  \E k \in Keys : /\ k \notin R \cup W
                              /\ \/ R' = R \cup {k} /\ W' = W
                                 \/ W' = W \cup {k} /\ R' = R
  <2>1. PICK n \in Keys : n = upload[u].key /\ n \notin DOMAIN index
    BY <1>3 DEF IInv, AbsentWhileStoring, StoringStates, TypeOK, Upload, Idle
  <2>2. /\ DOMAIN index' = DOMAIN index \cup {n}
        /\ \A k \in DOMAIN index : index'[k] = index[k]
    BY <1>3, <2>1 DEF Insert
  <2>3. \A k \in DOMAIN index : Accessible(k)' <=> Accessible(k)
    BY <1>3, <2>2 DEF Accessible, Denied, Purged, ContentExpired
  <2>4. n \notin Reach \cup Beyond
    BY <2>1 DEF Reach, Beyond
  <2>5. CASE Accessible(n)'
    <3>1. Reach' = Reach \cup {n} /\ Beyond' = Beyond
      BY <2>1, <2>2, <2>3, <2>5 DEF Reach, Beyond
    <3>2. QED
      BY <1>1, <2>1, <2>4, <3>1
  <2>6. CASE ~Accessible(n)'
    <3>1. Beyond' = Beyond \cup {n} /\ Reach' = Reach
      BY <2>1, <2>2, <2>3, <2>6 DEF Reach, Beyond
    <3>2. QED
      BY <1>1, <2>1, <2>4, <3>1
  <2>7. QED
    BY <2>5, <2>6
<1>4. ASSUME DOMAIN index' = DOMAIN index
      PROVE  \E S \in SUBSET R : R' = R \ S /\ W' = W \cup S
  <2>1. \A k \in DOMAIN index : Accessible(k)' => Accessible(k)
    BY <1>4, ReachShrinks
  <2>2. Reach' \subseteq Reach /\ Beyond' = Beyond \cup (Reach \ Reach')
    BY <1>4, <2>1 DEF Reach, Beyond
  <2>3. Reach' = Reach \ (Reach \ Reach') /\ (Reach \ Reach') \in SUBSET Reach
    BY <2>2
  <2>4. QED
    BY <1>1, <2>2, <2>3
<1>5. \/ \E t \in Tenants : PurgeExpiredMetadata(t, {})
      \/ \E u \in Requests : upload[u].pc = "inserting" /\ Insert(u) /\ UNCHANGED now
      \/ DOMAIN index' = DOMAIN index
  <2>1. ASSUME NEW k \in Keys, ScheduleDeletion(k)
        PROVE  DOMAIN index' = DOMAIN index
    BY <2>1, DenyType DEF ScheduleDeletion, IInv
  <2>2. ASSUME NEW t \in Tenants, ScheduleExpired(t)
        PROVE  DOMAIN index' = DOMAIN index
    BY <2>2, DenyType DEF ScheduleExpired, IInv
  <2>3. ASSUME NEW p \in Purgers, PurgeCommit(p)
        PROVE  DOMAIN index' = DOMAIN index
    BY <2>3 DEF PurgeCommit
  <2>4. ASSUME NEW u \in Requests, InsertAndCommit(u) \/ AmbiguousCommit(u)
        PROVE  upload[u].pc = "inserting" /\ Insert(u) /\ UNCHANGED now
    BY <2>4 DEF InsertAndCommit, AmbiguousCommit
  <2>5. CASE UNCHANGED index
    BY <2>5
  <2>6. QED
    BY <2>1, <2>2, <2>3, <2>4, <2>5 DEF Next, vars, Tick, Begin,
       UploadStep, LockAndSelect, VerifyDuplicate, MeasureQuota, PutObject,
       ConfirmObject, Cleanup, UploadFault, Abort, Rollback, PutFails, Crash,
       PurgeStep, PurgeBegin, PurgeObject, PurgeFails, Maintenance
<1>6. \/ \E k \in Keys : Store!Admit(k)
      \/ \E S \in SUBSET R : Store!Withdraw(S)
      \/ \E S \in SUBSET W : Store!Forget(S)
  <2>1. CASE \E t \in Tenants : PurgeExpiredMetadata(t, {})
    BY <1>2, <2>1 DEF Store!Forget, R, W
  <2>2. CASE \E u \in Requests : upload[u].pc = "inserting" /\ Insert(u) /\ UNCHANGED now
    BY <1>3, <2>2 DEF Store!Admit, R, W
  <2>3. CASE DOMAIN index' = DOMAIN index
    BY <1>4, <2>3 DEF Store!Withdraw, R, W
  <2>4. QED
    BY <1>5, <2>1, <2>2, <2>3
<1>7. QED
  BY <1>6 DEF Store!Next, R, W

\* Unless the cleanup of a failed upload may run late, clients see of all this an
\* envelope that is admitted, readable, withdrawn and forgotten, in this order.
THEOREM StoreIsImplemented ==
    ASSUME CleanupFree
    PROVE  Spec => ImplementsEvidenceStore
<1>1. Init => Store!Init
  BY DEF Init, Store!Init
<1>2. IInv /\ LiveIndexHasObject /\ LiveIndexHasObject' /\ [Next]_vars
         => [Store!Next]_(Store!vars)
  BY StoreStep
<1>3. Spec => []LiveIndexHasObject
  BY LiveIndexKeepsObject
<1>4. QED
  BY <1>1, <1>2, <1>3, InductiveInvariant, PTL DEF Spec, ImplementsEvidenceStore, Store!Spec

-----------------------------------------------------------------------------
(* The review *)

\* A visit that still has steps to take, and one that has ended.
OpenStates == {"index", "select", "fetch", "list", "commit"}
EndStates == {"denied", "shown", "appended", "failed", "conflict", "unavailable"}

Visit == [pc : OpenStates \cup EndStates, kind : {"read", "append"}, key : Keys,
          at : Nat, dated : Nat, supersedes : Visits \cup {NoDecision, Unknown},
          late : BOOLEAN]

Decision == [id : Visits, key : Keys, at : Nat, supersedes : Visits \cup {NoDecision, Unknown}]

AuditEvent == [visit : Visits, action : {"authorization-deny", "evidence-read", "decision-append"},
               outcome : {"accepted", "rejected"}, at : Nat]

ReviewTypeOK ==
    /\ visit \in [Visits -> Visit \cup {Idle}]
    /\ decisions \subseteq Decision
    /\ events \subseteq AuditEvent

\* What a visit dates by its own clock is not in the future.
VisitsAreDated ==
    \A v \in Visits : visit[v] # Idle =>
        visit[v].at <= visit[v].dated /\ visit[v].dated <= now

\* A late visit finds the denied row while that row lasts, and goes no further.
LateFindsDenial ==
    \A v \in Visits : visit[v] # Idle /\ visit[v].late =>
        /\ visit[v].pc \in {"index", "denied", "unavailable"}
        /\ visit[v].key \in DOMAIN index
        /\ Denied(visit[v].key)

\* A decision is the work of a visit that has ended, on a row it has kept since.
DecisionsStand ==
    \A d \in decisions :
        /\ visit[d.id] # Idle
        /\ visit[d.id].pc \in {"appended", "failed"}
        /\ visit[d.id].at = d.at
        /\ d.key \in DOMAIN index
        /\ index[d.key].receivedAt + EnvelopeRetention > d.at
        /\ EventOf(d, "accepted") \/ d.at + IndexRetention <= now

\* An event about a decision was recorded when its visit ended.
EventsAreTrue ==
    \A e \in events : e.action = "decision-append" =>
        /\ visit[e.visit] # Idle
        /\ visit[e.visit].pc \in {"appended", "failed", "unavailable", "conflict"}
        /\ e.outcome = "rejected" => visit[e.visit].pc # "appended"
        /\ e.outcome = "accepted" => /\ e.at >= visit[e.visit].at
                                     /\ \E d \in decisions : d.id = e.visit

ReviewInv ==
    /\ ReviewTypeOK
    /\ VisitsAreDated
    /\ LateFindsDenial
    /\ DecisionsStand
    /\ EventsAreTrue

-----------------------------------------------------------------------------
(* The persistence below *)

\* The retention transaction that decisions can refuse removes no more than the other.
LEMMA PurgeIsRetention ==
    ASSUME NEW t \in Tenants, PurgeMetadata(t)
    PROVE  PurgeExpiredMetadata(t, {})
BY DEF PurgeMetadata, PurgeExpiredMetadata

\* A step of the review is a step of the persistence or leaves it alone.
LEMMA ReviewStepBelow ==
    ASSUME [ReviewNext]_allVars
    PROVE  [Next]_vars
<1>1. CASE PersistenceStep
  BY <1>1 DEF PersistenceStep, Next, Maintenance
<1>2. ASSUME NEW t \in Tenants, PurgeMetadata(t)
      PROVE  Next
  BY <1>2, PurgeIsRetention DEF Next, Maintenance
<1>3. ASSUME NEW v \in Visits, VisitStep(v)
      PROVE  UNCHANGED vars
  BY <1>3 DEF VisitStep, Arrive, LoadIndex, SelectRow, FetchObject, ShowEvidence, AppendDecision
<1>4. CASE UNCHANGED allVars
  BY <1>4 DEF allVars
<1>5. QED
  BY <1>1, <1>2, <1>3, <1>4 DEF ReviewNext

\* The review refines the persistence it reads: none of its visits changes a row or
\* an object, and its retention is one the persistence allows.
THEOREM ReviewKeepsPersistence == ReviewSpec => Spec
<1>1. ReviewInit => Init
  BY DEF ReviewInit
<1>2. [ReviewNext]_allVars => [Next]_vars
  BY ReviewStepBelow
<1>3. QED
  BY <1>1, <1>2, PTL DEF ReviewSpec, Spec

\* Only the retention transaction forgets a row.
LEMMA RowsStay ==
    ASSUME TypeOK, PersistenceStep
    PROVE  DOMAIN index \subseteq DOMAIN index'
<1>1. ASSUME NEW u \in Requests, InsertAndCommit(u) \/ AmbiguousCommit(u)
      PROVE  DOMAIN index \subseteq DOMAIN index'
  BY <1>1 DEF InsertAndCommit, AmbiguousCommit, Insert
<1>2. ASSUME NEW k \in Keys, ScheduleDeletion(k)
      PROVE  DOMAIN index \subseteq DOMAIN index'
  BY <1>2, DenyType DEF ScheduleDeletion
<1>3. ASSUME NEW t \in Tenants, ScheduleExpired(t)
      PROVE  DOMAIN index \subseteq DOMAIN index'
  BY <1>3, DenyType DEF ScheduleExpired
<1>4. ASSUME NEW p \in Purgers, PurgeCommit(p)
      PROVE  DOMAIN index \subseteq DOMAIN index'
  BY <1>4 DEF PurgeCommit
<1>5. CASE UNCHANGED index
  BY <1>5
<1>6. QED
  BY <1>1, <1>2, <1>3, <1>4, <1>5 DEF PersistenceStep, Tick, Begin,
     UploadStep, LockAndSelect, VerifyDuplicate, MeasureQuota, PutObject,
     ConfirmObject, Cleanup, UploadFault, Abort, Rollback, PutFails, Crash,
     PurgeStep, PurgeBegin, PurgeObject, PurgeFails

\* A row that stays keeps its date of receipt, and its denial if it has one.
LEMMA RowKept ==
    ASSUME IInv, [Next]_vars, NEW k \in DOMAIN index, k \in DOMAIN index'
    PROVE  /\ index'[k].receivedAt = index[k].receivedAt
           /\ Denied(k) => Denied(k)'
BY RowStep DEF IInv

\* Uploads, deletions, purges and the clock leave the review as it was.
LEMMA BelowStep ==
    ASSUME IInv, IInv', ReviewInv, PersistenceStep
    PROVE  ReviewInv'
<1>1. [Next]_vars
  BY DEF PersistenceStep, Next, Maintenance
<1>2. DOMAIN index \subseteq DOMAIN index'
  BY RowsStay DEF IInv
<1>3. UNCHANGED <<visit, decisions, events>>
  BY DEF PersistenceStep, reviewVars
<1>4. now \in Nat /\ now' \in Nat /\ now <= now'
  BY <1>1, ClockStep DEF IInv, TypeOK
<1>5. ReviewTypeOK'
  BY <1>3 DEF ReviewInv, ReviewTypeOK
<1>6. VisitsAreDated'
  <2> SUFFICES ASSUME NEW v \in Visits, visit[v] # Idle
               PROVE  visit[v].at <= visit[v].dated /\ visit[v].dated <= now'
    BY <1>3 DEF VisitsAreDated
  <2>1. visit[v] \in Visit
    BY DEF ReviewInv, ReviewTypeOK
  <2>2. QED
    BY <1>4, <2>1 DEF ReviewInv, VisitsAreDated, Visit
<1>7. LateFindsDenial'
  BY <1>1, <1>2, <1>3, RowKept DEF ReviewInv, LateFindsDenial
<1>8. DecisionsStand'
  <2> SUFFICES ASSUME NEW d \in decisions
               PROVE  /\ d.key \in DOMAIN index'
                      /\ index'[d.key].receivedAt + EnvelopeRetention > d.at
                      /\ EventOf(d, "accepted") \/ d.at + IndexRetention <= now'
    BY <1>3 DEF ReviewInv, DecisionsStand, EventOf
  <2>1. d \in Decision
    BY DEF ReviewInv, ReviewTypeOK
  <2>2. d.at \in Nat
    BY <2>1 DEF Decision
  <2>3. QED
    BY <1>1, <1>2, <1>4, <2>2, RowKept, ConstantsAssumption DEF ReviewInv, DecisionsStand
<1>9. EventsAreTrue'
  BY <1>3 DEF ReviewInv, EventsAreTrue
<1>10. QED
  BY <1>5, <1>6, <1>7, <1>8, <1>9 DEF ReviewInv
\* The retention transaction spares rows with decisions, the events that are young
\* enough, and makes no visit late for a row it forgets.
LEMMA RetentionStep ==
    ASSUME IInv, IInv', ReviewInv, NEW t \in Tenants, PurgeMetadata(t)
    PROVE  ReviewInv'
<1>1. /\ DOMAIN index' = DOMAIN index \ ExpiredIndexes(t)
      /\ \A k \in DOMAIN index' : index'[k] = index[k]
      /\ UNCHANGED <<now, decisions>>
      /\ events' = events \ ExpiredEvents(t)
      /\ ExpiredIndexes(t) \cap Referenced = {}
  BY DEF PurgeMetadata, PurgeExpiredMetadata
<1>2. ASSUME NEW v \in Visits
      PROVE  /\ visit'[v] # Idle <=> visit[v] # Idle
             /\ visit[v] = Idle => visit'[v] = Idle
             /\ visit[v] # Idle =>
                  /\ visit'[v] \in Visit
                  /\ visit'[v].pc = visit[v].pc
                  /\ visit'[v].key = visit[v].key
                  /\ visit'[v].at = visit[v].at
                  /\ visit'[v].dated = visit[v].dated
                  /\ visit'[v].late =>
                       visit[v].late /\ visit[v].key \notin ExpiredIndexes(t)
  <2>1. visit'[v] = IF visit[v] # Idle /\ visit[v].key \in ExpiredIndexes(t)
                    THEN [visit[v] EXCEPT !.late = FALSE] ELSE visit[v]
    BY DEF PurgeMetadata, Forgets
  <2>2. visit[v] = Idle \/ visit[v] \in Visit
    BY DEF ReviewInv, ReviewTypeOK
  <2>3. CASE visit[v] = Idle
    BY <2>1, <2>3
  <2>4. CASE visit[v] # Idle
    <3> DEFINE x == visit[v]
               y == [x EXCEPT !.late = FALSE]
    <3>1. /\ y \in Visit
          /\ y.pc = x.pc /\ y.key = x.key /\ y.at = x.at /\ y.dated = x.dated /\ ~y.late
      BY <2>2, <2>4 DEF Visit
    <3>2. y # Idle
      <4>1. y.pc # "idle"
        BY <2>2, <2>4, <3>1 DEF Visit, OpenStates, EndStates
      <4>2. QED
        BY <4>1 DEF Idle
    <3>3. visit'[v] = IF x.key \in ExpiredIndexes(t) THEN y ELSE x
      BY <2>1, <2>4
    <3> HIDE DEF y
    <3>4. QED
      BY <2>2, <2>4, <3>1, <3>2, <3>3
  <2>5. QED
    BY <2>3, <2>4
<1>3. ReviewTypeOK'
  <2>1. visit' \in [Visits -> Visit \cup {Idle}]
    <3>1. visit' = [v \in Visits |-> visit'[v]]
      BY DEF PurgeMetadata, Forgets
    <3>2. \A v \in Visits : visit'[v] \in Visit \cup {Idle}
      BY <1>2
    <3>3. QED
      BY <3>1, <3>2
  <2>2. QED
    BY <1>1, <2>1 DEF ReviewInv, ReviewTypeOK
<1>4. VisitsAreDated'
  BY <1>1, <1>2 DEF ReviewInv, VisitsAreDated
<1>5. LateFindsDenial'
  BY <1>1, <1>2 DEF ReviewInv, LateFindsDenial, Denied
<1>6. DecisionsStand'
  <2> SUFFICES ASSUME NEW d \in decisions
               PROVE  /\ visit'[d.id] # Idle
                      /\ visit'[d.id].pc \in {"appended", "failed"}
                      /\ visit'[d.id].at = d.at
                      /\ d.key \in DOMAIN index'
                      /\ index'[d.key].receivedAt + EnvelopeRetention > d.at
                      /\ EventOf(d, "accepted")' \/ d.at + IndexRetention <= now
    BY <1>1 DEF DecisionsStand, EventOf
  <2>1. d \in Decision /\ d.id \in Visits /\ d.at \in Nat
    BY DEF ReviewInv, ReviewTypeOK, Decision
  <2>2. d.key \in DOMAIN index'
    BY <1>1 DEF Referenced, ReviewInv, DecisionsStand
  <2>3. ASSUME EventOf(d, "accepted"), ~EventOf(d, "accepted")'
        PROVE  d.at + IndexRetention <= now
    <3>1. PICK e \in events : e.visit = d.id /\ e.action = "decision-append" /\ e.outcome = "accepted"
      BY <2>3 DEF EventOf
    <3>2. e \in ExpiredEvents(t)
      BY <1>1, <2>3, <3>1 DEF EventOf
    <3>3. e.at + IndexRetention <= now
      BY <3>2 DEF ExpiredEvents
    <3>4. e.at >= d.at
      BY <3>1 DEF ReviewInv, EventsAreTrue, DecisionsStand
    <3>5. e.at \in Nat /\ now \in Nat
      BY DEF ReviewInv, ReviewTypeOK, AuditEvent, IInv, TypeOK
    <3>6. QED
      BY <2>1, <3>3, <3>4, <3>5, ConstantsAssumption
  <2>4. EventOf(d, "accepted")' \/ d.at + IndexRetention <= now
    BY <2>3 DEF ReviewInv, DecisionsStand
  <2>5. /\ visit'[d.id] # Idle
        /\ visit'[d.id].pc \in {"appended", "failed"}
        /\ visit'[d.id].at = d.at
    BY <1>2, <2>1 DEF ReviewInv, DecisionsStand
  <2>6. index'[d.key].receivedAt + EnvelopeRetention > d.at
    BY <1>1, <2>2 DEF ReviewInv, DecisionsStand
  <2>7. QED
    BY <2>2, <2>4, <2>5, <2>6
<1>7. EventsAreTrue'
  <2> SUFFICES ASSUME NEW e \in events, e.action = "decision-append"
               PROVE  /\ visit'[e.visit] # Idle
                      /\ visit'[e.visit].pc \in {"appended", "failed", "unavailable", "conflict"}
                      /\ e.outcome = "rejected" => visit'[e.visit].pc # "appended"
                      /\ e.outcome = "accepted" => /\ e.at >= visit'[e.visit].at
                                                   /\ \E d \in decisions : d.id = e.visit
    BY <1>1 DEF EventsAreTrue
  <2>1. e.visit \in Visits
    BY DEF ReviewInv, ReviewTypeOK, AuditEvent
  <2>2. QED
    BY <1>2, <2>1 DEF ReviewInv, EventsAreTrue
<1>8. QED
  BY <1>3, <1>4, <1>5, <1>6, <1>7 DEF ReviewInv
-----------------------------------------------------------------------------
(* The visit *)

\* The answer to #authorize opens the visit or ends it.
LEMMA ArriveStep ==
    ASSUME IInv, ReviewInv, NEW v \in Visits, NEW kind \in {"read", "append"}, NEW k \in Keys,
           Arrive(v, kind, k)
    PROVE  ReviewInv'
<1>1. PICK s \in {NoDecision} \cup (IF kind = "read" THEN {}
                                    ELSE {Unknown} \cup {d.id : d \in decisions}),
           authorized \in BOOLEAN :
        /\ visit' = [visit EXCEPT ![v] =
               [pc |-> IF authorized THEN "index" ELSE "denied", kind |-> kind, key |-> k,
                at |-> now, dated |-> now, supersedes |-> s,
                late |-> k \in DOMAIN index /\ Denied(k)]]
        /\ events' = IF authorized THEN events
                     ELSE Recorded(v, "authorization-deny", "rejected")
  BY DEF Arrive
<1>2. visit[v] = Idle /\ UNCHANGED <<vars, decisions>>
  BY DEF Arrive
<1> DEFINE y == [pc |-> IF authorized THEN "index" ELSE "denied", kind |-> kind, key |-> k,
                 at |-> now, dated |-> now, supersedes |-> s,
                 late |-> k \in DOMAIN index /\ Denied(k)]
<1>3. now \in Nat
  BY DEF IInv, TypeOK
<1>4. s \in Visits \cup {NoDecision, Unknown}
  BY DEF ReviewInv, ReviewTypeOK, Decision
<1>5. /\ y \in Visit
      /\ y.pc \in {"index", "denied"} /\ y.key = k /\ y.at = now /\ y.dated = now
      /\ y.late => k \in DOMAIN index /\ Denied(k)
  BY <1>3, <1>4 DEF Visit, OpenStates, EndStates
<1>6. visit \in [Visits -> Visit \cup {Idle}]
  BY DEF ReviewInv, ReviewTypeOK
<1> HIDE DEF y
<1>7. /\ visit' = [visit EXCEPT ![v] = y]
      /\ visit'[v] = y
      /\ \A w \in Visits : w # v => visit'[w] = visit[w]
      /\ visit' \in [Visits -> Visit \cup {Idle}]
  BY <1>1, <1>5, <1>6 DEF y
<1>8. /\ events \subseteq events'
      /\ \A e \in events' : e \in events \/ (e \in AuditEvent /\ e.action # "decision-append")
  <2> DEFINE e == Event(v, "authorization-deny", "rejected", now)
  <2>1. e \in AuditEvent /\ e.action # "decision-append"
    BY <1>3 DEF Event, AuditEvent
  <2>2. events' = events \/ events' = events \cup {e}
    BY <1>1 DEF Recorded
  <2> HIDE DEF e
  <2>3. QED
    BY <2>1, <2>2
<1>9. index' = index /\ now' = now /\ decisions' = decisions
  BY <1>2 DEF vars
<1>10. ReviewTypeOK'
  BY <1>7, <1>8, <1>9 DEF ReviewInv, ReviewTypeOK
<1>11. VisitsAreDated'
  BY <1>3, <1>5, <1>7, <1>9 DEF ReviewInv, VisitsAreDated
<1>12. LateFindsDenial'
  BY <1>5, <1>7, <1>9 DEF ReviewInv, LateFindsDenial, Denied
<1>13. DecisionsStand'
  BY <1>2, <1>7, <1>8, <1>9 DEF ReviewInv, ReviewTypeOK, Decision, DecisionsStand, EventOf
<1>14. EventsAreTrue'
  BY <1>2, <1>7, <1>8, <1>9 DEF ReviewInv, ReviewTypeOK, AuditEvent, EventsAreTrue
<1>15. QED
  BY <1>10, <1>11, <1>12, <1>13, <1>14 DEF ReviewInv

MovedTo(v, y) == visit' = [visit EXCEPT ![v] = y]

\* A visit under way moves on without a decision: it may end, and then records no more
\* than a rejection; it has not found its row denied unless it ends there.
LEMMA OpenStep ==
    ASSUME IInv, ReviewInv, NEW v \in Visits, visit[v].pc \in OpenStates,
           MovedTo(v, [visit[v] EXCEPT !.pc = visit'[v].pc, !.dated = visit'[v].dated]),
           visit'[v].pc \in (OpenStates \cup EndStates) \ {"denied", "appended"},
           visit'[v].dated \in {visit[v].dated, now},
           events \subseteq events',
           \A e \in events' \ events :
               /\ e \in AuditEvent
               /\ e.action = "decision-append" =>
                    /\ e.visit = v /\ e.outcome = "rejected"
                    /\ visit'[v].pc \in {"failed", "unavailable", "conflict"},
           visit[v].late => visit'[v].pc = "unavailable",
           UNCHANGED <<vars, decisions>>
    PROVE  ReviewInv'
<1> DEFINE x == visit[v]
           pc == visit'[v].pc
           dated == visit'[v].dated
           y == [x EXCEPT !.pc = pc, !.dated = dated]
<1>1. visit \in [Visits -> Visit \cup {Idle}] /\ now \in Nat
  BY DEF ReviewInv, ReviewTypeOK, IInv, TypeOK
<1>2. x \in Visit /\ x # Idle /\ x.at <= x.dated /\ x.dated <= now
  BY <1>1 DEF OpenStates, Idle, ReviewInv, VisitsAreDated
<1>3. x.dated \in Nat /\ x.at \in Nat
  BY <1>2 DEF Visit
<1>4. dated \in Nat /\ x.at <= dated /\ dated <= now
  BY <1>1, <1>2, <1>3
<1>5. /\ y \in Visit
      /\ y.pc = pc /\ y.key = x.key /\ y.at = x.at /\ y.dated = dated /\ y.late = x.late
  BY <1>2, <1>4 DEF Visit
<1>6. y # Idle
  BY <1>5 DEF Idle, OpenStates, EndStates
<1>7. visit' = [visit EXCEPT ![v] = y]
  BY DEF MovedTo
<1> HIDE DEF y
<1>8. /\ visit'[v] = y
      /\ \A w \in Visits : w # v => visit'[w] = visit[w]
      /\ visit' \in [Visits -> Visit \cup {Idle}]
  BY <1>1, <1>5, <1>7
<1>9. index' = index /\ now' = now /\ decisions' = decisions
  BY DEF vars
<1>10. ReviewTypeOK'
  BY <1>8, <1>9 DEF ReviewInv, ReviewTypeOK
<1>11. VisitsAreDated'
  BY <1>4, <1>5, <1>8, <1>9 DEF ReviewInv, VisitsAreDated
<1>12. LateFindsDenial'
  BY <1>2, <1>5, <1>8, <1>9 DEF ReviewInv, LateFindsDenial, Denied
<1>13. DecisionsStand'
  <2> SUFFICES ASSUME NEW d \in decisions
               PROVE  /\ visit'[d.id] = visit[d.id]
                      /\ EventOf(d, "accepted") => EventOf(d, "accepted")'
    BY <1>9 DEF ReviewInv, DecisionsStand
  <2>1. d.id \in Visits /\ visit[d.id].pc \in {"appended", "failed"}
    BY DEF ReviewInv, ReviewTypeOK, Decision, DecisionsStand
  <2>2. d.id # v
    BY <2>1 DEF OpenStates
  <2>3. QED
    BY <1>8, <2>1, <2>2 DEF EventOf
<1>14. EventsAreTrue'
  <2> SUFFICES ASSUME NEW e \in events', e.action = "decision-append"
               PROVE  /\ visit'[e.visit] # Idle
                      /\ visit'[e.visit].pc \in {"appended", "failed", "unavailable", "conflict"}
                      /\ e.outcome = "rejected" => visit'[e.visit].pc # "appended"
                      /\ e.outcome = "accepted" => /\ e.at >= visit'[e.visit].at
                                                   /\ \E d \in decisions : d.id = e.visit
    BY <1>9 DEF EventsAreTrue
  <2>1. CASE e \notin events
    BY <1>5, <1>6, <1>8, <2>1
  <2>2. CASE e \in events
    <3>1. e.visit \in Visits /\ visit[e.visit].pc \notin OpenStates
      BY <2>2 DEF ReviewInv, ReviewTypeOK, AuditEvent, EventsAreTrue, OpenStates
    <3>2. visit'[e.visit] = visit[e.visit]
      BY <1>8, <3>1
    <3>3. QED
      BY <2>2, <3>2 DEF ReviewInv, EventsAreTrue
  <2>3. QED
    BY <2>1, <2>2
<1>15. QED
  BY <1>10, <1>11, <1>12, <1>13, <1>14 DEF ReviewInv

\* What a move of the code changes, in the form OpenStep asks for.
LEMMA VisitMoved ==
    ASSUME ReviewInv, NEW v \in Visits, visit[v].pc \in OpenStates, NEW pc, VisitMoves(v, pc)
    PROVE  /\ MovedTo(v, [visit[v] EXCEPT !.pc = visit'[v].pc, !.dated = visit'[v].dated])
           /\ visit'[v].pc = pc
           /\ visit'[v].dated = visit[v].dated
<1> DEFINE x == visit[v]
           y == [x EXCEPT !.pc = pc]
<1>1. visit \in [Visits -> Visit \cup {Idle}] /\ x \in Visit
  BY DEF ReviewInv, ReviewTypeOK, Idle, OpenStates
<1>2. y.pc = pc /\ y.dated = x.dated /\ y = [x EXCEPT !.pc = pc, !.dated = x.dated]
  BY <1>1 DEF Visit
<1>3. visit' = [visit EXCEPT ![v] = y]
  BY DEF VisitMoves
<1> HIDE DEF y
<1>4. visit'[v] = y
  BY <1>1, <1>3
<1>5. QED
  BY <1>2, <1>3, <1>4 DEF MovedTo

\* A visit that is not late goes on, and the read is audited at its end.
LEMMA MovesStep ==
    ASSUME IInv, ReviewInv, NEW v \in Visits, visit[v].pc \in OpenStates,
           NEW pc \in {"select", "list", "fetch", "commit", "shown"},
           ~visit[v].late,
           UNCHANGED <<vars, decisions>>, VisitMoves(v, pc),
           events' = events \/ events' = Recorded(v, "evidence-read", "accepted")
    PROVE  ReviewInv'
<1>1. \A e \in events' \ events : e \in AuditEvent /\ e.action # "decision-append"
  <2>1. now \in Nat
    BY DEF IInv, TypeOK
  <2>2. Event(v, "evidence-read", "accepted", now) \in AuditEvent
    BY <2>1 DEF Event, AuditEvent
  <2>3. QED
    BY <2>2 DEF Recorded, Event
<1>2. events \subseteq events'
  BY DEF Recorded
<1>3. pc \in (OpenStates \cup EndStates) \ {"denied", "appended"}
  BY DEF OpenStates, EndStates
<1>4. QED
  BY <1>1, <1>2, <1>3, VisitMoved, OpenStep

\* A visit that ends on an error records a rejection, if it records anything.
LEMMA FailsStep ==
    ASSUME IInv, ReviewInv, NEW v \in Visits, visit[v].pc \in OpenStates,
           NEW pc \in {"failed", "unavailable", "conflict"},
           visit[v].late => pc = "unavailable",
           UNCHANGED <<vars, decisions>>, VisitFails(v, pc)
    PROVE  ReviewInv'
<1>1. \A e \in events' \ events : e \in AuditEvent /\ e.visit = v /\ e.outcome = "rejected"
  <2>1. now \in Nat
    BY DEF IInv, TypeOK
  <2>2. Event(v, ActionName(v), "rejected", now) \in AuditEvent
    BY <2>1 DEF Event, AuditEvent, ActionName
  <2>3. QED
    BY <2>2 DEF VisitFails, Recorded, Event
<1>2. events \subseteq events'
  BY DEF VisitFails, Recorded
<1>3. pc \in (OpenStates \cup EndStates) \ {"denied", "appended"}
  BY DEF EndStates
<1>4. VisitMoves(v, pc)
  BY DEF VisitFails
<1>5. QED
  BY <1>1, <1>2, <1>3, <1>4, VisitMoved, OpenStep
\* A row FOR SHARE that is not expired at the time of the visit was received within
\* the retention before.
LEMMA LiveRow ==
    ASSUME IInv, NEW k, NEW at \in Nat, Live(k, at)
    PROVE  /\ k \in DOMAIN index
           /\ ~Denied(k)
           /\ index[k].receivedAt + EnvelopeRetention > at
<1>1. k \in DOMAIN index /\ ~Denied(k) /\ ~ContentExpired(k, at)
  BY DEF Live
<1>2. index[k].receivedAt \in Nat
  BY <1>1 DEF IInv, TypeOK, Row
<1>3. QED
  BY <1>1, <1>2, ConstantsAssumption DEF ContentExpired

\* The transaction that commits adds a decision with its accepted event, and a
\* rejected one only beside a visit that failed.
LEMMA CommitStep ==
    ASSUME IInv, ReviewInv, NEW v \in Visits, visit[v].pc = "commit",
           Live(visit[v].key, visit[v].at),
           decisions' = Appended(v), UNCHANGED vars,
           \/ /\ VisitMoves(v, "appended")
              /\ events' = events \cup {AcceptedEvent(v)}
           \/ /\ VisitMoves(v, "failed")
              /\ events' = events \cup {AcceptedEvent(v), RejectedEvent(v)}
    PROVE  ReviewInv'
<1> DEFINE x == visit[v]
           accepted == AcceptedEvent(v)
           rejected == RejectedEvent(v)
<1>1. visit \in [Visits -> Visit \cup {Idle}] /\ now \in Nat
  BY DEF ReviewInv, ReviewTypeOK, IInv, TypeOK
<1>2. x \in Visit /\ x # Idle /\ x.at <= x.dated /\ x.dated <= now /\ ~x.late
  BY <1>1 DEF Idle, ReviewInv, VisitsAreDated, LateFindsDenial
<1>3. x.at \in Nat /\ x.dated \in Nat /\ x.key \in Keys
  BY <1>2 DEF Visit
<1>4. PICK pc \in {"appended", "failed"} :
        /\ VisitMoves(v, pc)
        /\ \/ events' = events \cup {accepted}
           \/ pc = "failed" /\ events' = events \cup {accepted, rejected}
  OBVIOUS
<1> DEFINE y == [x EXCEPT !.pc = pc]
<1>5. /\ y \in Visit
      /\ y.pc = pc /\ y.key = x.key /\ y.at = x.at /\ y.dated = x.dated /\ ~y.late
  BY <1>2 DEF Visit, EndStates
<1>6. y # Idle
  BY <1>5 DEF Idle
<1>7. visit' = [visit EXCEPT ![v] = y]
  BY <1>4 DEF VisitMoves
<1> HIDE DEF y
<1>8. /\ visit'[v] = y
      /\ \A w \in Visits : w # v => visit'[w] = visit[w]
      /\ visit' \in [Visits -> Visit \cup {Idle}]
  BY <1>1, <1>5, <1>7
<1>9. PICK new \in Decision : /\ new.id = v /\ new.key = x.key /\ new.at = x.at
                              /\ decisions' = decisions \cup {new}
  <2> DEFINE d == [id |-> v, key |-> x.key, at |-> x.at, supersedes |-> x.supersedes]
  <2>1. d \in Decision /\ d.id = v /\ d.key = x.key /\ d.at = x.at
    BY <1>2 DEF Visit, Decision
  <2>2. decisions' = decisions \cup {d}
    BY DEF Appended
  <2> HIDE DEF d
  <2>3. QED
    BY <2>1, <2>2
<1>10. index' = index /\ now' = now
  BY DEF vars
<1>11. /\ accepted \in AuditEvent /\ accepted.visit = v /\ accepted.action = "decision-append"
       /\ accepted.outcome = "accepted" /\ accepted.at = x.dated
       /\ rejected \in AuditEvent /\ rejected.visit = v /\ rejected.action = "decision-append"
       /\ rejected.outcome = "rejected"
  BY <1>1, <1>3 DEF AcceptedEvent, RejectedEvent, Event, AuditEvent
<1> HIDE DEF accepted, rejected
<1>12. /\ events \cup {accepted} \subseteq events'
       /\ \A e \in events' : e \in events \/ e = accepted \/ (e = rejected /\ pc = "failed")
  BY <1>4
<1>13. ReviewTypeOK'
  BY <1>8, <1>9, <1>10, <1>11, <1>12 DEF ReviewInv, ReviewTypeOK
<1>14. VisitsAreDated'
  BY <1>2, <1>5, <1>8, <1>9, <1>10 DEF ReviewInv, VisitsAreDated
<1>15. LateFindsDenial'
  BY <1>5, <1>8, <1>9, <1>10 DEF ReviewInv, LateFindsDenial, Denied
<1>16. DecisionsStand'
  <2>1. ASSUME NEW d \in decisions
        PROVE  /\ visit'[d.id] = visit[d.id]
               /\ EventOf(d, "accepted") => EventOf(d, "accepted")'
    <3>1. d.id \in Visits /\ visit[d.id].pc \in {"appended", "failed"}
      BY DEF ReviewInv, ReviewTypeOK, Decision, DecisionsStand
    <3>2. QED
      BY <1>8, <1>12, <3>1 DEF EventOf
  <2>2. EventOf(new, "accepted")'
    BY <1>9, <1>11, <1>12 DEF EventOf
  <2>3. x.key \in DOMAIN index /\ index[x.key].receivedAt + EnvelopeRetention > x.at
    BY <1>3, LiveRow
  <2>4. ASSUME NEW d \in decisions
        PROVE  /\ visit'[d.id] # Idle
               /\ visit'[d.id].pc \in {"appended", "failed"}
               /\ visit'[d.id].at = d.at
               /\ d.key \in DOMAIN index'
               /\ index'[d.key].receivedAt + EnvelopeRetention > d.at
               /\ EventOf(d, "accepted")' \/ d.at + IndexRetention <= now'
    BY <1>9, <1>10, <2>1 DEF ReviewInv, DecisionsStand
  <2>5. /\ visit'[new.id] # Idle
        /\ visit'[new.id].pc \in {"appended", "failed"}
        /\ visit'[new.id].at = new.at
        /\ new.key \in DOMAIN index'
        /\ index'[new.key].receivedAt + EnvelopeRetention > new.at
    BY <1>5, <1>6, <1>8, <1>9, <1>10, <2>3
  <2>6. QED
    BY <1>9, <2>2, <2>4, <2>5 DEF DecisionsStand
<1>17. EventsAreTrue'
  <2> SUFFICES ASSUME NEW e \in events', e.action = "decision-append"
               PROVE  /\ visit'[e.visit] # Idle
                      /\ visit'[e.visit].pc \in {"appended", "failed", "unavailable", "conflict"}
                      /\ e.outcome = "rejected" => visit'[e.visit].pc # "appended"
                      /\ e.outcome = "accepted" => /\ e.at >= visit'[e.visit].at
                                                   /\ \E d \in decisions' : d.id = e.visit
    BY DEF EventsAreTrue
  <2>1. CASE e = accepted
    BY <1>2, <1>3, <1>5, <1>6, <1>8, <1>9, <1>10, <1>11, <2>1
  <2>2. CASE e = rejected /\ pc = "failed"
    BY <1>5, <1>6, <1>8, <1>11, <2>2
  <2>3. CASE e \in events
    <3>1. e.visit \in Visits /\ visit[e.visit].pc # "commit"
      BY <2>3 DEF ReviewInv, ReviewTypeOK, AuditEvent, EventsAreTrue
    <3>2. visit'[e.visit] = visit[e.visit]
      BY <1>8, <3>1
    <3>3. QED
      BY <1>9, <2>3, <3>2 DEF ReviewInv, EventsAreTrue
  <2>4. QED
    BY <1>12, <2>1, <2>2, <2>3
<1>18. QED
  BY <1>13, <1>14, <1>15, <1>16, <1>17 DEF ReviewInv

\* Every step of a visit after its arrival.
LEMMA VisitStepKeeps ==
    ASSUME IInv, ReviewInv, NEW v \in Visits,
           LoadIndex(v) \/ SelectRow(v) \/ FetchObject(v) \/ ShowEvidence(v) \/ AppendDecision(v)
    PROVE  ReviewInv'
<1> USE DEF OpenStates
<1>1. visit[v].pc \in {"select", "fetch", "list", "commit"} => ~visit[v].late
  <2>1. visit[v].pc \in {"select", "fetch", "list", "commit"} => visit[v] # Idle
    BY DEF Idle
  <2>2. QED
    BY <2>1 DEF ReviewInv, LateFindsDenial
<1>2. CASE LoadIndex(v)
  <2>1. visit[v].pc = "index" /\ visit[v] # Idle
    BY <1>2 DEF LoadIndex, Idle
  <2>2. CASE VisitFails(v, "unavailable")
    BY <1>2, <2>1, <2>2, FailsStep DEF LoadIndex
  <2>3. CASE ~VisitFails(v, "unavailable")
    <3>1. VisitMoves(v, "select") /\ events' = events /\ ~Denied(visit[v].key)
      BY <1>2, <2>3 DEF LoadIndex
    <3>2. ~visit[v].late
      BY <2>1, <3>1 DEF ReviewInv, LateFindsDenial
    <3>3. QED
      BY <1>2, <2>1, <3>1, <3>2, MovesStep DEF LoadIndex
  <2>4. QED
    BY <2>2, <2>3
<1>3. CASE SelectRow(v)
  BY <1>1, <1>3, FailsStep, MovesStep DEF SelectRow
<1>4. CASE FetchObject(v)
  <2>1. visit[v].pc = "fetch" /\ UNCHANGED <<vars, decisions>>
    BY <1>4 DEF FetchObject
  <2>2. CASE VisitFails(v, "failed")
    BY <1>1, <2>1, <2>2, FailsStep
  <2>3. CASE ~VisitFails(v, "failed")
    <3> DEFINE x == visit[v]
               pc == IF x.kind = "read" THEN "list" ELSE "commit"
               y == [x EXCEPT !.pc = pc, !.dated = now]
    <3>1. visit \in [Visits -> Visit \cup {Idle}] /\ x \in Visit
      BY <2>1 DEF ReviewInv, ReviewTypeOK, Idle
    <3>2. y.pc = pc /\ y.dated = now /\ pc \in {"list", "commit"}
      BY <3>1 DEF Visit
    <3>3. visit' = [visit EXCEPT ![v] = y] /\ events' = events
      BY <1>4, <2>3 DEF FetchObject
    <3> HIDE DEF y, pc
    <3>4. visit'[v] = y
      BY <3>1, <3>3
    <3>5. MovedTo(v, [x EXCEPT !.pc = visit'[v].pc, !.dated = visit'[v].dated])
      BY <3>2, <3>3, <3>4 DEF MovedTo, y
    <3>6. QED
      BY <1>1, <2>1, <3>2, <3>3, <3>4, <3>5, OpenStep
  <2>4. QED
    BY <2>2, <2>3
<1>5. CASE ShowEvidence(v)
  BY <1>1, <1>5, FailsStep, MovesStep DEF ShowEvidence
<1>6. CASE AppendDecision(v)
  <2>1. visit[v].pc = "commit" /\ UNCHANGED vars
    BY <1>6 DEF AppendDecision
  <2>2. CASE Live(visit[v].key, visit[v].at) /\ PredecessorExists(v)
    BY <1>6, <2>1, <2>2, CommitStep DEF AppendDecision
  <2>3. CASE ~(Live(visit[v].key, visit[v].at) /\ PredecessorExists(v))
    BY <1>1, <1>6, <2>1, <2>3, FailsStep DEF AppendDecision
  <2>4. QED
    BY <2>2, <2>3
<1>7. QED
  BY <1>2, <1>3, <1>4, <1>5, <1>6
-----------------------------------------------------------------------------
(* The theorems *)

LEMMA ReviewInvHolds == ReviewInit => ReviewInv
<1> SUFFICES ASSUME ReviewInit PROVE ReviewInv
  OBVIOUS
<1> USE DEF ReviewInit
<1>1. ReviewTypeOK
  BY DEF ReviewTypeOK
<1>2. VisitsAreDated /\ LateFindsDenial
  BY DEF VisitsAreDated, LateFindsDenial
<1>3. DecisionsStand /\ EventsAreTrue
  BY DEF DecisionsStand, EventsAreTrue
<1>4. QED
  BY <1>1, <1>2, <1>3 DEF ReviewInv

LEMMA ReviewInvKept ==
    ASSUME IInv, IInv', ReviewInv, [ReviewNext]_allVars
    PROVE  ReviewInv'
<1>1. CASE PersistenceStep
  BY <1>1, BelowStep
<1>2. ASSUME NEW t \in Tenants, PurgeMetadata(t) PROVE ReviewInv'
  BY <1>2, RetentionStep
<1>3. ASSUME NEW v \in Visits, VisitStep(v) PROVE ReviewInv'
  BY <1>3, ArriveStep, VisitStepKeeps DEF VisitStep
<1>4. CASE UNCHANGED allVars
  BY <1>4 DEF allVars, vars, reviewVars, ReviewInv, ReviewTypeOK, VisitsAreDated,
     LateFindsDenial, Denied, DecisionsStand, EventOf, EventsAreTrue
<1>5. QED
  BY <1>1, <1>2, <1>3, <1>4 DEF ReviewNext

\* Whatever uploads, deletions and purges do beside them, visits, decisions and audit
\* events stay in the states that ReviewInv and the persistence's IInv describe.
THEOREM ReviewInvariant == ReviewSpec => [](IInv /\ ReviewInv)
<1>1. ReviewSpec => []IInv
  BY ReviewKeepsPersistence, InductiveInvariant, PTL
<1>2. IInv /\ IInv' /\ ReviewInv /\ [ReviewNext]_allVars => ReviewInv'
  BY ReviewInvKept
<1>3. QED
  BY <1>1, <1>2, ReviewInvHolds, PTL DEF ReviewSpec

\* A decision keeps the row it was made on, readable then, through every retention.
THEOREM DecisionStays == ReviewSpec => []DecisionKeepsItsRow
<1>1. ReviewInv => DecisionKeepsItsRow
  BY DEF ReviewInv, DecisionsStand, DecisionKeepsItsRow
<1>2. QED
  BY <1>1, ReviewInvariant, PTL

\* Of two reads of a denied row, neither shows its content to a visit that began
\* after the denial.
THEOREM DenialIsSeen == ReviewSpec => []NoContentAfterDenial
<1>1. ReviewInv => NoContentAfterDenial
  BY DEF ReviewInv, LateFindsDenial, NoContentAfterDenial
<1>2. QED
  BY <1>1, ReviewInvariant, PTL

\* Decisions and their audit events agree, up to a COMMIT that was not acknowledged
\* and events that retention has removed.
THEOREM AuditIsTrue == ReviewSpec => []AuditTellsTheTruth
<1>1. ReviewInv => AuditTellsTheTruth
  BY DEF ReviewInv, DecisionsStand, EventsAreTrue, EventOf, AuditTellsTheTruth
<1>2. QED
  BY <1>1, ReviewInvariant, PTL

\* The decisions as DecisionLog sees them.
EntryOf(d) == [id |-> d.id, evidence |-> d.key, supersedes |-> d.supersedes]

Entries == {EntryOf(d) : d \in decisions}

OpenEvidence == {k \in DOMAIN index : ~Denied(k) /\ ~Purged(k)}

\* A step of the persistence opens the evidence of the row it inserts, which no
\* decision is about, since decisions keep their rows, or it withdraws some.
LEMMA EvidenceStep ==
    ASSUME IInv, ReviewInv, [Next]_vars
    PROVE  \/ OpenEvidence' \in SUBSET OpenEvidence
           \/ \E k \in Keys : /\ k \notin OpenEvidence
                              /\ \A d \in decisions : d.key # k
                              /\ OpenEvidence' = OpenEvidence \cup {k}
<1>1. CASE DOMAIN index' \subseteq DOMAIN index
  <2> SUFFICES ASSUME NEW k \in DOMAIN index', ~Denied(k)', ~Purged(k)'
               PROVE  k \in OpenEvidence
    BY DEF OpenEvidence
  <2>1. k \in DOMAIN index
    BY <1>1
  <2>2. ~Denied(k)
    BY <2>1, RowKept
  <2>3. ~Purged(k)
    <3>1. CASE index'[k].purgedAt = index[k].purgedAt
      BY <3>1 DEF Purged
    <3>2. CASE \E p \in Purgers : purger[p].pc = "purging" /\ k \in purger[p].batch
      BY <3>2 DEF IInv, PurgeHoldsDenied
    <3>3. QED
      BY <2>1, <3>1, <3>2, RowStep DEF IInv
  <2>4. QED
    BY <2>1, <2>2, <2>3 DEF OpenEvidence
<1>2. ASSUME NEW u \in Requests, upload[u].pc = "inserting", Insert(u)
      PROVE  \E k \in Keys : /\ k \notin OpenEvidence
                             /\ \A d \in decisions : d.key # k
                             /\ OpenEvidence' = OpenEvidence \cup {k}
  <2>1. PICK n \in Keys : n = upload[u].key /\ n \notin DOMAIN index
    BY <1>2 DEF IInv, AbsentWhileStoring, StoringStates, TypeOK, Upload, Idle
  <2>2. /\ DOMAIN index' = DOMAIN index \cup {n}
        /\ \A k \in DOMAIN index : index'[k] = index[k]
        /\ index'[n].deniedAt = Null /\ index'[n].purgedAt = Null
    BY <1>2, <2>1 DEF Insert, NewRow
  <2>3. OpenEvidence' = OpenEvidence \cup {n}
    BY <2>1, <2>2 DEF OpenEvidence, Denied, Purged
  <2>4. n \notin OpenEvidence /\ \A d \in decisions : d.key # n
    BY <2>1 DEF OpenEvidence, ReviewInv, DecisionsStand
  <2>5. QED
    BY <2>3, <2>4
<1>3. QED
  BY <1>1, <1>2, IndexStep DEF IInv

\* A commit appends an entry of a visit that has none, about a row that is still
\* open to it; nothing else touches the log.
LEMMA LogStep ==
    ASSUME IInv, ReviewInv, [ReviewNext]_allVars
    PROVE  \/ Log!Next
           \/ Entries' = Entries /\ OpenEvidence' = OpenEvidence
<1>1. ASSUME NEW v \in Visits, AppendDecision(v), decisions' # decisions
      PROVE  Log!Next
  <2> DEFINE x == visit[v]
  <2>1. x.pc = "commit" /\ PredecessorExists(v) /\ decisions' = Appended(v)
    BY <1>1 DEF AppendDecision
  <2>2. x.key \in Keys
    BY <2>1 DEF ReviewInv, ReviewTypeOK, Idle, Visit
  <2>3. x.supersedes \in Visits \cup {NoDecision}
    BY <2>1 DEF PredecessorExists, DecisionsOn, ReviewInv, ReviewTypeOK, Decision
  <2>4. PICK new : /\ new.id = v /\ new.key = x.key /\ new.supersedes = x.supersedes
                   /\ decisions' = decisions \cup {new}
    BY <2>1 DEF Appended
  <2>5. PICK e : /\ e = EntryOf(new) /\ e \in Log!Entry
                 /\ e.id = v /\ e.evidence = x.key /\ e.supersedes = x.supersedes
    <3>1. /\ EntryOf(new).id = v
          /\ EntryOf(new).evidence = x.key
          /\ EntryOf(new).supersedes = x.supersedes
      BY <2>4 DEF EntryOf
    <3>2. EntryOf(new) \in Log!Entry
      BY <2>2, <2>3, <2>4 DEF EntryOf, Log!Entry
    <3>3. QED
      BY <3>1, <3>2
  <2>6. \A d \in decisions : /\ d.id # v
                             /\ EntryOf(d).id = d.id
                             /\ EntryOf(d).evidence = d.key
    BY <2>1 DEF ReviewInv, DecisionsStand, EntryOf
  <2>7. x.supersedes # NoDecision =>
            \E d \in decisions : d.key = x.key /\ d.id = x.supersedes
    BY <2>1 DEF PredecessorExists, DecisionsOn
  <2>8. /\ \A y \in Entries : y.id # e.id
        /\ e.supersedes # NoDecision =>
              \E y \in Entries : y.id = e.supersedes /\ y.evidence = e.evidence
        /\ Entries' = Entries \cup {e}
    <3>1. \A y \in Entries : y.id # e.id
      BY <2>5, <2>6 DEF Entries
    <3>2. e.supersedes # NoDecision =>
              \E y \in Entries : y.id = e.supersedes /\ y.evidence = e.evidence
      <4>1. \A d \in decisions : EntryOf(d) \in Entries /\ EntryOf(d).id = d.id
        BY <2>6 DEF Entries
      <4>2. QED
        BY <2>5, <2>6, <2>7, <4>1
    <3>3. Entries' = Entries \cup {e}
      BY <2>4, <2>5 DEF Entries
    <3>4. QED
      BY <3>1, <3>2, <3>3
  <2>9. e.evidence \in OpenEvidence /\ OpenEvidence' = OpenEvidence
    <3>1. Live(x.key, x.at) /\ index' = index
      BY <1>1 DEF AppendDecision, vars
    <3>2. QED
      BY <2>5, <3>1 DEF Live, OpenEvidence, Denied, Purged
  <2>10. Log!Append(e)
    BY <2>8, <2>9 DEF Log!Append, Entries, EntryOf, OpenEvidence
  <2>11. QED
    BY <2>5, <2>10 DEF Log!Next
<1>2. CASE decisions' = decisions
  <2>1. Entries' = Entries
    BY <1>2 DEF Entries
  <2>2. CASE OpenEvidence' \in SUBSET OpenEvidence
    <3>1. Log!Withdraw
      BY <2>1, <2>2 DEF Log!Withdraw, Entries, EntryOf, OpenEvidence
    <3>2. QED
      BY <3>1 DEF Log!Next
  <2>3. ASSUME NEW k \in Keys, k \notin OpenEvidence, \A d \in decisions : d.key # k,
               OpenEvidence' = OpenEvidence \cup {k}
        PROVE  Log!Next
    <3>1. k \notin {y.evidence : y \in Entries}
      BY <2>3 DEF Entries, EntryOf
    <3>2. Log!Open(k)
      BY <2>1, <2>3, <3>1 DEF Log!Open, Log!DecidedUpon, Entries, EntryOf, OpenEvidence
    <3>3. QED
      BY <3>2 DEF Log!Next
  <2>4. QED
    BY <2>2, <2>3, ReviewStepBelow, EvidenceStep
<1>3. decisions' = decisions \/ \E v \in Visits : AppendDecision(v)
  BY DEF ReviewNext, PersistenceStep, reviewVars, allVars, PurgeMetadata, VisitStep, Arrive,
     LoadIndex, SelectRow, FetchObject, ShowEvidence
<1>4. QED
  BY <1>1, <1>2, <1>3

\* The decisions are an append-only log about rows that were neither denied nor purged
\* when the decision was made, whose entries supersede earlier ones about the same
\* evidence; evidence decided upon is not stored again once it was withdrawn.
THEOREM LogIsImplemented == ReviewSpec => ImplementsDecisionLog
<1>1. ReviewInit => Log!Init
  BY DEF ReviewInit, Init, Log!Init
<1>2. IInv /\ ReviewInv /\ [ReviewNext]_allVars => [Log!Next]_<<Entries, OpenEvidence>>
  BY LogStep
<1>3. QED
  BY <1>1, <1>2, ReviewInvariant, PTL
     DEF ReviewSpec, ImplementsDecisionLog, Log!Spec, Entries, EntryOf, OpenEvidence
=============================================================================
