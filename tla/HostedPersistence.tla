-------------------------- MODULE HostedPersistence --------------------------
(***************************************************************************)
(* PostgresObjectHostedPersistence: an index of envelopes in PostgreSQL,   *)
(* their bytes in an object store, and no transaction that spans the two.  *)
(*                                                                         *)
(* An upload is a process: it takes the advisory lock of its repository,   *)
(* looks for an existing row, measures the quotas, puts the object and     *)
(* inserts the row when its transaction commits.  Each statement that can  *)
(* be interleaved with another transaction or with the object store is an  *)
(* action.  The primary purge is a process too, because it deletes objects *)
(* one by one before its transaction commits; the other maintenance        *)
(* operations touch only the database and are one action each.             *)
(***************************************************************************)
EXTENDS Integers, FiniteSets, FiniteSetsExt

CONSTANTS
    Tenants,
    Repos,
    TenantOf,            \* the tenant each repository belongs to
    Digests,             \* content addresses; equal digests mean equal bytes
    Size,                \* the byte length of the content of each digest
    Requests,            \* upload requests
    Purgers,             \* runs of the primary purge
    DailyUploadLimit,    \* HOSTED_DAILY_UPLOAD_LIMIT
    TenantStorageLimit,  \* HOSTED_TENANT_STORAGE_LIMIT_BYTES
    EnvelopeRetention,   \* HOSTED_ENVELOPE_RETENTION_DAYS
    IndexRetention,      \* HOSTED_INDEX_RETENTION_DAYS
    PrimaryPurgeDelay,   \* HOSTED_PRIMARY_PURGE_HOURS
    DayLength,           \* clock units in a UTC day
    BatchLimit,          \* rows one maintenance call takes (input.limit ?? 100)
    MaxTime,             \* bound: the clock stops here
    Faults               \* the failures the environment may inject

FaultKinds == {"abort", "rollback", "ambiguous", "put", "crash", "purge"}

ASSUME ConstantsAssumption ==
    /\ TenantOf \in [Repos -> Tenants]
    /\ Size \in [Digests -> Nat \ {0}]
    /\ DailyUploadLimit \in Nat
    /\ TenantStorageLimit \in Nat
    /\ EnvelopeRetention \in Nat \ {0}
    /\ IndexRetention \in Nat
    /\ EnvelopeRetention <= IndexRetention
    /\ PrimaryPurgeDelay \in Nat
    /\ DayLength \in Nat \ {0}
    /\ BatchLimit \in Nat \ {0}
    /\ MaxTime \in Nat
    /\ Faults \subseteq FaultKinds

VARIABLES
    now,         \* the clock every caller reads for receivedAt or now
    index,       \* hosted_envelopes: committed rows by key
    tombstones,  \* hosted_deletion_tombstones
    objects,     \* keys present in the object store
    upload,      \* where each upload request stands
    purger       \* where each run of the primary purge stands

vars == <<now, index, tombstones, objects, upload, purger>>

-----------------------------------------------------------------------------
(* Values *)

\* UNIQUE (tenant_id, repository_id, digest), and objectKey(repository, digest).
Keys == [repo : Repos, digest : Digests]

TenantOfKey(k) == TenantOf[k.repo]

Null == -1
NullableTime == Nat \cup {Null}

Row == [receivedAt : Nat,
        deniedAt   : NullableTime,    \* read_denied_at
        purgeDueAt : NullableTime,    \* primary_purge_due_at
        purgedAt   : NullableTime]    \* content_purged_at

Idle == [pc |-> "idle"]

TxnStates == {"verifying", "measuring", "admitted", "confirming", "inserting"}
\* How a request ends: the three results of ingest, an error, or a dead process.
Answers == {"stored", "duplicate", "limited", "failed", "crashed"}

Upload == [pc : TxnStates \cup Answers \cup {"queued", "cleanup"},
           key : Keys,
           receivedAt : Nat,
           created : BOOLEAN]         \* createdObject

Purge == [pc : {"purging"}, at : Nat, batch : SUBSET Keys, left : SUBSET Keys]

Tombstone == [key : Keys, requestedAt : Nat]

TypeOK ==
    /\ now \in Nat
    /\ DOMAIN index \subseteq Keys
    /\ index \in [DOMAIN index -> Row]
    /\ tombstones \subseteq Tombstone
    /\ objects \subseteq Keys
    /\ upload \in [Requests -> Upload \cup {Idle}]
    /\ purger \in [Purgers -> Purge \cup {Idle}]

-----------------------------------------------------------------------------
(* What the SQL statements read *)

Denied(k) == index[k].deniedAt # Null
Purged(k) == index[k].purgedAt # Null
ContentExpired(k, t) == index[k].receivedAt + EnvelopeRetention <= t

RowsOfTenant(t) == {k \in DOMAIN index : TenantOfKey(k) = t}

\* The WHERE clause of read: a row a client may fetch the content of.
Accessible(k) ==
    /\ k \in DOMAIN index
    /\ ~Denied(k)
    /\ ~Purged(k)
    /\ ~ContentExpired(k, now)

DayStart(t) == t - (t % DayLength)

UploadsSince(r, t) ==
    {k \in DOMAIN index : k.repo = r /\ index[k].receivedAt >= t}

KeySize(k) == Size[k.digest]

StoredBytes(t) == MapThenSumSet(KeySize, {k \in RowsOfTenant(t) : ~Purged(k)})

\* A transaction that has passed pg_advisory_xact_lock and not ended.
InTxn(u) == upload[u].pc \in TxnStates

LockFree(r) == \A u \in Requests : InTxn(u) => upload[u].key.repo # r

\* Rows a run of the purge holds FOR UPDATE.
RowLocked(k) == \E p \in Purgers : purger[p].pc = "purging" /\ k \in purger[p].batch

\* ORDER BY <due>, id LIMIT <limit> over the rows in the domain of due: the
\* earliest ones, ties broken anyhow.
Batches(due) ==
    {B \in SUBSET DOMAIN due :
        /\ Cardinality(B) = (IF Cardinality(DOMAIN due) < BatchLimit
                             THEN Cardinality(DOMAIN due) ELSE BatchLimit)
        /\ \A b \in B, d \in DOMAIN due \ B : due[b] <= due[d]}

-----------------------------------------------------------------------------
Init ==
    /\ now = 0
    /\ index = [k \in {} |-> Null]
    /\ tombstones = {}
    /\ objects = {}
    /\ upload = [u \in Requests |-> Idle]
    /\ purger = [p \in Purgers |-> Idle]

Tick ==
    /\ now < MaxTime
    /\ now' = now + 1
    /\ UNCHANGED <<index, tombstones, objects, upload, purger>>

-----------------------------------------------------------------------------
(* ingest *)

GoTo(u, state) == upload' = [upload EXCEPT ![u].pc = state]

\* Seeded fault: the upload is stamped with a time before the epoch of the clock.
BeginBackdated(u, k) ==
    /\ upload[u] = Idle
    /\ upload' = [upload EXCEPT ![u] = [pc |-> "queued", key |-> k,
                                        receivedAt |-> now - 1, created |-> FALSE]]
    /\ UNCHANGED <<now, index, tombstones, objects, purger>>

\* The control plane stamps receivedAt and calls ingest, which queues for the
\* advisory lock of the repository.
Begin(u, k) ==
    /\ upload[u] = Idle
    /\ upload' = [upload EXCEPT ![u] = [pc |-> "queued", key |-> k,
                                        receivedAt |-> now, created |-> FALSE]]
    /\ UNCHANGED <<now, index, tombstones, objects, purger>>

\* The lock is granted and the row of the key is selected.
LockAndSelect(u) ==
    /\ upload[u].pc = "queued"
    /\ LockFree(upload[u].key.repo)
    /\ GoTo(u, IF upload[u].key \in DOMAIN index THEN "verifying" ELSE "measuring")
    /\ UNCHANGED <<now, index, tombstones, objects, purger>>

\* Seeded fault: a missing object is waited for instead of reported.
VerifyDuplicateWaits(u) ==
    /\ upload[u].pc = "verifying"
    /\ upload[u].key \in objects
    /\ GoTo(u, "duplicate")
    /\ UNCHANGED <<now, index, tombstones, objects, purger>>

\* A row exists: its object must still be there, else the upload throws.
VerifyDuplicate(u) ==
    /\ upload[u].pc = "verifying"
    /\ GoTo(u, IF upload[u].key \in objects THEN "duplicate" ELSE "failed")
    /\ UNCHANGED <<now, index, tombstones, objects, purger>>

\* Seeded faults: the daily count is compared with <=, and the size of the new
\* envelope is left out of the storage sum.
WithinQuotaOffByOne(k, receivedAt) ==
    /\ Cardinality(UploadsSince(k.repo, DayStart(receivedAt))) <= DailyUploadLimit
    /\ StoredBytes(TenantOfKey(k)) + KeySize(k) <= TenantStorageLimit

WithinQuotaWithoutNew(k, receivedAt) ==
    /\ Cardinality(UploadsSince(k.repo, DayStart(receivedAt))) < DailyUploadLimit
    /\ StoredBytes(TenantOfKey(k)) <= TenantStorageLimit

\* No row exists: the daily count of the repository and the bytes of the tenant.
WithinQuota(k, receivedAt) ==
    /\ Cardinality(UploadsSince(k.repo, DayStart(receivedAt))) < DailyUploadLimit
    /\ StoredBytes(TenantOfKey(k)) + KeySize(k) <= TenantStorageLimit

\* Seeded fault: the row is inserted before the object is put.
MeasureThenInsert(u) ==
    /\ upload[u].pc = "measuring"
    /\ GoTo(u, IF WithinQuota(upload[u].key, upload[u].receivedAt)
               THEN "inserting" ELSE "limited")
    /\ UNCHANGED <<now, index, tombstones, objects, purger>>

MeasureQuota(u) ==
    /\ upload[u].pc = "measuring"
    /\ GoTo(u, IF WithinQuota(upload[u].key, upload[u].receivedAt)
               THEN "admitted" ELSE "limited")
    /\ UNCHANGED <<now, index, tombstones, objects, purger>>

\* putIfAbsent remembers whether this upload created the object; an object
\* that was there already is fetched and compared first.
PutObject(u) ==
    /\ upload[u].pc = "admitted"
    /\ LET absent == upload[u].key \notin objects IN
       upload' = [upload EXCEPT ![u].pc = IF absent THEN "inserting" ELSE "confirming",
                                ![u].created = absent]
    /\ objects' = objects \cup {upload[u].key}
    /\ UNCHANGED <<now, index, tombstones, purger>>

ConfirmObject(u) ==
    /\ upload[u].pc = "confirming"
    /\ GoTo(u, IF upload[u].key \in objects THEN "inserting" ELSE "failed")
    /\ UNCHANGED <<now, index, tombstones, objects, purger>>

NewRow(u) == [receivedAt |-> upload[u].receivedAt, deniedAt |-> Null,
              purgeDueAt |-> Null, purgedAt |-> Null]

Insert(u) ==
    index' = [k \in DOMAIN index \cup {upload[u].key} |->
                 IF k = upload[u].key THEN NewRow(u) ELSE index[k]]

\* INSERT ... RETURNING, the accepted audit event and the commit.
InsertAndCommit(u) ==
    /\ upload[u].pc = "inserting"
    /\ Insert(u)
    /\ GoTo(u, "stored")
    /\ UNCHANGED <<now, tombstones, objects, purger>>

\* The catch block, reached after the transaction has ended and released its
\* lock: an object this upload created is deleted, the error is rethrown.
Cleanup(u) ==
    /\ upload[u].pc = "cleanup"
    /\ objects' = objects \ {upload[u].key}
    /\ GoTo(u, "failed")
    /\ UNCHANGED <<now, index, tombstones, purger>>

-----------------------------------------------------------------------------
(* How an upload can go wrong *)

\* A statement fails before the upload has created an object.
Abort(u) ==
    /\ "abort" \in Faults
    /\ InTxn(u)
    /\ ~upload[u].created
    /\ GoTo(u, "failed")
    /\ UNCHANGED <<now, index, tombstones, objects, purger>>

\* A later statement or the commit fails: the lock goes with the transaction.
Rollback(u) ==
    /\ "rollback" \in Faults
    /\ InTxn(u)
    /\ upload[u].created
    /\ GoTo(u, "cleanup")
    /\ UNCHANGED <<now, index, tombstones, objects, purger>>

\* The commit takes effect but is reported as an error.
AmbiguousCommit(u) ==
    /\ "ambiguous" \in Faults
    /\ upload[u].pc = "inserting"
    /\ Insert(u)
    /\ GoTo(u, IF upload[u].created THEN "cleanup" ELSE "failed")
    /\ UNCHANGED <<now, tombstones, objects, purger>>

\* The object store keeps the bytes but the put rejects: createdObject stays
\* false and nothing deletes the object.
PutFails(u) ==
    /\ "put" \in Faults
    /\ upload[u].pc = "admitted"
    /\ objects' = objects \cup {upload[u].key}
    /\ GoTo(u, "failed")
    /\ UNCHANGED <<now, index, tombstones, purger>>

\* The process dies; the database drops its transaction and its lock.
Crash(u) ==
    /\ "crash" \in Faults
    /\ upload[u].pc \in TxnStates \cup {"queued", "cleanup"}
    /\ GoTo(u, "crashed")
    /\ UNCHANGED <<now, index, tombstones, objects, purger>>

-----------------------------------------------------------------------------
(* Deletion and retention *)

Deny(K) ==
    index' = [k \in DOMAIN index |->
                 IF k \in K
                 THEN [index[k] EXCEPT !.deniedAt = now,
                                       !.purgeDueAt = now + PrimaryPurgeDelay]
                 ELSE index[k]]

\* scheduleDeletion of a row that is not denied yet, under the advisory lock.
\* (For a missing or a denied row the call changes nothing.)
ScheduleDeletion(k) ==
    /\ k \in DOMAIN index
    /\ LockFree(k.repo)
    /\ ~Denied(k)
    /\ Deny({k})
    /\ tombstones' = tombstones \cup {[key |-> k, requestedAt |-> now]}
    /\ UNCHANGED <<now, objects, upload, purger>>

\* scheduleExpired: content past its retention is denied; no tombstone.
ScheduleExpired(t) ==
    LET expired == {k \in RowsOfTenant(t) :
                       /\ ContentExpired(k, now)
                       /\ ~Denied(k)
                       /\ ~RowLocked(k)}
        expiresAt == [k \in expired |-> index[k].receivedAt + EnvelopeRetention]
    IN /\ expired # {}
       /\ \E B \in Batches(expiresAt) : Deny(B)
       /\ UNCHANGED <<now, tombstones, objects, upload, purger>>

\* Seeded fault: the purge does not ask whether the row is denied.
DueWithoutDenial(t) ==
    {k \in RowsOfTenant(t) : ~Purged(k) /\ index[k].purgeDueAt <= now /\ ~RowLocked(k)}

\* Seeded fault: rows whose content is purged are selected again, before the others.
DueOnceMore(t) ==
    {k \in RowsOfTenant(t) : Denied(k) /\ index[k].purgeDueAt <= now /\ ~RowLocked(k)}

\* purgePrimary: the due rows that no other run has locked.
DueForPurge(t) ==
    {k \in RowsOfTenant(t) :
        /\ Denied(k)
        /\ ~Purged(k)
        /\ index[k].purgeDueAt <= now
        /\ ~RowLocked(k)}

PurgeBegin(p, t) ==
    /\ purger[p] = Idle
    /\ DueForPurge(t) # {}
    /\ \E B \in Batches([k \in DueForPurge(t) |-> index[k].purgeDueAt]) :
           purger' = [purger EXCEPT ![p] = [pc |-> "purging", at |-> now,
                                            batch |-> B, left |-> B]]
    /\ UNCHANGED <<now, index, tombstones, objects, upload>>

\* One row of the batch: its object is deleted at once, its row only with the
\* commit.
PurgeObject(p) ==
    /\ purger[p].pc = "purging"
    /\ \E k \in purger[p].left :
           /\ objects' = objects \ {k}
           /\ purger' = [purger EXCEPT ![p].left = @ \ {k}]
    /\ UNCHANGED <<now, index, tombstones, upload>>

\* Seeded fault: the rows are marked while objects remain to be deleted.
PurgeCommitEarly(p) ==
    /\ purger[p].pc = "purging"
    /\ index' = [k \in DOMAIN index |->
                    IF k \in purger[p].batch
                    THEN [index[k] EXCEPT !.purgedAt = purger[p].at]
                    ELSE index[k]]
    /\ purger' = [purger EXCEPT ![p] = Idle]
    /\ UNCHANGED <<now, tombstones, objects, upload>>

PurgeCommit(p) ==
    /\ purger[p].pc = "purging"
    /\ purger[p].left = {}
    /\ index' = [k \in DOMAIN index |->
                    IF k \in purger[p].batch
                    THEN [index[k] EXCEPT !.purgedAt = purger[p].at]
                    ELSE index[k]]
    /\ purger' = [purger EXCEPT ![p] = Idle]
    /\ UNCHANGED <<now, tombstones, objects, upload>>

\* The run fails or dies: the rows are as before, the deleted objects are not.
PurgeFails(p) ==
    /\ "purge" \in Faults
    /\ purger[p].pc = "purging"
    /\ purger' = [purger EXCEPT ![p] = Idle]
    /\ UNCHANGED <<now, index, tombstones, objects, upload>>

\* purgeExpiredMetadata: one retention transaction. referenced is the set of
\* keys that a row of another table still points to; the database refuses to
\* delete such a row, and with it the whole transaction.
\* Seeded faults: purged rows are dropped at once, and tombstones are kept no
\* longer than the content.
PurgedIndexes(t) == {k \in RowsOfTenant(t) : Purged(k)}

ExpiredIndexes(t) ==
    {k \in RowsOfTenant(t) : Purged(k) /\ index[k].receivedAt + IndexRetention <= now}

ExpiredTombstones(t) ==
    {x \in tombstones : TenantOfKey(x.key) = t /\ x.requestedAt + IndexRetention <= now}

PurgeExpiredMetadata(t, referenced) ==
    /\ ExpiredIndexes(t) \cap referenced = {}
    /\ index' = [k \in DOMAIN index \ ExpiredIndexes(t) |-> index[k]]
    /\ tombstones' = tombstones \ ExpiredTombstones(t)
    /\ UNCHANGED <<now, objects, upload, purger>>

-----------------------------------------------------------------------------
UploadStep(u) ==
    \/ LockAndSelect(u)
    \/ VerifyDuplicate(u)
    \/ MeasureQuota(u)
    \/ PutObject(u)
    \/ ConfirmObject(u)
    \/ InsertAndCommit(u)
    \/ Cleanup(u)

UploadFault(u) ==
    \/ Abort(u)
    \/ Rollback(u)
    \/ AmbiguousCommit(u)
    \/ PutFails(u)
    \/ Crash(u)

PurgeStep(p) ==
    \/ \E t \in Tenants : PurgeBegin(p, t)
    \/ PurgeObject(p)
    \/ PurgeCommit(p)

Maintenance ==
    \/ \E k \in Keys : ScheduleDeletion(k)
    \/ \E t \in Tenants : ScheduleExpired(t)
    \/ \E t \in Tenants : PurgeExpiredMetadata(t, {})

Next ==
    \/ Tick
    \/ \E u \in Requests : \/ \E k \in Keys : Begin(u, k)
                            \/ UploadStep(u)
                            \/ UploadFault(u)
    \/ \E p \in Purgers : PurgeStep(p) \/ PurgeFails(p)
    \/ Maintenance

Spec == Init /\ [][Next]_vars

\* A request that is being served is not abandoned, a lock request is granted
\* in time (PostgreSQL queues waiters), and whoever operates the control plane
\* keeps running the primary purge until a run gets through.
Fairness ==
    /\ \A u \in Requests : SF_vars(UploadStep(u))
    /\ \A p \in Purgers : WF_vars(\E t \in Tenants : PurgeBegin(p, t))
    /\ \A p \in Purgers : SF_vars(PurgeObject(p)) /\ SF_vars(PurgeCommit(p))

FairSpec == Spec /\ Fairness

-----------------------------------------------------------------------------
(* Safety *)

\* read throws "hosted object is missing for an accessible index": that must
\* not happen, nor may a repeated upload of a live envelope be refused because
\* its object is missing. Every indexed envelope whose deletion nobody
\* requested has its bytes, whatever uploads, purges and crashes are in flight.
LiveIndexHasObject ==
    \A k \in DOMAIN index : ~Denied(k) => k \in objects

\* Purged content does not come back: once purgePrimary has recorded that an
\* envelope's content is gone, no upload of the same digest, no retry and no
\* late cleanup leaves bytes under its key.
PurgedContentIsGone ==
    \A k \in DOMAIN index : Purged(k) => Denied(k) /\ k \notin objects

\* The daily quota counts committed rows under the lock of the repository: no
\* interleaving of uploads, and no upload that waits past midnight, puts more
\* than the limit into one UTC day of a repository.
DailyUploadBound ==
    \A k \in DOMAIN index :
        Cardinality({j \in DOMAIN index :
                        /\ j.repo = k.repo
                        /\ DayStart(index[j].receivedAt) = DayStart(index[k].receivedAt)})
            <= DailyUploadLimit

\* What the code guarantees instead: the lock is per repository, so each other
\* repository of the tenant can have one admitted upload in flight, and the
\* quota is overshot by at most one envelope for each of them.
ReposOf(t) == {r \in Repos : TenantOf[r] = t}

LargestSize == CHOOSE s \in {Size[d] : d \in Digests} :
                   \A d \in Digests : Size[d] <= s

StorageOvershootBound ==
    \A t \in {TenantOf[r] : r \in Repos} :
        StoredBytes(t) <= TenantStorageLimit
                          + (Cardinality(ReposOf(t)) - 1) * LargestSize

\* A receipt that said "stored" stays true: the row with that receivedAt is in
\* the index until the index retention ends.
ReceiptIsDurable ==
    \A u \in Requests :
        upload[u].pc = "stored" =>
            \/ /\ upload[u].key \in DOMAIN index
               /\ index[upload[u].key].receivedAt = upload[u].receivedAt
            \/ upload[u].receivedAt + IndexRetention <= now

-----------------------------------------------------------------------------
(* Liveness, under FairSpec *)

\* Every request is answered, or its process died: nobody waits for ever for
\* the advisory lock of a repository.
UploadIsAnswered ==
    \A u \in Requests :
        upload[u].pc = "queued" ~> upload[u].pc \in Answers

\* Content whose purge is due is purged, however often a run of the purge
\* fails after it has deleted the object.
DueContentIsPurged ==
    \A k \in Keys :
        (k \in DOMAIN index /\ Denied(k) /\ index[k].purgeDueAt <= now)
            ~> (k \in DOMAIN index => Purged(k))

-----------------------------------------------------------------------------
(* Refinement: an envelope is readable in the sense of EvidenceStore when a  *)
(* client would find its row accessible and its bytes in the object store.   *)

Store == INSTANCE EvidenceStore WITH
    readable  <- {k \in DOMAIN index : Accessible(k) /\ k \in objects},
    withdrawn <- {k \in DOMAIN index : ~Accessible(k)}

ImplementsEvidenceStore == Store!Spec
=============================================================================
