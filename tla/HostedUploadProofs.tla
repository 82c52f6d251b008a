-------------------------- MODULE HostedUploadProofs --------------------------
(***************************************************************************)
(* Theorems about HostedUpload, for any number of uploads and keys, any     *)
(* life of the cache, of tokens and of a fetch, and any change of facts.    *)
(*                                                                          *)
(* Two arguments run through the steps between which others may come.  A    *)
(* key of the cache was published when its fetch was answered, at most the  *)
(* timeout of a fetch before it was installed.  And whatever stands while   *)
(* a request is served is recorded as having stood since it arrived, so     *)
(* that each call that is answered as expected finds it recorded.           *)
(***************************************************************************)
EXTENDS HostedUpload, TLAPS

Waiting == {"fetching", "fetched", "lookup"}

PCs == {"new", "signed"} \cup Waiting \cup {"provider", "store", "answered", "synced", "failed"}

AllChecks ==
    HandlerChecks \cup ByteChecks \cup HeaderChecks \cup TokenChecks \cup IdentityChecks
    \cup SourceChecks

Statuses == {0, 201, 401, 403, 409, 429} \cup {c.status : c \in AllChecks}

SyncRecord ==
    [pc : PCs,
     flaw : {None} \cup Flaws, kid : KeyIds \cup {None}, expires : Nat, stood : SUBSET (1..5),
     since : Nat, fetched : SUBSET KeyIds, call : Nat, status : Statuses]

TypeOK ==
    /\ now \in Nat
    /\ keyLife \in [KeyIds -> [from : Nat, to : Nat]]
    /\ standing \in SUBSET Facts
    /\ cache \in [keys : SUBSET KeyIds, until : Nat]
    /\ sync \in [Syncs -> SyncRecord]
    /\ stored \in SUBSET Syncs

\* A fetch takes no longer than its timeout, and a key it brought was published
\* when it was answered.
FetchInv ==
    \A s \in Syncs :
        /\ sync[s].pc \in {"fetching", "fetched"} =>
              sync[s].since <= now /\ now <= sync[s].since + FetchLimit
        /\ sync[s].pc = "fetched" =>
              \A k \in sync[s].fetched : keyLife[k].to >= sync[s].since

\* The end of the cache bounds the age of every key in it.
CacheInv ==
    /\ cache.until <= now + CacheLife
    /\ \A k \in cache.keys : keyLife[k].to + CacheLife + FetchLimit >= cache.until

\* No upload looks a key up in a cache that is over.
LookupInv ==
    \A s \in Syncs : sync[s].pc = "lookup" => now <= cache.until

FlawsOf(checks) == {c.flaw : c \in checks}

\* What has not been checked yet is all that may be wrong.
FlawInv ==
    \A s \in Syncs :
        /\ sync[s].pc \in Waiting =>
              sync[s].flaw \in {None} \cup FlawsOf(TokenChecks \cup IdentityChecks \cup SourceChecks)
        /\ sync[s].pc \in {"provider", "store"} =>
              sync[s].flaw \in {None} \cup FlawsOf(SourceChecks)

Served == Waiting \cup {"provider", "store"}

\* What stands now is recorded, and so is what the calls answered so far have asked for.
StandingInv ==
    \A s \in Syncs :
        /\ sync[s].pc \in Served => Borne(standing) \subseteq sync[s].stood
        /\ sync[s].pc = "provider" =>
              sync[s].call \in 1..5 /\ 1..(sync[s].call - 1) \subseteq sync[s].stood
        /\ sync[s].pc = "store" => 1..5 \subseteq sync[s].stood

UploadInv == TypeOK /\ FetchInv /\ CacheInv /\ LookupInv /\ FlawInv /\ StandingInv

-----------------------------------------------------------------------------
\* A change of one field, and so one of several, leaves a record of its type.
LEMMA FieldTypes ==
  ASSUME NEW x \in SyncRecord
  PROVE  /\ \A pc \in PCs : [x EXCEPT !.pc = pc] \in SyncRecord
         /\ \A f \in {None} \cup Flaws : [x EXCEPT !.flaw = f] \in SyncRecord
         /\ \A k \in KeyIds : [x EXCEPT !.kid = k] \in SyncRecord
         /\ \A N \in SUBSET (1..5) : [x EXCEPT !.stood = N] \in SyncRecord
         /\ \A n \in Nat : /\ [x EXCEPT !.expires = n] \in SyncRecord
                           /\ [x EXCEPT !.since = n] \in SyncRecord
                           /\ [x EXCEPT !.call = n] \in SyncRecord
         /\ \A K \in SUBSET KeyIds : [x EXCEPT !.fetched = K] \in SyncRecord
<1>1. \A pc \in PCs : [x EXCEPT !.pc = pc] \in SyncRecord
  BY DEF SyncRecord, PCs
<1>2. \A f \in {None} \cup Flaws : [x EXCEPT !.flaw = f] \in SyncRecord
  BY DEF SyncRecord
<1>3. \A k \in KeyIds : [x EXCEPT !.kid = k] \in SyncRecord
  BY DEF SyncRecord
<1>4. \A N \in SUBSET (1..5) : [x EXCEPT !.stood = N] \in SyncRecord
  BY DEF SyncRecord
<1>5. \A n \in Nat : /\ [x EXCEPT !.expires = n] \in SyncRecord
                           /\ [x EXCEPT !.since = n] \in SyncRecord
                           /\ [x EXCEPT !.call = n] \in SyncRecord
  BY DEF SyncRecord
<1>6. \A K \in SUBSET KeyIds : [x EXCEPT !.fetched = K] \in SyncRecord
  BY DEF SyncRecord
<1>7. QED
  BY <1>1, <1>2, <1>3, <1>4, <1>5, <1>6

\* The same in the record of an upload.
LEMMA FieldSteps ==
    ASSUME NEW f \in [Syncs -> SyncRecord], NEW s \in Syncs
    PROVE  /\ \A pc \in PCs : [f EXCEPT ![s].pc = pc] \in [Syncs -> SyncRecord]
           /\ \A k \in KeyIds : [f EXCEPT ![s].kid = k] \in [Syncs -> SyncRecord]
           /\ \A n \in Nat : [f EXCEPT ![s].expires = n] \in [Syncs -> SyncRecord]
           /\ \A K \in SUBSET KeyIds : [f EXCEPT ![s].fetched = K] \in [Syncs -> SyncRecord]
           /\ [f EXCEPT ![s].call = @ + 1] \in [Syncs -> SyncRecord]
<1>1. f[s] \in SyncRecord /\ f[s].call + 1 \in Nat
  BY DEF SyncRecord
<1>2. QED
  BY <1>1, FieldTypes

\* The status of a check that failed, and those the actions answer with.
LEMMA StatusTypes ==
    /\ 0 \in Statuses /\ 201 \in Statuses /\ 401 \in Statuses /\ 403 \in Statuses
    /\ 409 \in Statuses /\ 429 \in Statuses
    /\ \A C \in SUBSET AllChecks : C # {} => StatusOf(C) \in Statuses
<1>1. ASSUME NEW C \in SUBSET AllChecks, C # {}
      PROVE  StatusOf(C) \in Statuses
  <2>1. (CHOOSE c \in C : TRUE) \in AllChecks
    BY <1>1
  <2>2. QED
    BY <2>1 DEF StatusOf, Statuses
<1>2. QED
  BY <1>1 DEF Statuses

\* The lengths of time are numbers.
LEMMA Lengths ==
    CacheLife \in Nat /\ FetchLimit \in Nat /\ TokenLife \in Nat /\ MaxTime \in Nat
BY UploadAssumption

\* The five calls.
LEMMA CallFacts ==
    /\ Len(Calls) = 5 /\ DOMAIN Calls = 1..5
    /\ \A facts : Borne(facts) \in SUBSET (1..5)
<1>1. Len(Calls) = 5 /\ DOMAIN Calls = 1..5
  BY DEF Calls
<1>2. QED
  BY <1>1 DEF Borne

\* What a change of a fact does to the uploads.
LEMMA ChangeEffect ==
    ASSUME sync \in [Syncs -> SyncRecord], NEW f, ChangeFact(f), NEW s \in Syncs
    PROVE  /\ sync'[s] \in SyncRecord
           /\ sync'[s].pc = sync[s].pc /\ sync'[s].flaw = sync[s].flaw
           /\ sync'[s].since = sync[s].since /\ sync'[s].fetched = sync[s].fetched
           /\ sync'[s].call = sync[s].call
           /\ sync'[s].stood = IF sync[s].pc \in Served THEN sync[s].stood \cup Borne(standing')
                              ELSE sync[s].stood
<1> DEFINE N == sync[s].stood \cup Borne(standing')
           y == [sync[s] EXCEPT !.stood = N]
<1>1. sync[s] \in SyncRecord /\ sync[s].stood \in SUBSET (1..5)
  BY DEF SyncRecord
<1>2. Borne(standing') \in SUBSET (1..5)
  BY CallFacts
<1>3. N \in SUBSET (1..5)
  BY <1>1, <1>2
<1>4. sync'[s] = IF sync[s].pc \in Served THEN y ELSE sync[s]
  BY DEF ChangeFact, InService, Served, Waiting
<1> HIDE DEF N
<1>5. /\ y \in SyncRecord /\ y.pc = sync[s].pc /\ y.flaw = sync[s].flaw
      /\ y.since = sync[s].since /\ y.fetched = sync[s].fetched
      /\ y.call = sync[s].call /\ y.stood = N
  BY <1>1, <1>3 DEF SyncRecord
<1> HIDE DEF y
<1>6. QED
  BY <1>1, <1>4, <1>5 DEF N

\* The end of an upload keeps the types, and nothing else happens to the others.
LEMMA OverStep ==
    ASSUME TypeOK, NEW s \in Syncs, NEW pc \in {"answered", "synced", "failed"},
           NEW status \in Statuses, Over(s, pc, status)
    PROVE  /\ sync' \in [Syncs -> SyncRecord]
           /\ sync'[s].pc = pc
           /\ \A q \in Syncs \ {s} : sync'[q] = sync[q]
<1>1. NewSync \in SyncRecord
  BY DEF NewSync, SyncRecord, PCs, Statuses
<1>2. ASSUME NEW x \in SyncRecord
      PROVE  /\ [x EXCEPT !.pc = pc, !.status = status] \in SyncRecord
             /\ [x EXCEPT !.pc = pc, !.status = status].pc = pc
  BY DEF SyncRecord, PCs
<1>3. QED
  BY <1>1, <1>2 DEF Over, TypeOK

\* Every step keeps the types.
LEMMA TypeStep ==
    ASSUME UploadInv, [Next]_vars
    PROVE  TypeOK'
<1>t. TypeOK /\ sync \in [Syncs -> SyncRecord]
  BY DEF UploadInv, TypeOK
<1>1. CASE UNCHANGED vars
  BY <1>t, <1>1 DEF vars, TypeOK
<1>2. CASE Tick
  BY <1>t, <1>2 DEF Tick, TypeOK
<1>3. ASSUME NEW k \in KeyIds, PublishKey(k) \/ WithdrawKey(k)
      PROVE  TypeOK'
  BY <1>t, <1>3 DEF PublishKey, WithdrawKey, TypeOK
<1>4. ASSUME NEW f \in Changing, ChangeFact(f)
      PROVE  TypeOK'
  <2>1. DOMAIN sync' = Syncs /\ sync' = [s \in DOMAIN sync' |-> sync'[s]]
    BY <1>4 DEF ChangeFact
  <2>2. \A s \in Syncs : sync'[s] \in SyncRecord
    BY <1>t, <1>4, ChangeEffect
  <2>3. sync' \in [Syncs -> SyncRecord]
    BY <2>1, <2>2
  <2>4. f \in Facts
    BY UploadAssumption DEF Facts
  <2>5. QED
    BY <1>t, <1>4, <2>3, <2>4 DEF ChangeFact, TypeOK
<1>5. ASSUME NEW s \in Syncs, ClientStep(s)
      PROVE  TypeOK'
  <2>1. CASE RequestToken(s)
    <3>1. PICK k \in KeyIds :
             sync' = [sync EXCEPT ![s].pc = "signed", ![s].kid = k, ![s].expires = now + TokenLife]
      BY <2>1 DEF RequestToken, PublishedKeys
    <3>2. now + TokenLife \in Nat /\ "signed" \in PCs
      BY <1>t, Lengths DEF TypeOK, PCs
    <3>3. sync' \in [Syncs -> SyncRecord]
      BY <1>t, <3>1, <3>2, FieldSteps
    <3>4. QED
      BY <1>t, <2>1, <3>3 DEF RequestToken, TypeOK
  <2>2. CASE GiveUpEarly(s) \/ HearAnswer(s)
    <3>1. Over(s, "failed", 0) \/ Over(s, "synced", 0)
      BY <2>2 DEF GiveUpEarly, HearAnswer
    <3>2. sync' \in [Syncs -> SyncRecord]
      BY <1>t, <3>1, OverStep, StatusTypes
    <3>3. QED
      BY <1>t, <2>2, <3>2 DEF GiveUpEarly, HearAnswer, TypeOK
  <2>3. QED
    BY <1>5, <2>1, <2>2 DEF ClientStep
<1>6. ASSUME NEW s \in Syncs, ServerStep(s)
      PROVE  TypeOK'
  <2>1. ASSUME NEW flaw \in {None} \cup Flaws, Receive(s, flaw)
        PROVE  TypeOK'
    <3> DEFINE early == {c \in HandlerChecks \cup ByteChecks \cup HeaderChecks : c.flaw = flaw}
    <3>1. CASE early # {}
      <4>1. StatusOf(early) \in Statuses
        BY <3>1, StatusTypes DEF AllChecks
      <4>2. Over(s, "answered", StatusOf(early))
        BY <2>1, <3>1 DEF Receive, Answers
      <4>3. sync' \in [Syncs -> SyncRecord]
        BY <1>t, <4>1, <4>2, OverStep
      <4>4. QED
        BY <1>t, <2>1, <4>3 DEF Receive, TypeOK
    <3>2. CASE early = {}
      <4>0. Borne(standing) \in SUBSET (1..5)
        BY CallFacts
      <4>1. PICK b \in SUBSET (1..5), pc \in {"fetching", "lookup"} :
               sync' = [sync EXCEPT ![s] =
                  [@ EXCEPT !.flaw = flaw, !.stood = b, !.since = now, !.pc = pc]]
        BY <2>1, <3>2, <4>0 DEF Receive
      <4>2. now \in Nat /\ pc \in PCs /\ sync[s] \in SyncRecord
        BY <1>t DEF TypeOK, PCs, Waiting
      <4>3. [sync[s] EXCEPT !.flaw = flaw, !.stood = b, !.since = now, !.pc = pc] \in SyncRecord
        BY <4>2, FieldTypes
      <4>4. sync' \in [Syncs -> SyncRecord]
        BY <1>t, <4>1, <4>3
      <4>5. QED
        BY <1>t, <2>1, <4>4 DEF Receive, TypeOK
    <3>3. QED
      BY <3>1, <3>2
  <2>2. CASE KeysAnswered(s)
    <3>1. PublishedKeys \in SUBSET KeyIds /\ "fetched" \in PCs
      BY DEF PublishedKeys, PCs, Waiting
    <3>2. sync' = [sync EXCEPT ![s].pc = "fetched", ![s].fetched = PublishedKeys]
      BY <2>2 DEF KeysAnswered
    <3>3. sync' \in [Syncs -> SyncRecord]
      BY <1>t, <3>1, <3>2, FieldSteps
    <3>4. QED
      BY <1>t, <2>2, <3>3 DEF KeysAnswered, TypeOK
  <2>3. CASE FetchFails(s) \/ ProviderFails(s)
    <3>1. sync' \in [Syncs -> SyncRecord]
      BY <1>t, <2>3, OverStep, StatusTypes DEF FetchFails, ProviderFails, Fails
    <3>2. QED
      BY <1>t, <2>3, <3>1 DEF FetchFails, ProviderFails, TypeOK
  <2>4. CASE InstallKeys(s)
    <3>1. sync' = [sync EXCEPT ![s].pc = "lookup", ![s].fetched = {}]
      BY <2>4 DEF InstallKeys
    <3>2. sync' \in [Syncs -> SyncRecord]
      <4>1. "lookup" \in PCs /\ {} \in SUBSET KeyIds
        BY DEF PCs, Waiting
      <4>2. QED
        BY <1>t, <3>1, <4>1, FieldSteps
    <3>3. cache' \in [keys : SUBSET KeyIds, until : Nat]
      BY <1>t, <2>4, Lengths DEF InstallKeys, NewLife, TypeOK, SyncRecord
    <3>4. QED
      BY <1>t, <2>4, <3>2, <3>3 DEF InstallKeys, TypeOK
  <2>5. CASE VerifyToken(s)
    <3> DEFINE C == {x \in TokenChecks \cup IdentityChecks : x.flaw = sync[s].flaw}
               n == [NewSync EXCEPT !.pc = "provider", !.call = 1, !.flaw = sync[s].flaw,
                                    !.stood = sync[s].stood]
    <3>1. C # {} => StatusOf(C) \in Statuses
      BY StatusTypes DEF AllChecks
    <3>2. \/ Over(s, "answered", 401)
          \/ C # {} /\ Over(s, "answered", StatusOf(C))
          \/ sync' = [sync EXCEPT ![s] = n]
      BY <2>5 DEF VerifyToken, Answers
    <3>3. n \in SyncRecord
      <4>1. NewSync \in SyncRecord /\ "provider" \in PCs
        BY DEF NewSync, SyncRecord, PCs, Statuses
      <4>2. sync[s].flaw \in {None} \cup Flaws /\ sync[s].stood \in SUBSET (1..5)
        BY <1>t DEF SyncRecord
      <4>3. QED
        BY <4>1, <4>2, FieldTypes
    <3> HIDE DEF C, n
    <3>4. sync' \in [Syncs -> SyncRecord]
      <4>1. ASSUME NEW status \in Statuses, Over(s, "answered", status)
            PROVE  sync' \in [Syncs -> SyncRecord]
        BY <1>t, <4>1, OverStep
      <4>2. QED
        <5>1. CASE sync' = [sync EXCEPT ![s] = n]
          BY <1>t, <3>3, <5>1
        <5>2. QED
          BY <3>1, <3>2, <4>1, <5>1, StatusTypes
    <3>5. QED
      BY <1>t, <2>5, <3>4 DEF VerifyToken, TypeOK
  <2>6. CASE CallProvider(s)
    <3>1. \/ Over(s, "answered", 403)
          \/ sync' = [sync EXCEPT ![s].call = @ + 1]
          \/ sync' = [sync EXCEPT ![s].pc = "store"]
      BY <2>6 DEF CallProvider, Answers, Moves
    <3>2. sync' \in [Syncs -> SyncRecord]
      <4>1. CASE Over(s, "answered", 403)
        BY <1>t, <4>1, OverStep, StatusTypes
      <4>2. "store" \in PCs
        BY DEF PCs
      <4>3. [sync EXCEPT ![s].call = @ + 1] \in [Syncs -> SyncRecord]
        BY <1>t, FieldSteps
      <4>4. [sync EXCEPT ![s].pc = "store"] \in [Syncs -> SyncRecord]
        BY <1>t, <4>2, FieldSteps
      <4>5. QED
        BY <3>1, <4>1, <4>3, <4>4
    <3>3. QED
      BY <1>t, <2>6, <3>2 DEF CallProvider, TypeOK
  <2>7. CASE Store(s)
    <3> DEFINE C == {x \in SourceChecks : x.flaw = sync[s].flaw}
    <3>1. C # {} => StatusOf(C) \in Statuses
      BY StatusTypes DEF AllChecks
    <3>2. /\ \/ C # {} /\ Over(s, "answered", StatusOf(C))
             \/ \E status \in {201, 409, 429} : Over(s, "answered", status)
             \/ Over(s, "failed", 0)
          /\ stored' \in {stored, stored \cup {s}}
      BY <2>7 DEF Store, Answers, Fails
    <3> HIDE DEF C
    <3>3. sync' \in [Syncs -> SyncRecord]
      <4>1. ASSUME NEW status \in Statuses, NEW pc \in {"answered", "failed"}, Over(s, pc, status)
            PROVE  sync' \in [Syncs -> SyncRecord]
        BY <1>t, <4>1, OverStep
      <4>2. QED
        BY <3>1, <3>2, <4>1, StatusTypes
    <3>4. QED
      BY <1>t, <2>7, <3>2, <3>3 DEF Store, TypeOK
  <2>8. QED
    BY <1>6, <2>1, <2>2, <2>3, <2>4, <2>5, <2>6, <2>7 DEF ServerStep
<1>7. QED
  BY <1>1, <1>2, <1>3, <1>4, <1>5, <1>6 DEF Next

-----------------------------------------------------------------------------
(* What a step of an upload does to what the invariant looks at.           *)

Keeps(s, field) == sync'[s][field] = sync[s][field]

\* It is over, or not yet sent.
Apart(s) ==
    sync'[s].pc \in {"signed", "answered", "synced", "failed"} /\ UNCHANGED cache

Arrived(s) ==
    /\ sync'[s].pc \in {"fetching", "lookup"}
    /\ sync'[s].pc = "lookup" => now < cache.until
    /\ sync'[s].since = now
    /\ Borne(standing) \subseteq sync'[s].stood
    /\ sync'[s].flaw \in {None} \cup FlawsOf(TokenChecks \cup IdentityChecks \cup SourceChecks)
    /\ UNCHANGED cache

Answered(s) ==
    /\ sync[s].pc = "fetching" /\ sync'[s].pc = "fetched"
    /\ sync'[s].fetched = PublishedKeys
    /\ Keeps(s, "since") /\ Keeps(s, "flaw") /\ Keeps(s, "stood")
    /\ UNCHANGED cache

Installed(s) ==
    /\ sync[s].pc = "fetched" /\ sync'[s].pc = "lookup"
    /\ cache' = [keys |-> sync[s].fetched, until |-> now + CacheLife]
    /\ Keeps(s, "flaw") /\ Keeps(s, "stood")

Verified(s) ==
    /\ sync[s].pc = "lookup" /\ sync'[s].pc = "provider" /\ sync'[s].call = 1
    /\ sync[s].kid \in cache.keys
    /\ sync[s].flaw \notin FlawsOf(TokenChecks \cup IdentityChecks)
    /\ Keeps(s, "flaw") /\ Keeps(s, "stood")
    /\ UNCHANGED cache

Asked(s) ==
    /\ sync[s].pc = "provider" /\ Supported(s)
    /\ \/ /\ sync'[s].pc = "provider" /\ sync[s].call < Len(Calls)
          /\ sync'[s].call = sync[s].call + 1
       \/ sync'[s].pc = "store" /\ sync[s].call >= Len(Calls)
    /\ Keeps(s, "flaw") /\ Keeps(s, "stood")
    /\ UNCHANGED cache

\* A check is there for every flaw the code distinguishes.
LEMMA FlawNames ==
    /\ {"route", "content type", "bearer", "digest header", "length"}
          \subseteq FlawsOf(HandlerChecks)
    /\ {"size", "json", "no canonical form", "not canonical", "schema", "unbound", "digest"}
          \subseteq FlawsOf(ByteChecks)
    /\ {"jwt", "algorithm"} \subseteq FlawsOf(HeaderChecks)
    /\ {"signature", "authority", "event", "claims"} \subseteq FlawsOf(TokenChecks)
    /\ {"identity", "local decisions"} \subseteq FlawsOf(IdentityChecks)
    /\ {"other repository", "semantic review", "source schema", "source"}
          \subseteq FlawsOf(SourceChecks)
<1> DEFINE invalid == 400  unauthenticated == 401  forbidden == 403  unknown == 404
           large == 413  unsupported == 415  internal == 500
<1>1. HandlerChecks = {Check("route", unknown), Check("content type", unsupported),
                       Check("bearer", unauthenticated), Check("digest header", invalid),
                       Check("length", large)}
  BY Zenon DEF HandlerChecks
<1>2. ByteChecks = {Check("size", large), Check("json", invalid),
                    Check("no canonical form", internal), Check("not canonical", invalid),
                    Check("schema", invalid), Check("unbound", invalid), Check("digest", invalid)}
  BY Zenon DEF ByteChecks
<1>3. /\ IdentityChecks = {Check("identity", unauthenticated), Check("local decisions", forbidden)}
      /\ SourceChecks = {Check("other repository", forbidden), Check("semantic review", forbidden),
                         Check("source schema", forbidden), Check("source", forbidden)}
  BY Zenon DEF IdentityChecks, SourceChecks
<1> HIDE DEF invalid, unauthenticated, forbidden, unknown, large, unsupported, internal
<1>4. {"route", "content type", "bearer", "digest header", "length"}
         \subseteq FlawsOf(HandlerChecks)
  BY <1>1 DEF Check, FlawsOf
<1>5. {"size", "json", "no canonical form", "not canonical", "schema", "unbound", "digest"}
         \subseteq FlawsOf(ByteChecks)
  BY <1>2 DEF Check, FlawsOf
<1>6. {"identity", "local decisions"} \subseteq FlawsOf(IdentityChecks)
  BY <1>3 DEF Check, FlawsOf
<1>7. {"jwt", "algorithm"} \subseteq FlawsOf(HeaderChecks)
  BY DEF Check, FlawsOf, HeaderChecks
<1>8. {"signature", "authority", "event", "claims"} \subseteq FlawsOf(TokenChecks)
  BY DEF Check, FlawsOf, TokenChecks
<1>9. {"other repository", "semantic review", "source schema", "source"}
         \subseteq FlawsOf(SourceChecks)
  BY <1>3 DEF Check, FlawsOf
<1>10. QED
  BY <1>4, <1>5, <1>6, <1>7, <1>8, <1>9

\* A flaw that is none of the earlier checks' is one of the later checks'.
LEMMA LaterFlaws ==
    ASSUME NEW flaw \in {None} \cup Flaws,
           flaw \notin FlawsOf(HandlerChecks \cup ByteChecks \cup HeaderChecks)
    PROVE  flaw \in {None} \cup FlawsOf(TokenChecks \cup IdentityChecks \cup SourceChecks)
<1>1. \A A, B : FlawsOf(A) \subseteq FlawsOf(A \cup B) /\ FlawsOf(B) \subseteq FlawsOf(A \cup B)
  BY DEF FlawsOf
<1>2. /\ flaw \notin FlawsOf(HandlerChecks)
      /\ flaw \notin FlawsOf(ByteChecks)
      /\ flaw \notin FlawsOf(HeaderChecks)
  BY <1>1
<1>3. \/ flaw = None
      \/ flaw \in {"signature", "authority", "event", "claims"}
      \/ flaw \in {"identity", "local decisions"}
      \/ flaw \in {"other repository", "semantic review", "source schema", "source"}
  <2>1. /\ \A f \in {"route", "content type", "bearer", "digest header", "length"} : f # flaw
        /\ \A f \in {"size", "json", "no canonical form", "not canonical", "schema", "unbound",
                   "digest"} : f # flaw
        /\ \A f \in {"jwt", "algorithm"} : f # flaw
    BY <1>2, FlawNames
  <2>2. QED
    BY <2>1, UploadAssumption
<1>4. flaw = None \/ flaw \in FlawsOf(TokenChecks) \/ flaw \in FlawsOf(IdentityChecks)
        \/ flaw \in FlawsOf(SourceChecks)
  BY <1>3, FlawNames
<1>5. QED
  BY <1>1, <1>4

Effect(s) ==
    Apart(s) \/ Arrived(s) \/ Answered(s) \/ Installed(s) \/ Verified(s) \/ Asked(s)

OthersStay(s) == \A q \in Syncs \ {s} : sync'[q] = sync[q]

\* A record of one upload replaced is seen by no other upload.
LEMMA OneChanges ==
    ASSUME sync \in [Syncs -> SyncRecord], NEW s \in Syncs, NEW y,
           sync' = [sync EXCEPT ![s] = y]
    PROVE  sync[s] \in SyncRecord /\ sync'[s] = y /\ OthersStay(s)
BY DEF OthersStay

\* What is over is apart.
LEMMA OverEffect ==
    ASSUME TypeOK, NEW s \in Syncs, UNCHANGED cache,
           \/ \E status \in Statuses : Over(s, "answered", status)
           \/ Over(s, "failed", 0)
           \/ Over(s, "synced", 0)
    PROVE  OthersStay(s) /\ Effect(s)
<1>1. ASSUME NEW pc \in {"answered", "synced", "failed"}, NEW status \in Statuses,
             Over(s, pc, status)
      PROVE  OthersStay(s) /\ Effect(s)
  BY <1>1, OverStep DEF Apart, Effect, OthersStay
<1>2. CASE \E status \in Statuses : Over(s, "answered", status)
  BY <1>1, <1>2
<1>3. CASE Over(s, "failed", 0)
  BY <1>1, <1>3, StatusTypes
<1>4. CASE Over(s, "synced", 0)
  BY <1>1, <1>4, StatusTypes
<1>5. QED
  BY <1>2, <1>3, <1>4

\* Every step of an upload has one of these effects.
LEMMA UploadEffect ==
    ASSUME TypeOK, NEW s \in Syncs, ClientStep(s) \/ ServerStep(s)
    PROVE  UNCHANGED <<now, keyLife, standing>> /\ OthersStay(s) /\ Effect(s)
<1> DEFINE x == sync[s]
<1>t. sync \in [Syncs -> SyncRecord] /\ x \in SyncRecord /\ now \in Nat /\ cache.until \in Nat
  BY DEF TypeOK
<1>1. UNCHANGED <<now, keyLife, standing>>
  BY DEF ClientStep, ServerStep, RequestToken, GiveUpEarly, HearAnswer, Receive, KeysAnswered,
     FetchFails, InstallKeys, VerifyToken, CallProvider, ProviderFails, Store
<1> SUFFICES OthersStay(s) /\ Effect(s)
  BY <1>1
<1>2. CASE RequestToken(s)
  <2>1. PICK k \in PublishedKeys :
           sync' = [sync EXCEPT ![s] =
                      [x EXCEPT !.pc = "signed", !.kid = k, !.expires = now + TokenLife]]
    BY <1>2 DEF RequestToken
  <2> DEFINE y == [x EXCEPT !.pc = "signed", !.kid = k, !.expires = now + TokenLife]
  <2> HIDE DEF x
  <2>2. y.pc = "signed"
    BY <1>t DEF SyncRecord
  <2> HIDE DEF y
  <2>3. sync'[s].pc = "signed" /\ OthersStay(s) /\ UNCHANGED cache
    BY <1>2, <1>t, <2>1, <2>2, OneChanges DEF RequestToken, x, y
  <2>4. QED
    BY <2>3 DEF Effect, Apart
<1>3. CASE GiveUpEarly(s) \/ HearAnswer(s) \/ FetchFails(s) \/ ProviderFails(s)
  <2>1. UNCHANGED cache /\ (Over(s, "failed", 0) \/ Over(s, "synced", 0))
    BY <1>3 DEF GiveUpEarly, HearAnswer, FetchFails, ProviderFails, Fails
  <2>2. QED
    BY <2>1, OverEffect
<1>4. ASSUME NEW flaw \in {None} \cup Flaws, Receive(s, flaw)
      PROVE  OthersStay(s) /\ Effect(s)
  <2> DEFINE early == {c \in HandlerChecks \cup ByteChecks \cup HeaderChecks : c.flaw = flaw}
             next == IF MustRefresh(s) THEN "fetching" ELSE "lookup"
             bound == Borne(standing)
             y == [x EXCEPT !.flaw = flaw, !.stood = bound, !.since = now, !.pc = next]
  <2>0. UNCHANGED cache
    BY <1>4 DEF Receive
  <2>1. CASE early # {}
    <3>1. Over(s, "answered", StatusOf(early)) /\ StatusOf(early) \in Statuses
      BY <1>4, <2>1, StatusTypes DEF Receive, Answers, AllChecks
    <3> HIDE DEF early
    <3>2. QED
      BY <2>0, <3>1, OverEffect
  <2>2. CASE early = {}
    <3>1. sync' = [sync EXCEPT ![s] = y]
      BY <1>4, <2>2 DEF Receive
    <3>2. flaw \notin FlawsOf(HandlerChecks \cup ByteChecks \cup HeaderChecks)
      BY <2>2 DEF FlawsOf
    <3>3. next = "lookup" => now < cache.until
      BY <1>t DEF MustRefresh
    <3>4. next \in {"fetching", "lookup"} /\ Borne(standing) \subseteq bound
      OBVIOUS
    <3> HIDE DEF x, next, bound, early
    <3>5. y.flaw = flaw /\ y.stood = bound /\ y.since = now /\ y.pc = next
      BY <1>t DEF SyncRecord
    <3> HIDE DEF y
    <3>6. sync'[s] = y /\ OthersStay(s)
      BY <1>t, <3>1, OneChanges
    <3>7. Arrived(s)
      BY <2>0, <3>2, <3>3, <3>4, <3>5, <3>6, LaterFlaws DEF Arrived
    <3>8. QED
      BY <3>6, <3>7 DEF Effect
  <2>3. QED
    BY <2>1, <2>2
<1>5. CASE KeysAnswered(s)
  <2> DEFINE y == [x EXCEPT !.pc = "fetched", !.fetched = PublishedKeys]
  <2>1. sync' = [sync EXCEPT ![s] = y] /\ x.pc = "fetching" /\ UNCHANGED cache
    BY <1>5 DEF KeysAnswered
  <2> HIDE DEF x
  <2>2. /\ y.pc = "fetched" /\ y.fetched = PublishedKeys
        /\ y.since = x.since /\ y.flaw = x.flaw /\ y.stood = x.stood
    BY <1>t DEF SyncRecord
  <2> HIDE DEF y
  <2>3. sync'[s] = y /\ OthersStay(s)
    BY <1>t, <2>1, OneChanges
  <2>4. Answered(s)
    BY <2>1, <2>2, <2>3 DEF Answered, Keeps, x
  <2>5. QED
    BY <2>3, <2>4 DEF Effect
<1>6. CASE InstallKeys(s)
  <2> DEFINE y == [x EXCEPT !.pc = "lookup", !.fetched = {}]
  <2>1. /\ sync' = [sync EXCEPT ![s] = y] /\ x.pc = "fetched"
        /\ cache' = [keys |-> x.fetched, until |-> now + CacheLife]
    BY <1>6 DEF InstallKeys, NewLife
  <2> HIDE DEF x
  <2>2. y.pc = "lookup" /\ y.flaw = x.flaw /\ y.stood = x.stood
    BY <1>t DEF SyncRecord
  <2> HIDE DEF y
  <2>3. sync'[s] = y /\ OthersStay(s)
    BY <1>t, <2>1, OneChanges
  <2>4. Installed(s)
    BY <2>1, <2>2, <2>3 DEF Installed, Keeps, x
  <2>5. QED
    BY <2>3, <2>4 DEF Effect
<1>7. CASE VerifyToken(s)
  <2> DEFINE C == {c \in TokenChecks \cup IdentityChecks : c.flaw = x.flaw}
             y == [NewSync EXCEPT !.pc = "provider", !.call = 1, !.flaw = x.flaw,
                                  !.stood = x.stood]
  <2>1. /\ UNCHANGED cache
        /\ x.pc = "lookup"
        /\ \/ Over(s, "answered", 401)
           \/ C # {} /\ Over(s, "answered", StatusOf(C))
           \/ C = {} /\ x.kid \in cache.keys /\ sync' = [sync EXCEPT ![s] = y]
    BY <1>7 DEF VerifyToken, Answers
  <2>2. C # {} => StatusOf(C) \in Statuses
    BY StatusTypes DEF AllChecks
  <2>3. C = {} => x.flaw \notin FlawsOf(TokenChecks \cup IdentityChecks)
    BY DEF FlawsOf
  <2> HIDE DEF x
  <2>4. y.pc = "provider" /\ y.call = 1 /\ y.flaw = x.flaw /\ y.stood = x.stood
    BY DEF NewSync
  <2> HIDE DEF C, y
  <2>5. CASE C = {} /\ x.kid \in cache.keys /\ sync' = [sync EXCEPT ![s] = y]
    <3>1. sync'[s] = y /\ OthersStay(s)
      BY <1>t, <2>5, OneChanges
    <3>2. Verified(s)
      BY <2>1, <2>3, <2>4, <2>5, <3>1 DEF Verified, Keeps, x
    <3>3. QED
      BY <3>1, <3>2 DEF Effect
  <2>6. CASE \E status \in Statuses : Over(s, "answered", status)
    BY <2>1, <2>6, OverEffect
  <2>7. QED
    BY <2>1, <2>2, <2>5, <2>6, StatusTypes
<1>8. CASE CallProvider(s)
  <2>0. UNCHANGED cache /\ x.pc = "provider"
    BY <1>8 DEF CallProvider
  <2>1. CASE Over(s, "answered", 403)
    BY <2>0, <2>1, OverEffect, StatusTypes
  <2>2. CASE Supported(s) /\ x.call < 5 /\ sync' = [sync EXCEPT ![s].call = @ + 1]
    <3> DEFINE y == [x EXCEPT !.call = x.call + 1]
    <3>1. sync' = [sync EXCEPT ![s] = y]
      BY <2>2
    <3> HIDE DEF x
    <3>2. y.pc = x.pc /\ y.call = x.call + 1 /\ y.flaw = x.flaw /\ y.stood = x.stood
      BY <1>t DEF SyncRecord
    <3> HIDE DEF y
    <3>3. sync'[s] = y /\ OthersStay(s)
      BY <1>t, <3>1, OneChanges
    <3>4. Asked(s)
      BY <2>0, <2>2, <3>2, <3>3, CallFacts DEF Asked, Keeps, x
    <3>5. QED
      BY <3>3, <3>4 DEF Effect
  <2>3. CASE Supported(s) /\ ~(x.call < 5) /\ sync' = [sync EXCEPT ![s].pc = "store"]
    <3> DEFINE y == [x EXCEPT !.pc = "store"]
    <3>1. sync' = [sync EXCEPT ![s] = y]
      BY <2>3
    <3> HIDE DEF x
    <3>2. y.pc = "store" /\ y.flaw = x.flaw /\ y.stood = x.stood /\ x.call \in Nat
      BY <1>t DEF SyncRecord
    <3> HIDE DEF y
    <3>3. sync'[s] = y /\ OthersStay(s)
      BY <1>t, <3>1, OneChanges
    <3>4. x.call >= 5
      BY <2>3, <3>2
    <3>5. Asked(s)
      BY <2>0, <2>3, <3>2, <3>3, <3>4, CallFacts DEF Asked, Keeps, x
    <3>6. QED
      BY <3>3, <3>5 DEF Effect
  <2>4. QED
    BY <1>8, <2>1, <2>2, <2>3, CallFacts DEF CallProvider, Answers, Moves
<1>9. CASE Store(s)
  <2> DEFINE C == {c \in SourceChecks : c.flaw = x.flaw}
  <2>1. C # {} => StatusOf(C) \in Statuses
    BY StatusTypes DEF AllChecks
  <2>2. /\ \/ C # {} /\ Over(s, "answered", StatusOf(C))
           \/ \E status \in {201, 409, 429} : Over(s, "answered", status)
           \/ Over(s, "failed", 0)
        /\ UNCHANGED cache
    BY <1>9 DEF Store, Answers, Fails
  <2> HIDE DEF C
  <2>3. QED
    BY <2>1, <2>2, OverEffect, StatusTypes
<1>10. QED
  BY <1>1, <1>2, <1>3, <1>4, <1>5, <1>6, <1>7, <1>8, <1>9 DEF ClientStep, ServerStep

-----------------------------------------------------------------------------
(* The rest of the invariant: what goes on around the uploads.             *)

\* Time, keys and facts change, and no upload goes on.
Around ==
    \/ Tick
    \/ \E k \in KeyIds : PublishKey(k) \/ WithdrawKey(k)
    \/ \E f \in Changing : ChangeFact(f)

\* What stands has stood: a change of facts is recorded by every upload in service.
Recorded(s) ==
    /\ sync[s].stood \subseteq sync'[s].stood
    /\ \/ UNCHANGED <<sync, standing>>
       \/ sync[s].pc \in Served => Borne(standing') \subseteq sync'[s].stood

\* A key is withdrawn now if at all, and no upload gets anywhere.
LEMMA AroundEffect ==
    ASSUME TypeOK, Around
    PROVE  /\ UNCHANGED cache
           /\ \A s \in Syncs : /\ Keeps(s, "pc") /\ Keeps(s, "flaw") /\ Keeps(s, "since")
                               /\ Keeps(s, "fetched") /\ Keeps(s, "call") /\ Recorded(s)
           /\ \/ now' = now /\ ~ Tick
              \/ now' = now + 1 /\ Tick
           /\ \A k \in KeyIds : keyLife'[k].to = keyLife[k].to \/ keyLife'[k].to = now
<1> DEFINE Stay == \A s \in Syncs :
             /\ Keeps(s, "pc") /\ Keeps(s, "flaw") /\ Keeps(s, "since")
             /\ Keeps(s, "fetched") /\ Keeps(s, "call") /\ Recorded(s)
<1>1. UNCHANGED <<sync, standing>> => Stay
  BY DEF Keeps, Recorded
<1>2. CASE Tick
  BY <1>1, <1>2 DEF Tick
<1>3. Tick => now' # now
  BY DEF Tick, TypeOK
<1>4. ASSUME NEW k \in KeyIds, PublishKey(k) \/ WithdrawKey(k)
      PROVE  /\ UNCHANGED <<now, cache>> /\ Stay
             /\ \A q \in KeyIds : keyLife'[q].to = keyLife[q].to \/ keyLife'[q].to = now
  <2>1. UNCHANGED <<now, cache, sync, standing>>
    BY <1>4 DEF PublishKey, WithdrawKey
  <2>2. \A q \in KeyIds : keyLife'[q].to = keyLife[q].to \/ keyLife'[q].to = now
    BY <1>4 DEF PublishKey, WithdrawKey, TypeOK
  <2>3. QED
    BY <1>1, <2>1, <2>2
<1>5. ASSUME NEW f \in Changing, ChangeFact(f)
      PROVE  UNCHANGED <<now, keyLife, cache>> /\ Stay
  <2>1. UNCHANGED <<now, keyLife, cache>>
    BY <1>5 DEF ChangeFact
  <2>2. ASSUME NEW s \in Syncs
        PROVE  /\ Keeps(s, "pc") /\ Keeps(s, "flaw") /\ Keeps(s, "since")
               /\ Keeps(s, "fetched") /\ Keeps(s, "call") /\ Recorded(s)
    BY <1>5, ChangeEffect DEF TypeOK, Keeps, Recorded
  <2>3. QED
    BY <2>1, <2>2
<1> HIDE DEF Stay
<1>6. CASE \E k \in KeyIds : PublishKey(k) \/ WithdrawKey(k)
  BY <1>3, <1>4, <1>6 DEF Stay
<1>7. CASE \E f \in Changing : ChangeFact(f)
  BY <1>3, <1>5, <1>7 DEF Stay
<1>8. QED
  BY <1>2, <1>6, <1>7 DEF Around

\* The fields of an upload and the times the arguments compare.
LEMMA Types ==
    ASSUME TypeOK
    PROVE  /\ now \in Nat /\ cache.until \in Nat /\ cache.keys \subseteq KeyIds
           /\ \A k \in KeyIds : keyLife[k].to \in Nat
           /\ \A s \in Syncs : /\ sync[s].since \in Nat /\ sync[s].fetched \subseteq KeyIds
                                 /\ sync[s].call \in Nat /\ sync[s].stood \subseteq 1..5
<1>1. \A x \in SyncRecord : x.since \in Nat /\ x.fetched \subseteq KeyIds /\ x.call \in Nat
                              /\ x.stood \subseteq 1..5
  BY DEF SyncRecord
<1>2. QED
  BY <1>1 DEF TypeOK

\* What goes on around the uploads keeps the invariant.
LEMMA AroundStep ==
    ASSUME UploadInv, TypeOK', Around
    PROVE  (FetchInv /\ CacheInv /\ LookupInv /\ FlawInv /\ StandingInv)'
<1>t. TypeOK
  BY DEF UploadInv
<1>1. /\ UNCHANGED cache
      /\ \A s \in Syncs :
            /\ sync'[s].pc = sync[s].pc /\ sync'[s].flaw = sync[s].flaw
            /\ sync'[s].since = sync[s].since /\ sync'[s].fetched = sync[s].fetched
            /\ sync'[s].call = sync[s].call /\ Recorded(s)
      /\ \/ now' = now /\ ~ Tick
         \/ now' = now + 1 /\ Tick
      /\ \A k \in KeyIds : keyLife'[k].to = keyLife[k].to \/ keyLife'[k].to = now
  BY <1>t, AroundEffect DEF Keeps
<1>2. FetchInv'
  <2> SUFFICES ASSUME NEW s \in Syncs, sync[s].pc \in {"fetching", "fetched"}
               PROVE  /\ sync[s].since <= now' /\ now' <= sync[s].since + FetchLimit
                      /\ sync[s].pc = "fetched" =>
                            \A k \in sync[s].fetched : keyLife'[k].to >= sync[s].since
    BY <1>1 DEF FetchInv
  <2>1. /\ sync[s].since <= now /\ now <= sync[s].since + FetchLimit
        /\ sync[s].pc = "fetched" =>
              \A k \in sync[s].fetched : keyLife[k].to >= sync[s].since
    BY DEF UploadInv, FetchInv
  <2>2. Tick => now < sync[s].since + FetchLimit
    BY DEF Tick
  <2>3. sync[s].since <= now' /\ now' <= sync[s].since + FetchLimit
    BY <1>1, <1>t, <2>1, <2>2, Types, Lengths
  <2>4. ASSUME sync[s].pc = "fetched", NEW k \in sync[s].fetched
        PROVE  keyLife'[k].to >= sync[s].since
    BY <1>1, <1>t, <2>1, <2>4, Types
  <2>5. QED
    BY <2>3, <2>4
<1>3. CacheInv'
  <2>1. cache.until <= now' + CacheLife
    BY <1>1, <1>t, Types, Lengths DEF UploadInv, CacheInv
  <2>2. ASSUME NEW k \in cache.keys
        PROVE  keyLife'[k].to + CacheLife + FetchLimit >= cache.until
    <3>1. keyLife[k].to + CacheLife + FetchLimit >= cache.until /\ cache.until <= now + CacheLife
      BY DEF UploadInv, CacheInv
    <3>2. QED
      BY <1>1, <1>t, <3>1, Types, Lengths
  <2>3. QED
    BY <1>1, <2>1, <2>2 DEF CacheInv
<1>4. LookupInv'
  BY <1>1 DEF UploadInv, LookupInv, Tick
<1>5. FlawInv'
  BY <1>1 DEF UploadInv, FlawInv, Waiting
<1>6. StandingInv'
  <2> SUFFICES ASSUME NEW s \in Syncs
               PROVE  /\ sync[s].pc \in Served => Borne(standing') \subseteq sync'[s].stood
                      /\ sync[s].pc = "provider" =>
                            sync[s].call \in 1..5 /\ 1..(sync[s].call - 1) \subseteq sync'[s].stood
                      /\ sync[s].pc = "store" => 1..5 \subseteq sync'[s].stood
    BY <1>1 DEF StandingInv
  <2>1. /\ sync[s].pc \in Served => Borne(standing) \subseteq sync[s].stood
        /\ sync[s].pc = "provider" =>
              sync[s].call \in 1..5 /\ 1..(sync[s].call - 1) \subseteq sync[s].stood
        /\ sync[s].pc = "store" => 1..5 \subseteq sync[s].stood
    BY DEF UploadInv, StandingInv
  <2>2. sync[s].stood \subseteq sync'[s].stood
    BY <1>1 DEF Recorded
  <2>3. sync[s].pc \in Served => Borne(standing') \subseteq sync'[s].stood
    BY <1>1, <2>1 DEF Recorded
  <2>4. QED
    BY <2>1, <2>2, <2>3
<1>7. QED
  BY <1>2, <1>3, <1>4, <1>5, <1>6

-----------------------------------------------------------------------------
(* And what the uploads do.                                                *)

\* A fetched key was published at most the timeout of a fetch ago.
LEMMA FetchStep ==
    ASSUME UploadInv, NEW s \in Syncs, UNCHANGED <<now, keyLife>>, OthersStay(s), Effect(s)
    PROVE  FetchInv'
<1>t. TypeOK
  BY DEF UploadInv
<1> SUFFICES ASSUME NEW q \in Syncs, sync'[q].pc \in {"fetching", "fetched"}
             PROVE  /\ sync'[q].since <= now /\ now <= sync'[q].since + FetchLimit
                    /\ sync'[q].pc = "fetched" =>
                          \A k \in sync'[q].fetched : keyLife[k].to >= sync'[q].since
  BY DEF FetchInv
<1>1. CASE q # s
  BY <1>1 DEF OthersStay, UploadInv, FetchInv
<1>2. CASE q = s
  <2>1. CASE Arrived(s)
    BY <1>2, <1>t, <2>1, Types, Lengths DEF Arrived
  <2>2. CASE Answered(s)
    <3>1. sync[s].since <= now /\ now <= sync[s].since + FetchLimit
      BY <2>2 DEF Answered, UploadInv, FetchInv
    <3>2. sync'[s].since = sync[s].since /\ sync'[s].fetched = PublishedKeys
      BY <2>2 DEF Answered, Keeps
    <3>3. \A k \in PublishedKeys : keyLife[k].to >= sync[s].since
      BY <1>t, <3>1, Types DEF PublishedKeys, Published
    <3>4. QED
      BY <1>2, <3>1, <3>2, <3>3
  <2>3. QED
    BY <1>2, <2>1, <2>2 DEF Effect, Apart, Installed, Verified, Asked
<1>3. QED
  BY <1>1, <1>2

\* So the end of the cache bounds the age of its keys, and whoever looks one up does
\* it before that.
LEMMA CacheStep ==
    ASSUME UploadInv, NEW s \in Syncs, UNCHANGED <<now, keyLife>>, OthersStay(s), Effect(s)
    PROVE  CacheInv' /\ LookupInv'
<1>t. TypeOK
  BY DEF UploadInv
<1>1. CASE Installed(s)
  <2>1. /\ sync[s].since <= now /\ now <= sync[s].since + FetchLimit
        /\ \A k \in sync[s].fetched : keyLife[k].to >= sync[s].since
    BY <1>1 DEF Installed, UploadInv, FetchInv
  <2>2. cache'.keys = sync[s].fetched /\ cache'.until = now + CacheLife
    BY <1>1 DEF Installed
  <2>3. \A k \in sync[s].fetched : keyLife[k].to + CacheLife + FetchLimit >= now + CacheLife
    BY <1>t, <2>1, Types, Lengths
  <2>4. now + CacheLife <= now + CacheLife /\ now <= now + CacheLife
    BY <1>t, Types, Lengths
  <2>5. QED
    BY <2>2, <2>3, <2>4 DEF CacheInv, LookupInv
<1>2. CASE ~ Installed(s)
  <2>1. UNCHANGED cache
    BY <1>2 DEF Effect, Apart, Arrived, Answered, Verified, Asked
  <2>2. CacheInv'
    BY <2>1 DEF UploadInv, CacheInv
  <2>3. sync'[s].pc = "lookup" => now < cache.until
    BY <1>2 DEF Effect, Apart, Arrived, Answered, Verified, Asked
  <2>4. now < cache.until => now <= cache.until
    BY <1>t, Types
  <2>5. LookupInv'
    BY <2>1, <2>3, <2>4 DEF UploadInv, LookupInv, OthersStay
  <2>6. QED
    BY <2>2, <2>5
<1>3. QED
  BY <1>1, <1>2

\* Each group of checks takes its own flaws away.
LEMMA FlawStep ==
    ASSUME UploadInv, NEW s \in Syncs, OthersStay(s), Effect(s)
    PROVE  FlawInv'
<1> DEFINE Late == {None} \cup FlawsOf(TokenChecks \cup IdentityChecks \cup SourceChecks)
           Last == {None} \cup FlawsOf(SourceChecks)
<1>1. /\ sync[s].pc \in Waiting => sync[s].flaw \in Late
      /\ sync[s].pc \in {"provider", "store"} => sync[s].flaw \in Last
  BY DEF UploadInv, FlawInv
<1>2. \A f \in Late : f \notin FlawsOf(TokenChecks \cup IdentityChecks) => f \in Last
  BY DEF FlawsOf
<1>3. /\ sync'[s].pc \in Waiting => sync'[s].flaw \in Late
      /\ sync'[s].pc \in {"provider", "store"} => sync'[s].flaw \in Last
  <2> HIDE DEF Late, Last
  <2>1. CASE Arrived(s)
    BY <2>1 DEF Arrived, Late, Waiting
  <2>2. CASE Answered(s) \/ Installed(s)
    BY <1>1, <2>2 DEF Answered, Installed, Keeps, Waiting
  <2>3. CASE Verified(s)
    BY <1>1, <1>2, <2>3 DEF Verified, Keeps, Waiting
  <2>4. CASE Asked(s)
    BY <1>1, <2>4 DEF Asked, Keeps, Waiting
  <2>5. CASE Apart(s)
    BY <2>5 DEF Apart, Waiting
  <2>6. QED
    BY <2>1, <2>2, <2>3, <2>4, <2>5 DEF Effect
<1>4. QED
  BY <1>3 DEF UploadInv, FlawInv, OthersStay

\* A call that is answered as expected finds what it needs standing, and so recorded.
LEMMA StandingStep ==
    ASSUME UploadInv, NEW s \in Syncs, UNCHANGED standing, OthersStay(s), Effect(s)
    PROVE  StandingInv'
<1> DEFINE Bound(x) ==
             /\ x.pc \in Served => Borne(standing) \subseteq x.stood
             /\ x.pc = "provider" => x.call \in 1..5 /\ 1..(x.call - 1) \subseteq x.stood
             /\ x.pc = "store" => 1..5 \subseteq x.stood
<1>t. TypeOK
  BY DEF UploadInv
<1>1. Bound(sync[s])
  BY DEF UploadInv, StandingInv
<1>2. Bound(sync'[s])
  <2>1. CASE Arrived(s)
    BY <2>1 DEF Arrived
  <2>2. CASE Answered(s) \/ Installed(s)
    BY <1>1, <2>2 DEF Answered, Installed, Keeps, Served, Waiting
  <2>3. CASE Verified(s)
    <3>1. Borne(standing) \subseteq sync'[s].stood
      BY <1>1, <2>3 DEF Verified, Keeps, Served, Waiting
    <3>2. 1 \in 1..5 /\ 1..(1 - 1) = {}
      OBVIOUS
    <3>3. QED
      BY <2>3, <3>1, <3>2 DEF Verified
  <2>4. CASE Asked(s)
    <3> DEFINE n == sync[s].call
    <3>1. /\ n \in 1..5 /\ 1..(n - 1) \subseteq sync[s].stood
          /\ Borne(standing) \subseteq sync[s].stood
      BY <1>1, <2>4 DEF Asked, Served
    <3>2. /\ Calls[n].needs \subseteq standing /\ sync'[s].stood = sync[s].stood
          /\ \/ sync'[s].pc = "provider" /\ n < 5 /\ sync'[s].call = n + 1
             \/ sync'[s].pc = "store" /\ n >= 5
      BY <2>4, CallFacts DEF Asked, Supported, Keeps
    <3> HIDE DEF n
    <3>3. 1..n = 1..(n - 1) \cup {n} /\ (n + 1) - 1 = n /\ (n >= 5 => n = 5)
      BY <3>1
    <3>4. n \in Borne(standing)
      BY <3>1, <3>2, CallFacts DEF Borne
    <3>5. 1..n \subseteq sync'[s].stood /\ Borne(standing) \subseteq sync'[s].stood
      BY <3>1, <3>2, <3>3, <3>4
    <3>6. CASE sync'[s].pc = "provider"
      <4>1. n + 1 \in 1..5 /\ sync'[s].call = n + 1
        BY <3>1, <3>2, <3>6
      <4>2. QED
        BY <3>3, <3>5, <3>6, <4>1
    <3>7. CASE sync'[s].pc = "store"
      BY <3>2, <3>3, <3>5, <3>7
    <3>8. QED
      BY <3>2, <3>6, <3>7
  <2>5. CASE Apart(s)
    BY <2>5 DEF Apart, Served, Waiting
  <2>6. QED
    BY <2>1, <2>2, <2>3, <2>4, <2>5 DEF Effect
<1>3. QED
  BY <1>2 DEF UploadInv, StandingInv, OthersStay

-----------------------------------------------------------------------------
LEMMA InitInv == Init => UploadInv
<1> SUFFICES ASSUME Init PROVE UploadInv
  OBVIOUS
<1>1. NewSync \in SyncRecord /\ NewSync.pc = "new"
  BY DEF NewSync, SyncRecord, PCs, Statuses
<1>2. TypeOK
  <2>1. Forever \in Nat
    BY Lengths DEF Forever
  <2>2. QED
    BY <1>1, <2>1 DEF Init, TypeOK
<1>3. \A s \in Syncs : sync[s].pc = "new"
  BY <1>1 DEF Init
<1>4. CacheInv
  BY Lengths DEF Init, CacheInv
<1>5. QED
  BY <1>2, <1>3, <1>4 DEF UploadInv, FetchInv, LookupInv, FlawInv, StandingInv, Served, Waiting

LEMMA NextInv ==
    ASSUME UploadInv, [Next]_vars
    PROVE  UploadInv'
<1>t. TypeOK /\ TypeOK'
  BY TypeStep DEF UploadInv
<1>1. CASE UNCHANGED vars
  BY <1>1, <1>t DEF vars, UploadInv, FetchInv, CacheInv, LookupInv, FlawInv, StandingInv,
     Served, Waiting
<1>2. CASE Around
  BY <1>2, <1>t, AroundStep DEF UploadInv
<1>3. ASSUME NEW s \in Syncs, ClientStep(s) \/ ServerStep(s)
      PROVE  UploadInv'
  <2>1. UNCHANGED <<now, keyLife, standing>> /\ OthersStay(s) /\ Effect(s)
    BY <1>3, <1>t, UploadEffect
  <2>2. QED
    BY <1>t, <2>1, FetchStep, CacheStep, FlawStep, StandingStep DEF UploadInv
<1>4. QED
  BY <1>1, <1>2, <1>3 DEF Next, Around

\* What holds of every upload, of the cache and of the keys at all times.
THEOREM UploadInvariant == Spec => []UploadInv
<1>1. UploadInv /\ [Next]_vars => UploadInv'
  BY NextInv
<1>2. QED
  BY InitInv, <1>1, PTL DEF Spec

\* Only Store adds to what is stored.
LEMMA StoredByStore ==
    ASSUME TypeOK, [Next]_vars, NEW s \in stored' \ stored
    PROVE  /\ s \in Syncs /\ sync[s].pc = "store"
           /\ \A c \in SourceChecks : c.flaw # sync[s].flaw
<1>1. CASE \E q \in Syncs : Store(q)
  BY <1>1 DEF Store
<1>2. ASSUME ~ \E q \in Syncs : Store(q)
      PROVE  UNCHANGED stored
  BY <1>2 DEF Next, vars, Tick, PublishKey, WithdrawKey, ChangeFact, ClientStep, ServerStep,
     RequestToken, GiveUpEarly, HearAnswer, Receive, KeysAnswered, FetchFails, InstallKeys,
     VerifyToken, CallProvider, ProviderFails
<1>3. QED
  BY <1>1, <1>2

\* An upload whose envelope is stored had no flaw, and what each of its calls asked for
\* held at some moment since the request arrived, however the facts came and went.
THEOREM StoredUploadWasBound == Spec => StoredWasBound
<1>1. UploadInv /\ [Next]_vars =>
        [\A s \in stored' \ stored : sync[s].flaw = None /\ sync[s].stood = DOMAIN Calls]_vars
  <2> SUFFICES ASSUME UploadInv, [Next]_vars, NEW s \in stored' \ stored
               PROVE  sync[s].flaw = None /\ sync[s].stood = DOMAIN Calls
    OBVIOUS
  <2>1. /\ s \in Syncs /\ sync[s].pc = "store"
        /\ \A c \in SourceChecks : c.flaw # sync[s].flaw
    BY StoredByStore DEF UploadInv
  <2>2. sync[s].flaw \in {None} \cup FlawsOf(SourceChecks) /\ 1..5 \subseteq sync[s].stood
    BY <2>1 DEF UploadInv, FlawInv, StandingInv
  <2>3. sync[s].stood = DOMAIN Calls
    BY <2>1, <2>2, Types, CallFacts DEF UploadInv
  <2>4. QED
    BY <2>1, <2>2, <2>3 DEF FlawsOf
<1>2. QED
  BY UploadInvariant, <1>1, PTL DEF Spec, StoredWasBound

\* A token is accepted only under a key that was published within the life of the
\* cache and the timeout of a fetch before.
THEOREM AcceptedKeyWasPublished == Spec => KeyTrustIsBounded
<1>1. UploadInv /\ [Next]_vars =>
        [\A s \in Syncs : sync[s].pc = "lookup" /\ sync'[s].pc = "provider" =>
            keyLife[sync[s].kid].to + CacheLife + FetchLimit >= now]_vars
  <2> SUFFICES ASSUME UploadInv, [Next]_vars, NEW s \in Syncs,
                      sync[s].pc = "lookup", sync'[s].pc = "provider"
               PROVE  keyLife[sync[s].kid].to + CacheLife + FetchLimit >= now
    OBVIOUS
  <2>t. TypeOK
    BY DEF UploadInv
  <2>1. sync'[s].pc # sync[s].pc
    OBVIOUS
  <2>2. ~ Around /\ ~ UNCHANGED vars
    BY <2>t, <2>1, AroundEffect DEF vars, Keeps
  <2>3. PICK q \in Syncs : ClientStep(q) \/ ServerStep(q)
    BY <2>2 DEF Next, Around
  <2>4. OthersStay(q) /\ Effect(q)
    BY <2>t, <2>3, UploadEffect
  <2>5. q = s
    BY <2>1, <2>4 DEF OthersStay
  <2>6. Verified(s)
    BY <2>4, <2>5 DEF Effect, Apart, Arrived, Answered, Installed, Asked
  <2>7. sync[s].kid \in cache.keys /\ now <= cache.until
    BY <2>6 DEF Verified, UploadInv, LookupInv
  <2>8. keyLife[sync[s].kid].to + CacheLife + FetchLimit >= cache.until
    BY <2>7 DEF UploadInv, CacheInv
  <2>9. QED
    BY <2>t, <2>7, <2>8, Types, Lengths
<1>2. QED
  BY UploadInvariant, <1>1, PTL DEF Spec, KeyTrustIsBounded
=============================================================================
