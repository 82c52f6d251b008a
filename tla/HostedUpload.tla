---------------------------- MODULE HostedUpload ----------------------------
(***************************************************************************)
(* The way of an envelope from the sync job into the store: the client     *)
(* (syncHostedEvidence), the handler, HostedControlPlane.ingest, the       *)
(* verification of the job's token against cached signing keys, and the    *)
(* calls to the provider by which the upload is authorised.                *)
(*                                                                         *)
(* Uploads run concurrently in one process and share the key cache.  What  *)
(* they rely on, the provider's keys and the facts it answers for, changes *)
(* while they wait.  A request carries at most one flaw, named after the   *)
(* check that finds it; rows, quotas and objects are HostedPersistence's.  *)
(***************************************************************************)
EXTENDS Integers, Sequences

CONSTANTS
    Syncs,          \* uploads, each with a token and an envelope of its own
    KeyIds,         \* signing keys of the provider, in any order of rotation
    CacheLife,      \* life of fetched keys (5 minutes)
    FetchLimit,     \* timeout of the fetch of the keys (10 seconds)
    TokenLife,      \* life of a token
    ClockSkew,      \* tolerance for expired tokens (60 seconds)
    MaxTime,
    Flaws,          \* what requests may have wrong
    Changing,       \* facts that may cease to hold and hold again
    Faults          \* calls that may fail: "keys", "provider", "store", "answer"

ASSUME UploadAssumption ==
    /\ {CacheLife, FetchLimit, TokenLife, ClockSkew, MaxTime} \subseteq Nat
    /\ FetchLimit > 0
    /\ Flaws \subseteq {"route", "content type", "bearer", "digest header", "length", "size",
                     "json", "no canonical form", "not canonical", "schema", "unbound",
                     "digest", "jwt", "algorithm", "signature", "authority", "event",
                     "claims", "identity", "local decisions", "other repository",
                     "semantic review", "source schema", "source"}
    /\ Changing \subseteq {"installed", "run", "artifact", "selected"}
    /\ Faults \subseteq {"keys", "provider", "store", "answer"}

VARIABLES
    now,
    keyLife,    \* from when to when the provider publishes each key
    standing,   \* the facts that the provider and the directory attest now
    cache,      \* #keys and #expiresAt of GitHubJwksProvider
    sync,       \* where each upload stands
    stored      \* uploads whose envelope is stored

vars == <<now, keyLife, standing, cache, sync, stored>>

-----------------------------------------------------------------------------
None == "none"
Forever == MaxTime + 1

\* The app is installed on the account and may read the repository; the run is the
\* completed attempt the envelope names; its artifact is there; the directory has
\* the repository selected. Each may end at any time, and hold again at any time.
Facts == {"installed", "run", "artifact", "selected"}

Check(flaw, status) == [flaw |-> flaw, status |-> status]

\* createHostedIngestHandler
HandlerChecks == {Check("route", 404), Check("content type", 415), Check("bearer", 401),
                  Check("digest header", 400), Check("length", 413)}

\* ingest, on the bytes alone; canonicalize throws before any handler of errors
ByteChecks == {Check("size", 413), Check("json", 400), Check("no canonical form", 500),
               Check("not canonical", 400), Check("schema", 400), Check("unbound", 400),
               Check("digest", 400)}

\* verify, before and after the signing key is looked up
HeaderChecks == {Check("jwt", 401), Check("algorithm", 401)}
TokenChecks == {Check("signature", 401), Check("authority", 401), Check("event", 401),
                Check("claims", 401)}

\* ingest, on the envelope and the verified claims
IdentityChecks == {Check("identity", 401), Check("local decisions", 403)}

\* ingest, on what the authorizer returned
SourceChecks == {Check("other repository", 403), Check("semantic review", 403),
                 Check("source schema", 403), Check("source", 403)}

\* The calls of authorizeUpload in their order, and the facts each answer needs.
\* Every other refusal or failure of a call counts as a fault.
Calls == <<[call |-> "installation, its token, repository", needs |-> {"installed"}],
           [call |-> "run", needs |-> {"installed", "run"}],
           [call |-> "artifacts", needs |-> {"installed", "artifact"}],
           [call |-> "select", needs |-> {"selected"}],
           [call |-> "download", needs |-> {"installed", "artifact"}]>>

\* What a set of facts bears: the calls all of whose needs are in it.
Borne(facts) == {n \in DOMAIN Calls : Calls[n].needs \subseteq facts}

\* stood: the calls whose needs held together at some moment since the request arrived
NewSync == [pc |-> "new", flaw |-> None, kid |-> None, expires |-> 0, stood |-> {},
            since |-> 0, fetched |-> {}, call |-> 0, status |-> 0]

Published(k) == keyLife[k].from <= now /\ now < keyLife[k].to

PublishedKeys == {k \in KeyIds : Published(k)}

Init ==
    /\ now = 0
    /\ \E first \in KeyIds :
         keyLife = [k \in KeyIds |-> [from |-> IF k = first THEN 0 ELSE Forever, to |-> Forever]]
    /\ standing = Facts
    /\ cache = [keys |-> {}, until |-> 0]
    /\ sync = [s \in Syncs |-> NewSync]
    /\ stored = {}

Moves(s, pc) == sync' = [sync EXCEPT ![s].pc = pc]

\* what the upload was is of no further use
Over(s, pc, status) == sync' = [sync EXCEPT ![s] = [NewSync EXCEPT !.pc = pc, !.status = status]]

Answers(s, status) == Over(s, "answered", status)

\* an answer that a failed call caused, which no upload is owed
Fails(s) == Over(s, "failed", 0)

StatusOf(checks) == (CHOOSE c \in checks : TRUE).status

-----------------------------------------------------------------------------
(* What changes while uploads wait.                                        *)

\* Time does not pass the timeout of a fetch that is under way, nor between the end of
\* a fetch and the lookup, which wait for no input.
Tick ==
    /\ now < MaxTime
    /\ \A s \in Syncs :
        /\ sync[s].pc \in {"fetching", "fetched"} => now < sync[s].since + FetchLimit
        /\ sync[s].pc # "lookup"
    /\ now' = now + 1
    /\ UNCHANGED <<keyLife, standing, cache, sync, stored>>

PublishKey(k) ==
    /\ keyLife[k].from = Forever
    /\ keyLife' = [keyLife EXCEPT ![k].from = now]
    /\ UNCHANGED <<now, standing, cache, sync, stored>>

WithdrawKey(k) ==
    /\ Published(k) /\ PublishedKeys # {k}
    /\ keyLife' = [keyLife EXCEPT ![k].to = now]
    /\ UNCHANGED <<now, standing, cache, sync, stored>>

InService(s) == sync[s].pc \in {"fetching", "fetched", "lookup", "provider", "store"}

\* A fact ceases to hold, or holds again: somebody suspends the app or deselects the
\* repository and undoes it, an artifact is deleted, a run is started anew.
ChangeFact(f) ==
    /\ standing' = IF f \in standing THEN standing \ {f} ELSE standing \cup {f}
    /\ sync' = [s \in Syncs |-> IF InService(s)
                                THEN [sync[s] EXCEPT !.stood = @ \cup Borne(standing')]
                                ELSE sync[s]]
    /\ UNCHANGED <<now, keyLife, cache, stored>>

-----------------------------------------------------------------------------
(* The client.                                                             *)

\* requestOidcToken: the provider signs with a key it publishes at that time
RequestToken(s) ==
    /\ sync[s].pc = "new"
    /\ \E k \in PublishedKeys :
         sync' = [sync EXCEPT ![s].pc = "signed", ![s].kid = k, ![s].expires = now + TokenLife]
    /\ UNCHANGED <<now, keyLife, standing, cache, stored>>

\* An unreadable artifact, a refused token request, or one of the checks of
\* createHostedEnvelope: nothing is sent.
GiveUpEarly(s) ==
    /\ sync[s].pc \in {"new", "signed"}
    /\ Over(s, "failed", 0)
    /\ UNCHANGED <<now, keyLife, standing, cache, stored>>

\* 200, 201 and 409 are success to the client, whatever else the answer is. Its own
\* timeout may have ended the wait at any time before: the server takes no notice.
HearAnswer(s) ==
    /\ sync[s].pc = "answered"
    /\ \E told \in {IF sync[s].status \in {200, 201, 409} THEN "synced" ELSE "failed"}
                    \cup (IF "answer" \in Faults THEN {"failed"} ELSE {}) :
         Over(s, told, 0)
    /\ UNCHANGED <<now, keyLife, standing, cache, stored>>

-----------------------------------------------------------------------------
(* The server.                                                             *)

\* get: a refresh when the cache is over or does not know the key
MustRefresh(s) == now >= cache.until \/ sync[s].kid \notin cache.keys

\* A request arrives, of this client or of another one that may get anything wrong.
\* The handler, the checks on the bytes and on the token's header, and the look into
\* the cache run without a pause.
Receive(s, flaw) ==
    /\ sync[s].pc = "signed"
    /\ LET early == {c \in HandlerChecks \cup ByteChecks \cup HeaderChecks : c.flaw = flaw} IN
       IF early # {} THEN Answers(s, StatusOf(early))
       ELSE sync' = [sync EXCEPT ![s] =
              [@ EXCEPT !.flaw = flaw, !.stood = Borne(standing), !.since = now,
                        !.pc = IF MustRefresh(s) THEN "fetching" ELSE "lookup"]]
    /\ UNCHANGED <<now, keyLife, standing, cache, stored>>

\* the provider answers the fetch with the keys of that moment
KeysAnswered(s) ==
    /\ sync[s].pc = "fetching"
    /\ sync' = [sync EXCEPT ![s].pc = "fetched", ![s].fetched = PublishedKeys]
    /\ UNCHANGED <<now, keyLife, standing, cache, stored>>

\* A body that is refused is an error of the token (401); a fetch that throws, its
\* timeout included, is not one and leaves through the handler (500).
FetchFails(s) ==
    /\ "keys" \in Faults
    /\ sync[s].pc \in {"fetching", "fetched"}
    /\ Fails(s)
    /\ UNCHANGED <<now, keyLife, standing, cache, stored>>

\* Seeded fault: a refresh leaves the end of the cache where it was once set.
RefreshedLife == IF cache.until = 0 THEN Forever ELSE cache.until

\* the keys are dated by their installation, not by the fetch
NewLife == now + CacheLife

InstallKeys(s) ==
    /\ sync[s].pc = "fetched"
    /\ cache' = [keys |-> sync[s].fetched, until |-> NewLife]
    /\ sync' = [sync EXCEPT ![s].pc = "lookup", ![s].fetched = {}]
    /\ UNCHANGED <<now, keyLife, standing, stored>>

TokenOver(s) == sync[s].expires + ClockSkew <= now

\* The lookup after the refresh is a step of its own: another upload's refresh may
\* have replaced the keys in between, also by older ones. Signature, times, authority
\* and claims follow without a pause, and so does the binding of the identity.
VerifyToken(s) ==
    /\ sync[s].pc = "lookup"
    /\ IF sync[s].kid \notin cache.keys \/ TokenOver(s)
       THEN Answers(s, 401)
       ELSE LET c == {x \in TokenChecks \cup IdentityChecks : x.flaw = sync[s].flaw}
            IN IF c # {} THEN Answers(s, StatusOf(c))
               ELSE sync' = [sync EXCEPT ![s] =
                      [NewSync EXCEPT !.pc = "provider", !.call = 1, !.flaw = sync[s].flaw,
                                      !.stood = sync[s].stood]]
    /\ UNCHANGED <<now, keyLife, standing, cache, stored>>

\* Seeded fault: the selection in the directory is not asked for.
SupportedUnselected(s) == Calls[sync[s].call].needs \ {"selected"} \subseteq standing

Supported(s) == Calls[sync[s].call].needs \subseteq standing

\* one call of authorizeUpload; anything but the expected answer denies the upload
CallProvider(s) ==
    /\ sync[s].pc = "provider"
    /\ IF ~Supported(s) THEN Answers(s, 403)
       ELSE IF sync[s].call < Len(Calls) THEN sync' = [sync EXCEPT ![s].call = @ + 1]
       ELSE Moves(s, "store")
    /\ UNCHANGED <<now, keyLife, standing, cache, stored>>

\* a call that fails or times out, a bad token or a bad archive: the catch denies too
ProviderFails(s) ==
    /\ "provider" \in Faults
    /\ sync[s].pc = "provider"
    /\ Fails(s)
    /\ UNCHANGED <<now, keyLife, standing, cache, stored>>

\* the binding of the envelope to what was downloaded, then persistence.ingest: stored,
\* a duplicate of an earlier copy, over a quota, or an error
Store(s) ==
    /\ sync[s].pc = "store"
    /\ LET c == {x \in SourceChecks : x.flaw = sync[s].flaw} IN
       IF c # {} THEN Answers(s, StatusOf(c)) /\ UNCHANGED stored
       ELSE \/ /\ \E status \in {201, 409} : Answers(s, status)
               /\ stored' = stored \cup {s}
            \/ Answers(s, 429) /\ UNCHANGED stored
            \/ "store" \in Faults /\ Fails(s) /\ stored' \in {stored, stored \cup {s}}
    /\ UNCHANGED <<now, keyLife, standing, cache>>

ClientStep(s) ==
    RequestToken(s) \/ GiveUpEarly(s) \/ HearAnswer(s)

ServerStep(s) ==
    \/ \E f \in {None} \cup Flaws : Receive(s, f)
    \/ KeysAnswered(s) \/ FetchFails(s) \/ InstallKeys(s)
    \/ VerifyToken(s) \/ CallProvider(s) \/ ProviderFails(s) \/ Store(s)

Next ==
    \/ Tick
    \/ \E k \in KeyIds : PublishKey(k) \/ WithdrawKey(k)
    \/ \E f \in Changing : ChangeFact(f)
    \/ \E s \in Syncs : ClientStep(s) \/ ServerStep(s)

Spec == Init /\ [][Next]_vars

-----------------------------------------------------------------------------
(* What is stored was authorised by facts of its own time, although they   *)
(* come and go while the calls are made: what each call asks for held,     *)
(* all of it together, at some moment since the request arrived.  No       *)
(* answer is older than the request, and no call is skipped on any way.    *)
StoredWasBound ==
    [][\A s \in stored' \ stored :
        sync[s].flaw = None /\ sync[s].stood = DOMAIN Calls]_vars

(* The cache bounds the trust in a withdrawn key: a token is accepted only *)
(* if its key was published within the life of the cache and the timeout   *)
(* of a fetch before, although keys are dated by their installation and    *)
(* concurrent refreshes may install the older set last.                    *)
KeyTrustIsBounded ==
    [][\A s \in Syncs : sync[s].pc = "lookup" /\ sync'[s].pc = "provider" =>
        keyLife[sync[s].kid].to + CacheLife + FetchLimit >= now]_vars
=============================================================================
