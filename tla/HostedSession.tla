---------------------------- MODULE HostedSession ----------------------------
(***************************************************************************)
(* HostedBrowserAuthService over PostgresHostedBrowserIdentityStore.       *)
(*                                                                         *)
(* A login attempt is opened once and may be called back several times.  A *)
(* session keeps the provider's credential, sealed: an access token that   *)
(* must be renewed before it ends and a refresh token that the provider    *)
(* accepts once (an assumption about the provider: each refresh hands out  *)
(* the next generation and ends the one before).  Every database statement *)
(* and every provider call is an action, for each is awaited and other     *)
(* requests of the same session run meanwhile.                             *)
(***************************************************************************)
EXTENDS Integers, FiniteSets

CONSTANTS
    Callbacks,      \* calls of completeLogin, all with the state of one attempt
    Strangers,      \* those that come from a browser with another binding
    Requests,       \* calls of authorize
    ActionOf,       \* what each request asks for
    ForeignTenant,  \* the requests that name a tenant the session is not of
    LoginTtl,       \* 10 minutes
    SessionMax,     \* 8 hours
    RenewWindow,    \* 5 minutes
    AccessLives,    \* expires_in values the provider may answer
    Grantable,      \* roles the membership may take; "none" stands for revoked
    RefreshLives,   \* refresh_token_expires_in values the provider may answer
    MaxTime,        \* bound: the clock stops here
    MaxGeneration,  \* bound: refreshes of one credential
    Faults          \* "provider": a call fails; "lost": its answer is lost;
                    \* "crash": the process dies; "database": a statement fails

roleRank == [none |-> 0, viewer |-> 1, reviewer |-> 2, admin |-> 3, owner |-> 4]
Roles == DOMAIN roleRank

minimumRole == [read |-> "viewer", appendDecision |-> "reviewer", auditExport |-> "admin",
                repositoryAdmin |-> "admin", tenantAdmin |-> "owner"]

\* a row, a credential or a request that is not there
None == [kind |-> "none"]

ASSUME SessionAssumption ==
    /\ Strangers \subseteq Callbacks
    /\ ActionOf \in [Requests -> DOMAIN minimumRole]
    /\ ForeignTenant \subseteq Requests
    /\ None \notin Requests     \* a request is told from no request
    /\ {LoginTtl, SessionMax, MaxTime, MaxGeneration} \subseteq Nat \ {0}
    /\ RenewWindow \in Nat
    /\ Grantable \subseteq Roles
    /\ AccessLives \subseteq Nat /\ RefreshLives \subseteq Nat
    /\ Faults \subseteq {"provider", "lost", "crash", "database"}

VARIABLES
    now,        \* the clock
    attempt,    \* hosted_login_attempts: the one row
    sessions,   \* hosted_browser_sessions: the row each callback inserted
    latest,     \* provider: the generation it honours of each credential
    standing,   \* the role of the membership, whether the repository is selected
    login,      \* where each callback stands
    request,    \* where each request stands
    audited,    \* callbacks with an authenticate event, accepted or rejected
    spender,    \* history: the request that refreshed each credential last
    backed      \* history: requests whose action the standing has allowed, at some
                \* moment since they arrived

vars == <<now, attempt, sessions, latest, standing, login, request, audited, spender, backed>>

-----------------------------------------------------------------------------
LoginOver == {"done", "invalid", "refused", "unavailable", "dead"}
RequestOver == {"granted", "unauthenticated", "denied", "refused", "unavailable", "dead"}

\* assertRefreshableCredential, against the time the caller read before the call
Refreshable(credential, at) ==
    /\ credential.accessExpires > at
    /\ credential.accessExpires <= at + SessionMax
    /\ credential.refreshExpires > at

\* what #token makes of an answer it receives now
Issued(generation, accessLife, refreshLife) ==
    [generation |-> generation, accessExpires |-> now + accessLife,
     refreshExpires |-> now + refreshLife]

\* hosted_load_browser_session
Loadable(session, at) == session # None /\ ~session.revoked /\ session.expires > at

SessionExpiry(credential, at) ==
    IF credential.refreshExpires < at + SessionMax THEN credential.refreshExpires
    ELSE at + SessionMax

Sufficient(role, action) == roleRank[role] >= roleRank[minimumRole[action]]

\* what is not running keeps nothing
LoginRest(pc) == [pc |-> pc, at |-> 0, credential |-> None]
Rest(pc) == [pc |-> pc, at |-> 0, of |-> None, credential |-> None, role |-> "none"]

Init ==
    /\ now = 0
    /\ attempt = [state |-> "none", expires |-> 0]
    /\ sessions = [c \in Callbacks |-> None]
    /\ latest = [c \in Callbacks |-> 0]
    /\ standing = [role |-> "reviewer", selected |-> TRUE]
    /\ login = [c \in Callbacks |-> LoginRest("idle")]
    /\ request = [r \in Requests |-> Rest("idle")]
    /\ audited = {}
    /\ spender = [c \in Callbacks |-> None]
    /\ backed = {}

-----------------------------------------------------------------------------
(* The environment: time, and administrators.                              *)

Tick ==
    /\ now < MaxTime
    /\ now' = now + 1
    /\ UNCHANGED <<attempt, sessions, latest, standing, login, request, audited, spender, backed>>

\* A role and the selection, as they stand at one moment, allow what the request asks.
Allows(s, r) == s.selected /\ Sufficient(s.role, ActionOf[r])

InProgress(r) == request[r].pc \notin RequestOver \cup {"idle"}

\* A membership is granted, changed or revoked; a repository is selected or not.
ChangeStanding ==
    /\ \/ \E r \in Grantable : standing' = [standing EXCEPT !.role = r]
       \/ standing' = [standing EXCEPT !.selected = ~standing.selected]
    /\ backed' = backed \cup {r \in Requests : InProgress(r) /\ Allows(standing', r)}
    /\ UNCHANGED <<now, attempt, sessions, latest, login, request, audited, spender>>

-----------------------------------------------------------------------------
(* beginLogin and completeLogin.                                           *)

LoginMoves(c, pc) == login' = [login EXCEPT ![c].pc = pc]
LoginEnds(c, pc) == login' = [login EXCEPT ![c] = LoginRest(pc)]

BeginLogin ==
    /\ attempt.state = "none"
    /\ attempt' = [state |-> "open", expires |-> now + LoginTtl]
    /\ UNCHANGED <<now, sessions, latest, standing, login, request, audited, spender, backed>>

\* one UPDATE ... RETURNING: only one callback can see the attempt unconsumed
Consumable(c) ==
    /\ attempt.state = "open"
    /\ c \notin Strangers
    /\ attempt.expires > now

ConsumeAttempt(c) ==
    /\ login[c].pc = "idle"
    /\ attempt.state # "none"
    /\ IF Consumable(c)
       THEN /\ attempt' = [attempt EXCEPT !.state = "consumed"]
            /\ login' = [login EXCEPT ![c].pc = "exchange", ![c].at = now]
       ELSE /\ LoginEnds(c, "invalid")
            /\ UNCHANGED attempt
    /\ UNCHANGED <<now, sessions, latest, standing, request, audited, spender, backed>>

\* the catch blocks: the rejection is recorded before the error is thrown
RejectLogin(c, pc) == LoginEnds(c, pc) /\ audited' = audited \cup {c}

ExchangeCode(c) ==
    /\ login[c].pc = "exchange"
    /\ \/ \E a \in AccessLives, f \in RefreshLives :
            LET credential == Issued(1, a, f) IN
            /\ latest' = [latest EXCEPT ![c] = 1]
            /\ IF Refreshable(credential, login[c].at)
               THEN /\ login' = [login EXCEPT ![c].pc = "identify", ![c].credential = credential]
                    /\ UNCHANGED audited
               ELSE RejectLogin(c, "refused")
       \/ /\ "provider" \in Faults
          /\ RejectLogin(c, "unavailable")
          /\ UNCHANGED latest
    /\ UNCHANGED <<now, attempt, sessions, standing, request, spender, backed>>

IdentifyUser(c) ==
    /\ login[c].pc = "identify"
    /\ \/ LoginMoves(c, "actor") /\ UNCHANGED audited
       \/ "provider" \in Faults /\ RejectLogin(c, "unavailable")
    /\ UNCHANGED <<now, attempt, sessions, latest, standing, request, spender, backed>>

\* a transaction of its own; the row it writes is the same however often it is written
UpsertActor(c) ==
    /\ login[c].pc = "actor"
    /\ LoginMoves(c, "create")
    /\ UNCHANGED <<now, attempt, sessions, latest, standing, request, audited, spender, backed>>

CreateSession(c) ==
    /\ login[c].pc = "create"
    /\ sessions' = [sessions EXCEPT ![c] =
            [kind |-> "session", credential |-> login[c].credential, revoked |-> FALSE,
             expires |-> SessionExpiry(login[c].credential, login[c].at)]]
    /\ audited' = audited \cup {c}
    /\ LoginEnds(c, "done")
    /\ UNCHANGED <<now, attempt, latest, standing, request, spender, backed>>

-----------------------------------------------------------------------------
(* authorize.                                                              *)

RequestMoves(r, pc) == request' = [request EXCEPT ![r].pc = pc]
RequestEnds(r, pc) == request' = [request EXCEPT ![r] = Rest(pc)]

Dying(credential, at) == credential.refreshExpires <= at
NearEnd(credential, at) == credential.accessExpires <= at + RenewWindow

AfterLoad(credential) ==
    IF Dying(credential, now) THEN "revoke"
    ELSE IF NearEnd(credential, now) THEN "refresh" ELSE "context"

LoadSession(r) ==
    /\ request[r].pc = "idle"
    /\ \E c \in Callbacks :
        /\ sessions[c] # None
        /\ IF Loadable(sessions[c], now) /\ r \notin ForeignTenant
           THEN request' = [request EXCEPT
                    ![r].pc = AfterLoad(sessions[c].credential),
                    ![r].at = now, ![r].of = c, ![r].credential = sessions[c].credential]
           ELSE RequestEnds(r, "unauthenticated")
    /\ backed' = backed \cup {q \in {r} : Allows(standing, q)}
    /\ UNCHANGED <<now, attempt, sessions, latest, standing, login, audited, spender>>

\* coalesce(revoked_at, $3): a session that is revoked stays so
RevokeSession(r) ==
    /\ request[r].pc = "revoke"
    /\ sessions' = [sessions EXCEPT ![request[r].of].revoked = TRUE]
    /\ RequestEnds(r, "unauthenticated")
    /\ UNCHANGED <<now, attempt, latest, standing, login, audited, spender, backed>>

\* Seeded fault: when the provider turns the refresh away, the credential the
\* request holds is used and stored again.
RefreshOrKeep(r) ==
    LET c == request[r].of  g == request[r].credential.generation IN
    /\ request[r].pc = "refresh"
    /\ latest[c] < MaxGeneration
    /\ \/ /\ latest[c] = g
          /\ latest' = [latest EXCEPT ![c] = g + 1]
          /\ spender' = [spender EXCEPT ![c] = r]
          /\ request' = [request EXCEPT ![r].pc = "update",
                                        ![r].credential = Issued(g + 1, SessionMax, SessionMax)]
       \/ /\ latest[c] # g
          /\ RequestMoves(r, "update")
          /\ UNCHANGED <<latest, spender>>
    /\ UNCHANGED <<now, attempt, sessions, standing, login, audited, backed>>

\* refreshUserCredential: a generation already refreshed is turned away
RefreshCredential(r) ==
    LET c == request[r].of  g == request[r].credential.generation IN
    /\ request[r].pc = "refresh"
    /\ latest[c] < MaxGeneration
    /\ \/ /\ latest[c] = g
          /\ latest' = [latest EXCEPT ![c] = g + 1]
          /\ spender' = [spender EXCEPT ![c] = r]
          /\ \/ \E a \in AccessLives, f \in RefreshLives :
                  LET credential == Issued(g + 1, a, f) IN
                  IF Refreshable(credential, request[r].at)
                  THEN request' = [request EXCEPT ![r].pc = "update",
                                                  ![r].credential = credential]
                  ELSE RequestEnds(r, "refused")
             \/ "lost" \in Faults /\ RequestEnds(r, "unavailable")
       \/ /\ latest[c] # g \/ "provider" \in Faults
          /\ RequestEnds(r, "unavailable")
          /\ UNCHANGED <<latest, spender>>
    /\ UNCHANGED <<now, attempt, sessions, standing, login, audited, backed>>

\* WHERE revoked_at IS NULL AND expires_at > now, with the time read at the start
Updatable(session, at) == Loadable(session, at)

\* Seeded fault: the new credential serves the request and is not stored.
UpdateCredentialInMemory(r) ==
    /\ request[r].pc = "update"
    /\ RequestMoves(r, "context")
    /\ UNCHANGED <<now, attempt, sessions, latest, standing, login, audited, spender, backed>>

UpdateCredential(r) ==
    LET c == request[r].of IN
    /\ request[r].pc = "update"
    /\ IF Updatable(sessions[c], request[r].at)
       THEN /\ sessions' = [sessions EXCEPT ![c].credential = request[r].credential]
            /\ RequestMoves(r, "context")
       ELSE /\ RequestEnds(r, "unavailable")
            /\ UNCHANGED sessions
    /\ UNCHANGED <<now, attempt, latest, standing, login, audited, spender, backed>>

\* Seeded fault: the role of a revoked membership still counts.
LoadedRoleOfRevoked == IF standing.role = "none" THEN "reviewer" ELSE standing.role

\* m.revoked_at IS NULL AND r.selected: a revoked membership has no role
LoadedRole == standing.role

LoadAccessContext(r) ==
    /\ request[r].pc = "context"
    /\ IF LoadedRole = "none" \/ ~standing.selected
       THEN RequestEnds(r, "denied")
       ELSE request' = [request EXCEPT ![r].pc = "revalidate", ![r].role = LoadedRole]
    /\ UNCHANGED <<now, attempt, sessions, latest, standing, login, audited, spender, backed>>

\* The provider honours only the newest generation, and only while it lasts; what it
\* says of the user's access to the repository is its own affair.
Honoured(r) ==
    /\ latest[request[r].of] = request[r].credential.generation
    /\ request[r].credential.accessExpires > now

RevalidateAccess(r) ==
    /\ request[r].pc = "revalidate"
    /\ \/ "provider" \in Faults /\ RequestEnds(r, "unavailable")
       \/ RequestEnds(r, "denied")
       \/ /\ Honoured(r)
          /\ Sufficient(request[r].role, ActionOf[r])
          /\ RequestEnds(r, "granted")
    /\ UNCHANGED <<now, attempt, sessions, latest, standing, login, audited, spender, backed>>

\* a failed statement: 503 within the credential block, an exception elsewhere
StatementFails(r) ==
    /\ "database" \in Faults
    /\ request[r].pc \in {"revoke", "update", "context"}
    /\ RequestEnds(r, "unavailable")
    /\ UNCHANGED <<now, attempt, sessions, latest, standing, login, audited, spender, backed>>

Crash ==
    /\ "crash" \in Faults
    /\ \/ \E c \in Callbacks : /\ login[c].pc \notin LoginOver \cup {"idle"}
                               /\ LoginEnds(c, "dead") /\ UNCHANGED request
       \/ \E r \in Requests : /\ request[r].pc \notin RequestOver \cup {"idle"}
                              /\ RequestEnds(r, "dead") /\ UNCHANGED login
    /\ UNCHANGED <<now, attempt, sessions, latest, standing, audited, spender, backed>>

LoginStep(c) ==
    ConsumeAttempt(c) \/ ExchangeCode(c) \/ IdentifyUser(c) \/ UpsertActor(c) \/ CreateSession(c)

AuthorizeStep(r) ==
    \/ LoadSession(r) \/ RevokeSession(r) \/ RefreshCredential(r) \/ UpdateCredential(r)
    \/ LoadAccessContext(r) \/ RevalidateAccess(r) \/ StatementFails(r)

Next ==
    \/ Tick \/ ChangeStanding \/ BeginLogin \/ Crash
    \/ \E c \in Callbacks : LoginStep(c)
    \/ \E r \in Requests : AuthorizeStep(r)

Spec == Init /\ [][Next]_vars

-----------------------------------------------------------------------------
(* Refreshes of one session that overlap cannot bring an older credential  *)
(* back: the update is last-writer-wins, yet what is stored moves forward. *)
CredentialMovesForward ==
    [][\A c \in Callbacks : sessions[c] # None =>
        /\ sessions'[c].credential.generation >= sessions[c].credential.generation
        /\ sessions[c].revoked => sessions'[c] = sessions[c]]_vars

(* A session whose stored refresh token is spent, so that it can never be  *)
(* renewed again, is owed to the one request that refreshed it: that one   *)
(* is still on its way to the update, or it died, lost the answer, failed  *)
(* in the update, or turned the new credential away.  Requests that merely *)
(* overlap do not strand their session.                                    *)
Stranded(c) ==
    /\ sessions[c] # None /\ ~sessions[c].revoked
    /\ sessions[c].credential.generation # latest[c]

StrandedOnlyByFault ==
    \A c \in Callbacks : Stranded(c) =>
        /\ spender[c] # None
        /\ request[spender[c]].pc \in {"update", "dead", "unavailable", "refused"}

(* A request is granted only what its user was allowed at some moment      *)
(* since it arrived, by a role and a selection that held together: a       *)
(* standing withdrawn before is never honoured, nor is a role paired with  *)
(* the selection of another moment, however often both change while the    *)
(* credential is refreshed and the provider asked.  A role withdrawn after *)
(* it was read still grants: it is not read again.                         *)
GrantIsBacked == \A r \in Requests : request[r].pc = "granted" => r \in backed
=============================================================================
