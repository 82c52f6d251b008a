------------------------- MODULE HostedSessionProofs -------------------------
(***************************************************************************)
(* Theorems about HostedSession, for any number of callbacks and requests,  *)
(* any clock and any answers of the provider.                               *)
(*                                                                          *)
(* hosted_update_browser_session compares no version, so nothing in the     *)
(* database keeps an older credential from overwriting a newer one.  The    *)
(* invariant says what does: a refresh token is good once, so at any time   *)
(* one request at most is on its way to the update, its credential is the   *)
(* newest there is, and everybody else holds an older one.                  *)
(***************************************************************************)
EXTENDS HostedSession, TLAPS

Credential == [generation : Nat, accessExpires : Nat, refreshExpires : Nat]

Session == [kind : {"session"}, credential : Credential, revoked : BOOLEAN, expires : Nat]

LoginHolding == {"identify", "actor", "create"}
Running == {"revoke", "refresh", "update", "context", "revalidate"}

LoginRecord ==
    [pc : {"idle", "exchange"} \cup LoginHolding \cup LoginOver, at : Nat,
     credential : Credential \cup {None}]

RequestRecord ==
    [pc : {"idle"} \cup Running \cup RequestOver, at : Nat, of : Callbacks \cup {None},
     credential : Credential \cup {None}, role : Roles]

TypeOK ==
    /\ now \in Nat
    /\ attempt \in [state : {"none", "open", "consumed"}, expires : Nat]
    /\ sessions \in [Callbacks -> Session \cup {None}]
    /\ latest \in [Callbacks -> Nat]
    /\ standing \in [role : Roles, selected : BOOLEAN]
    /\ login \in [Callbacks -> LoginRecord]
    /\ request \in [Requests -> RequestRecord]
    /\ audited \in SUBSET Callbacks
    /\ spender \in [Callbacks -> Requests \cup {None}]
    /\ backed \in SUBSET Requests

\* A callback has its credential until it has inserted its session, and there
\* is no session, nor a credential of one, before.
LoginInv ==
    \A c \in Callbacks :
        /\ login[c].pc \in {"idle", "exchange"} => latest[c] = 0
        /\ login[c].pc \in LoginHolding =>
              /\ login[c].credential \in Credential
              /\ login[c].credential.generation = 1
              /\ latest[c] = 1
        /\ sessions[c] # None => login[c].pc = "done"

\* What is stored was issued.
StoredInv ==
    \A c \in Callbacks :
        sessions[c] # None => sessions[c].credential.generation <= latest[c]

\* What a request holds was issued, for a session that exists.
HeldInv ==
    \A r \in Requests : request[r].pc \in Running =>
        /\ request[r].of \in Callbacks
        /\ sessions[request[r].of] # None
        /\ request[r].credential \in Credential
        /\ request[r].credential.generation <= latest[request[r].of]

\* The request on its way to the update has the newest credential of its
\* session, it alone.
UpdateInv ==
    \A r \in Requests : request[r].pc = "update" =>
        LET c == request[r].of IN
        /\ request[r].credential.generation = latest[c]
        /\ spender[c] = r
        /\ sessions[c].credential.generation < latest[c]
        /\ \A q \in Requests \ {r} : request[q].pc \in Running /\ request[q].of = c =>
              request[q].credential.generation < latest[c]

\* The request that refreshed a credential last has left the refresh, and while
\* it runs it runs for that session.
SpenderInv ==
    \A c \in Callbacks : spender[c] \in Requests =>
        LET s == request[spender[c]] IN
        /\ s.pc # "idle"
        /\ s.pc \in Running => s.of = c

\* A stored credential that is not the newest has a request to answer for it.
SpentInv ==
    \A c \in Callbacks :
        sessions[c] # None /\ sessions[c].credential.generation # latest[c] =>
            /\ spender[c] \in Requests
            /\ request[spender[c]].pc \in {"update", "dead", "unavailable", "refused"}

\* A request that the standing allows now was backed, and so was one that has read a
\* role that suffices.
StandingInv ==
    \A r \in Requests :
        /\ request[r].pc \in Running /\ Allows(standing, r) => r \in backed
        /\ request[r].pc = "revalidate" /\ Sufficient(request[r].role, ActionOf[r]) =>
              r \in backed
        /\ request[r].pc = "granted" => r \in backed

SessionInv ==
    /\ TypeOK /\ LoginInv /\ StoredInv /\ HeldInv /\ UpdateInv /\ SpenderInv /\ SpentInv
    /\ StandingInv

-----------------------------------------------------------------------------
\* A credential that is issued now is one.
LEMMA IssuedType ==
    ASSUME TypeOK, NEW g \in Nat, NEW a \in Nat, NEW f \in Nat
    PROVE  Issued(g, a, f) \in Credential /\ Issued(g, a, f).generation = g
BY DEF Issued, Credential, TypeOK

\* The updates of a callback's record that change more than where it stands.
LEMMA LoginFields ==
    ASSUME NEW f \in [Callbacks -> LoginRecord], NEW c \in Callbacks
    PROVE  /\ \A n \in Nat :
                [f EXCEPT ![c].pc = "exchange", ![c].at = n] \in [Callbacks -> LoginRecord]
           /\ \A k \in Credential :
                [f EXCEPT ![c].pc = "identify", ![c].credential = k] \in [Callbacks -> LoginRecord]
<1>1. ASSUME NEW n \in Nat
      PROVE  [f EXCEPT ![c].pc = "exchange", ![c].at = n] \in [Callbacks -> LoginRecord]
  BY DEF LoginRecord
<1>2. ASSUME NEW k \in Credential
      PROVE  [f EXCEPT ![c].pc = "identify", ![c].credential = k] \in [Callbacks -> LoginRecord]
  BY DEF LoginRecord, LoginHolding
<1>3. QED
  BY <1>1, <1>2

\* The updates of a request's record that change more than where it stands.
LEMMA RequestFields ==
    ASSUME NEW f \in [Requests -> RequestRecord], NEW r \in Requests
    PROVE  /\ \A k \in Credential :
                [f EXCEPT ![r].pc = "update", ![r].credential = k] \in [Requests -> RequestRecord]
           /\ \A role \in Roles :
                [f EXCEPT ![r].pc = "revalidate", ![r].role = role] \in [Requests -> RequestRecord]
           /\ \A pc \in Running, n \in Nat, c \in Callbacks, k \in Credential :
                [f EXCEPT ![r].pc = pc, ![r].at = n, ![r].of = c, ![r].credential = k]
                    \in [Requests -> RequestRecord]
<1>1. ASSUME NEW k \in Credential
      PROVE  [f EXCEPT ![r].pc = "update", ![r].credential = k] \in [Requests -> RequestRecord]
  BY DEF RequestRecord, Running
<1>2. ASSUME NEW role \in Roles
      PROVE  [f EXCEPT ![r].pc = "revalidate", ![r].role = role] \in [Requests -> RequestRecord]
  BY DEF RequestRecord, Running
<1>3. ASSUME NEW pc \in Running, NEW n \in Nat, NEW c \in Callbacks, NEW k \in Credential
      PROVE  [f EXCEPT ![r].pc = pc, ![r].at = n, ![r].of = c, ![r].credential = k]
                \in [Requests -> RequestRecord]
  <2>1. [f EXCEPT ![r].pc = pc, ![r].at = n] \in [Requests -> RequestRecord]
    BY DEF RequestRecord
  <2>2. ASSUME NEW g \in [Requests -> RequestRecord]
        PROVE  [g EXCEPT ![r].of = c, ![r].credential = k] \in [Requests -> RequestRecord]
    BY DEF RequestRecord
  <2>3. QED
    BY <2>1, <2>2
<1>4. QED
  BY <1>1, <1>2, <1>3

\* Where a callback goes, its record keeps its type.
LEMMA LoginRecordType ==
    ASSUME TypeOK, NEW c \in Callbacks, NEW pc \in LoginHolding \cup LoginOver
    PROVE  /\ LoginEnds(c, pc) => login' \in [Callbacks -> LoginRecord]
           /\ LoginMoves(c, pc) => login' \in [Callbacks -> LoginRecord]
<1>1. LoginRest(pc) \in LoginRecord
  BY DEF LoginRest, LoginRecord
<1>2. [login[c] EXCEPT !.pc = pc] \in LoginRecord
  BY DEF TypeOK, LoginRecord
<1>3. QED
  BY <1>1, <1>2 DEF TypeOK, LoginEnds, LoginMoves

\* Where a request goes, its record keeps its type.
LEMMA RequestRecordType ==
    ASSUME TypeOK, NEW r \in Requests, NEW pc \in Running \cup RequestOver
    PROVE  /\ RequestEnds(r, pc) => request' \in [Requests -> RequestRecord]
           /\ RequestMoves(r, pc) => request' \in [Requests -> RequestRecord]
<1>1. Rest(pc) \in RequestRecord
  BY DEF Rest, RequestRecord, Roles, roleRank
<1>2. [request[r] EXCEPT !.pc = pc] \in RequestRecord
  BY DEF TypeOK, RequestRecord
<1>3. QED
  BY <1>1, <1>2 DEF TypeOK, RequestEnds, RequestMoves

\* A step of completeLogin keeps the types.
LEMMA LoginStepType ==
    ASSUME SessionInv, NEW c \in Callbacks, LoginStep(c)
    PROVE  TypeOK'
<1> USE DEF LoginHolding, LoginOver
<1>t. TypeOK
  BY DEF SessionInv
<1>1. CASE ConsumeAttempt(c)
  <2>1. [login EXCEPT ![c].pc = "exchange", ![c].at = now] \in [Callbacks -> LoginRecord]
    BY <1>t, LoginFields DEF TypeOK
  <2>2. login' \in [Callbacks -> LoginRecord]
    BY <1>t, <1>1, <2>1, LoginRecordType DEF ConsumeAttempt, TypeOK
  <2>3. attempt' \in [state : {"none", "open", "consumed"}, expires : Nat]
    BY <1>t, <1>1 DEF ConsumeAttempt, TypeOK
  <2>4. QED
    BY <1>t, <1>1, <2>2, <2>3 DEF ConsumeAttempt, TypeOK
<1>2. CASE ExchangeCode(c)
  <2>1. ASSUME NEW a \in AccessLives, NEW f \in RefreshLives
        PROVE  Issued(1, a, f) \in Credential
    BY <1>t, IssuedType, SessionAssumption
  <2>2. ASSUME NEW k \in Credential
        PROVE  [login EXCEPT ![c].pc = "identify", ![c].credential = k]
                  \in [Callbacks -> LoginRecord]
    BY <1>t, LoginFields DEF TypeOK
  <2>3. login' \in [Callbacks -> LoginRecord]
    <3>1. \/ LoginEnds(c, "refused") \/ LoginEnds(c, "unavailable")
          \/ \E k \in Credential :
                login' = [login EXCEPT ![c].pc = "identify", ![c].credential = k]
      BY <1>2, <2>1 DEF ExchangeCode, RejectLogin
    <3>2. QED
      BY <1>t, <2>2, <3>1, LoginRecordType
  <2>4. QED
    BY <1>t, <1>2, <2>3 DEF ExchangeCode, RejectLogin, TypeOK
<1>3. CASE IdentifyUser(c)
  <2>1. login' \in [Callbacks -> LoginRecord]
    BY <1>t, <1>3, LoginRecordType DEF IdentifyUser, RejectLogin
  <2>2. QED
    BY <1>t, <1>3, <2>1 DEF IdentifyUser, RejectLogin, TypeOK
<1>4. CASE UpsertActor(c)
  BY <1>t, <1>4, LoginRecordType DEF UpsertActor, TypeOK
<1>5. CASE CreateSession(c)
  <2>1. login[c].credential \in Credential /\ login[c].at \in Nat
    BY <1>t, <1>5 DEF CreateSession, SessionInv, LoginInv, TypeOK, LoginRecord
  <2>2. SessionExpiry(login[c].credential, login[c].at) \in Nat
    BY <2>1, SessionAssumption DEF SessionExpiry, Credential
  <2>3. sessions' \in [Callbacks -> Session \cup {None}]
    BY <1>t, <1>5, <2>1, <2>2 DEF CreateSession, Session, TypeOK
  <2>4. QED
    BY <1>t, <1>5, <2>3, LoginRecordType DEF CreateSession, TypeOK
<1>6. QED
  BY <1>1, <1>2, <1>3, <1>4, <1>5 DEF LoginStep

\* A step of authorize keeps the types.
LEMMA AuthorizeStepType ==
    ASSUME SessionInv, NEW r \in Requests, AuthorizeStep(r)
    PROVE  TypeOK'
<1> USE DEF Running, RequestOver
<1> DEFINE s == request[r]  c == request[r].of
<1>t. TypeOK
  BY DEF SessionInv
<1>h. s.pc \in Running => /\ c \in Callbacks
                          /\ sessions[c] \in Session
                          /\ s.credential \in Credential
  BY <1>t DEF SessionInv, HeldInv, TypeOK
<1>1. CASE LoadSession(r)
  <2>1. ASSUME NEW d \in Callbacks, sessions[d] # None, NEW pc \in Running
        PROVE  [request EXCEPT ![r].pc = pc, ![r].at = now, ![r].of = d,
                               ![r].credential = sessions[d].credential]
                  \in [Requests -> RequestRecord]
    <3> HIDE DEF Running
    <3>1. /\ request \in [Requests -> RequestRecord]
          /\ now \in Nat
          /\ sessions[d].credential \in Credential
      BY <1>t, <2>1 DEF TypeOK, Session
    <3>2. QED
      BY <3>1, RequestFields
  <2>2. request' \in [Requests -> RequestRecord]
    <3>1. \/ RequestEnds(r, "unauthenticated")
          \/ \E d \in Callbacks, pc \in Running :
                /\ sessions[d] # None
                /\ request' = [request EXCEPT ![r].pc = pc, ![r].at = now, ![r].of = d,
                                               ![r].credential = sessions[d].credential]
      BY <1>1 DEF LoadSession, AfterLoad
    <3> HIDE DEF Running
    <3>2. CASE RequestEnds(r, "unauthenticated")
      BY <1>t, <3>2, RequestRecordType
    <3>3. ASSUME NEW d \in Callbacks, NEW pc \in Running, sessions[d] # None,
                 request' = [request EXCEPT ![r].pc = pc, ![r].at = now, ![r].of = d,
                                            ![r].credential = sessions[d].credential]
          PROVE  request' \in [Requests -> RequestRecord]
      BY <2>1, <3>3
    <3>4. QED
      BY <3>1, <3>2, <3>3
  <2>3. QED
    BY <1>t, <1>1, <2>2 DEF LoadSession, TypeOK
<1>2. CASE RevokeSession(r)
  <2>1. [sessions[c] EXCEPT !.revoked = TRUE] \in Session
    BY <1>h, <1>2 DEF RevokeSession, Session
  <2>2. QED
    BY <1>t, <1>h, <1>2, <2>1, RequestRecordType DEF RevokeSession, TypeOK
<1>3. CASE RefreshCredential(r)
  <2>1. c \in Callbacks /\ s.credential.generation \in Nat
    BY <1>h, <1>3 DEF RefreshCredential, Credential
  <2>2. ASSUME NEW a \in AccessLives, NEW f \in RefreshLives
        PROVE  Issued(s.credential.generation + 1, a, f) \in Credential
    <3>1. s.credential.generation + 1 \in Nat /\ a \in Nat /\ f \in Nat
      BY <2>1, SessionAssumption
    <3>2. QED
      BY <1>t, <3>1, IssuedType
  <2>3. ASSUME NEW k \in Credential
        PROVE  [request EXCEPT ![r].pc = "update", ![r].credential = k]
                  \in [Requests -> RequestRecord]
    <3>1. request \in [Requests -> RequestRecord] /\ standing.role \in Roles
      BY <1>t DEF TypeOK
    <3>2. QED
      BY <3>1, RequestFields
  <2>4. request' \in [Requests -> RequestRecord]
    <3>1. \/ RequestEnds(r, "refused") \/ RequestEnds(r, "unavailable")
          \/ \E k \in Credential :
                request' = [request EXCEPT ![r].pc = "update", ![r].credential = k]
      BY <1>3, <2>2 DEF RefreshCredential
    <3>2. QED
      BY <1>t, <2>3, <3>1, RequestRecordType
  <2>5. latest' \in [Callbacks -> Nat] /\ spender' \in [Callbacks -> Requests \cup {None}]
    BY <1>t, <1>3, <2>1 DEF RefreshCredential, TypeOK
  <2>6. QED
    BY <1>t, <1>3, <2>4, <2>5 DEF RefreshCredential, TypeOK
<1>4. CASE UpdateCredential(r)
  <2>1. [sessions[c] EXCEPT !.credential = s.credential] \in Session
    BY <1>h, <1>4 DEF UpdateCredential, Session
  <2>2. QED
    BY <1>t, <1>h, <1>4, <2>1, RequestRecordType DEF UpdateCredential, TypeOK
<1>5. CASE LoadAccessContext(r)
  <2>1. [request EXCEPT ![r].pc = "revalidate", ![r].role = standing.role]
            \in [Requests -> RequestRecord]
    <3>1. request \in [Requests -> RequestRecord] /\ standing.role \in Roles
      BY <1>t DEF TypeOK
    <3>2. QED
      BY <3>1, RequestFields, ZenonT(40)
  <2>2. request' \in [Requests -> RequestRecord]
    BY <1>t, <1>5, <2>1, RequestRecordType DEF LoadAccessContext, LoadedRole, TypeOK
  <2>3. QED
    BY <1>t, <1>5, <2>2 DEF LoadAccessContext, TypeOK
<1>6. CASE RevalidateAccess(r)
  <2>1. request' \in [Requests -> RequestRecord]
    BY <1>t, <1>6, RequestRecordType DEF RevalidateAccess
  <2>2. QED
    BY <1>t, <1>6, <2>1 DEF RevalidateAccess, TypeOK
<1>7. CASE StatementFails(r)
  BY <1>t, <1>7, RequestRecordType DEF StatementFails, TypeOK
<1>8. QED
  BY <1>1, <1>2, <1>3, <1>4, <1>5, <1>6, <1>7 DEF AuthorizeStep

\* Every step keeps the types.
LEMMA TypeStep ==
    ASSUME SessionInv, [Next]_vars
    PROVE  TypeOK'
<1>t. TypeOK
  BY DEF SessionInv
<1>1. CASE Tick
  BY <1>t, <1>1 DEF Tick, TypeOK
<1>2. CASE ChangeStanding
  BY <1>t, <1>2, SessionAssumption DEF ChangeStanding, TypeOK
<1>3. CASE BeginLogin
  BY <1>t, <1>3, SessionAssumption DEF BeginLogin, TypeOK
<1>4. CASE Crash
  <2>1. login' \in [Callbacks -> LoginRecord] /\ request' \in [Requests -> RequestRecord]
    BY <1>t, <1>4, LoginRecordType, RequestRecordType
       DEF Crash, TypeOK, LoginOver, RequestOver
  <2>2. QED
    BY <1>t, <1>4, <2>1 DEF Crash, TypeOK
<1>5. CASE UNCHANGED vars
  BY <1>t, <1>5 DEF vars, TypeOK
<1>6. QED
  BY <1>1, <1>2, <1>3, <1>4, <1>5, LoginStepType, AuthorizeStepType DEF Next

-----------------------------------------------------------------------------
\* What the session protocol rests on, besides the types.
RestInv ==
    LoginInv /\ StoredInv /\ HeldInv /\ UpdateInv /\ SpenderInv /\ SpentInv /\ StandingInv

\* A request that ends holds nothing any more, and if it was on its way to the
\* update it answers for the credential that was not stored.
LEMMA EndStep ==
    ASSUME SessionInv, NEW r \in Requests, NEW pc \in RequestOver, RequestEnds(r, pc),
           request[r].pc \notin RequestOver,
           request[r].pc = "update" => pc \in {"dead", "unavailable", "refused"},
           pc = "granted" => r \in backed,
           UNCHANGED <<latest, spender, login, standing>>, backed \subseteq backed',
           \A c \in Callbacks : /\ sessions'[c] # None <=> sessions[c] # None
                                /\ sessions'[c].credential = sessions[c].credential
    PROVE  RestInv'
<1>1. /\ request'[r].pc = pc /\ pc \notin Running
      /\ \A q \in Requests \ {r} : request'[q] = request[q]
  BY DEF SessionInv, TypeOK, RequestEnds, Rest, RequestOver, Running
<1>2. LoginInv' /\ StoredInv'
  BY DEF SessionInv, LoginInv, StoredInv
<1>3. HeldInv'
  BY <1>1 DEF SessionInv, HeldInv
<1>4. UpdateInv'
  BY <1>1 DEF SessionInv, HeldInv, UpdateInv, Running
<1>5. SpentInv'
  BY <1>1 DEF SessionInv, SpentInv, RequestOver
<1>6. StandingInv'
  BY <1>1 DEF SessionInv, StandingInv, Running
<1>7. SpenderInv'
  BY <1>1 DEF SessionInv, SpenderInv, RequestOver
<1>8. QED
  BY <1>2, <1>3, <1>4, <1>5, <1>6, <1>7 DEF RestInv

\* A request that moves on with what it holds, to another step than the update.
LEMMA MoveStep ==
    ASSUME SessionInv, NEW r \in Requests,
           request[r].pc \in Running \ {"update"},
           request'[r].pc \in Running \ {"update"},
           request'[r].pc = "revalidate" =>
              (Sufficient(request'[r].role, ActionOf[r]) => Allows(standing, r)),
           request'[r].of = request[r].of, request'[r].credential = request[r].credential,
           \A q \in Requests \ {r} : request'[q] = request[q],
           UNCHANGED <<sessions, latest, spender, login, standing, backed>>
    PROVE  RestInv'
<1>1. LoginInv' /\ StoredInv'
  BY DEF SessionInv, LoginInv, StoredInv
<1>2. HeldInv'
  BY DEF SessionInv, HeldInv
<1>3. UpdateInv'
  BY DEF SessionInv, UpdateInv, HeldInv, Running
<1>4. SpentInv'
  BY DEF SessionInv, SpentInv, Running
<1>5. StandingInv'
  <2> SUFFICES ASSUME NEW q \in Requests
               PROVE  /\ request'[q].pc \in Running /\ Allows(standing, q) => q \in backed
                      /\ request'[q].pc = "revalidate" /\ Sufficient(request'[q].role, ActionOf[q])
                            => q \in backed
                      /\ request'[q].pc = "granted" => q \in backed
    BY DEF StandingInv
  <2>1. CASE q = r
    BY <2>1 DEF SessionInv, StandingInv, Running
  <2>2. CASE q # r
    BY <2>2 DEF SessionInv, StandingInv
  <2>3. QED
    BY <2>1, <2>2
<1>6. SpenderInv'
  BY DEF SessionInv, SpenderInv, Running
<1>7. QED
  BY <1>1, <1>2, <1>3, <1>4, <1>5, <1>6 DEF RestInv

\* A request that loads a session holds what is stored: when another one is on
\* its way to the update, that is an older credential than the other's.
LEMMA LoadStep ==
    ASSUME SessionInv, NEW r \in Requests, LoadSession(r)
    PROVE  RestInv'
<1>1. CASE RequestEnds(r, "unauthenticated")
  BY <1>1, EndStep DEF LoadSession, RequestOver
<1>2. ASSUME NEW c \in Callbacks, sessions[c] # None,
             request' = [request EXCEPT ![r].pc = AfterLoad(sessions[c].credential),
                    ![r].at = now, ![r].of = c, ![r].credential = sessions[c].credential]
      PROVE  RestInv'
  <2>1. /\ request'[r].pc \in Running \ {"update", "revalidate"}
        /\ request'[r].of = c
        /\ request'[r].credential = sessions[c].credential
        /\ \A q \in Requests \ {r} : request'[q] = request[q]
    BY <1>2 DEF SessionInv, TypeOK, RequestRecord, AfterLoad, Running
  <2>2. /\ UNCHANGED <<sessions, latest, spender, login, standing>> /\ request[r].pc = "idle"
        /\ backed' = backed \cup {q \in {r} : Allows(standing, q)}
    BY DEF LoadSession
  <2>3. LoginInv' /\ StoredInv'
    BY <2>2 DEF SessionInv, LoginInv, StoredInv
  <2>4. HeldInv'
    <3>1. sessions[c].credential \in Credential
      BY <1>2 DEF SessionInv, TypeOK, Session
    <3>2. QED
      BY <1>2, <2>1, <2>2, <3>1, ZenonT(40) DEF SessionInv, StoredInv, HeldInv
  <2>5. UpdateInv'
    <3> SUFFICES ASSUME NEW q \in Requests, request'[q].pc = "update"
                 PROVE  LET d == request[q].of IN
                        /\ q # r
                        /\ request[q].credential.generation = latest[d]
                        /\ spender[d] = q
                        /\ sessions[d].credential.generation < latest[d]
                        /\ \A p \in Requests \ {q} :
                              request'[p].pc \in Running /\ request'[p].of = d =>
                                 request'[p].credential.generation < latest[d]
      BY <2>1, <2>2 DEF UpdateInv
    <3>1. q # r /\ request'[q] = request[q]
      BY <2>1
    <3>2. QED
      BY <2>1, <3>1 DEF SessionInv, UpdateInv
  <2>6. SpentInv'
    BY <2>1, <2>2 DEF SessionInv, SpentInv
  <2>7. StandingInv'
    <3> SUFFICES ASSUME NEW q \in Requests
                 PROVE  /\ request'[q].pc \in Running /\ Allows(standing, q) => q \in backed'
                        /\ request'[q].pc = "revalidate"
                              => (Sufficient(request'[q].role, ActionOf[q]) => q \in backed')
                        /\ request'[q].pc = "granted" => q \in backed'
      BY <2>2 DEF StandingInv
    <3>1. CASE q = r
      BY <2>1, <2>2, <3>1 DEF Running
    <3>2. CASE q # r
      BY <2>1, <2>2, <3>2 DEF SessionInv, StandingInv
    <3>3. QED
      BY <3>1, <3>2
  <2>8. SpenderInv'
    BY <2>1, <2>2 DEF SessionInv, SpenderInv
  <2>9. QED
    BY <2>3, <2>4, <2>5, <2>6, <2>7, <2>8 DEF RestInv
<1>3. QED
  BY <1>1, <1>2 DEF LoadSession

\* A refresh is granted to the request that holds the newest credential only,
\* so nobody else was on the way to the update, nor holds the one it got.
LEMMA RefreshStep ==
    ASSUME SessionInv, NEW r \in Requests, RefreshCredential(r)
    PROVE  RestInv'
<1> DEFINE c == request[r].of  g == request[r].credential.generation
<1>1. /\ c \in Callbacks /\ sessions[c] # None /\ g \in Nat /\ latest[c] \in Nat
      /\ request[r].pc = "refresh"
  BY DEF RefreshCredential, SessionInv, HeldInv, TypeOK, Credential, Running
<1>2. UNCHANGED <<sessions, login, standing, backed>>
  BY DEF RefreshCredential
<1>3. CASE /\ latest[c] = g
           /\ latest' = [latest EXCEPT ![c] = g + 1]
           /\ spender' = [spender EXCEPT ![c] = r]
  <2>1. /\ latest'[c] = g + 1 /\ spender'[c] = r
        /\ \A d \in Callbacks \ {c} : latest'[d] = latest[d] /\ spender'[d] = spender[d]
    BY <1>1, <1>3 DEF SessionInv, TypeOK
  <2>2. /\ \/ request'[r].pc \in {"refused", "unavailable"}
           \/ /\ request'[r].pc = "update" /\ request'[r].of = c
              /\ request'[r].credential \in Credential
              /\ request'[r].credential.generation = g + 1
        /\ \A q \in Requests \ {r} : request'[q] = request[q]
    <3>1. \/ RequestEnds(r, "refused") \/ RequestEnds(r, "unavailable")
          \/ \E a \in AccessLives, f \in RefreshLives :
                request' = [request EXCEPT ![r].pc = "update",
                                           ![r].credential = Issued(g + 1, a, f)]
      BY <1>3 DEF RefreshCredential
    <3>2. ASSUME NEW a \in AccessLives, NEW f \in RefreshLives
          PROVE  Issued(g + 1, a, f) \in Credential /\ Issued(g + 1, a, f).generation = g + 1
      <4>1. g + 1 \in Nat /\ a \in Nat /\ f \in Nat /\ TypeOK
        BY <1>1, SessionAssumption DEF SessionInv
      <4>2. QED
        BY <4>1, IssuedType
    <3>3. QED
      BY <1>1, <3>1, <3>2 DEF SessionInv, TypeOK, RequestRecord, RequestEnds, Rest
  <2>3. LoginInv'
    BY <1>1, <1>2, <2>1 DEF SessionInv, LoginInv, LoginHolding
  <2>4. StoredInv'
    BY <1>1, <1>2, <1>3, <2>1 DEF SessionInv, StoredInv, TypeOK, Session, Credential
  <2>5. HeldInv'
    BY <1>1, <1>2, <1>3, <2>1, <2>2 DEF SessionInv, HeldInv, Credential, Running
  <2>6. UpdateInv'
    <3>1. \A q \in Requests : request[q].pc = "update" => request[q].of # c
      BY <1>1, <1>3 DEF SessionInv, UpdateInv, Running
    <3>2. \A q \in Requests \ {r} : request[q].pc \in Running /\ request[q].of = c =>
             request[q].credential.generation \in Nat /\ request[q].credential.generation <= g
      BY <1>3 DEF SessionInv, HeldInv, Credential
    <3>3. sessions[c].credential.generation \in Nat /\ sessions[c].credential.generation <= g
      BY <1>1, <1>3 DEF SessionInv, StoredInv, TypeOK, Session, Credential
    <3>4. ASSUME NEW q \in Requests, q # r, request[q].pc = "update"
          PROVE  /\ request[q].of \in Callbacks \ {c}
                 /\ request'[r].of = c \/ request'[r].pc \notin Running
      BY <2>2, <3>1, <3>4 DEF SessionInv, HeldInv, Running
    <3>5. ASSUME NEW q \in Requests, request'[q].pc = "update"
          PROVE  LET d == request'[q].of IN
                 /\ request'[q].credential.generation = latest'[d]
                 /\ spender'[d] = q
                 /\ sessions[d].credential.generation < latest'[d]
                 /\ \A p \in Requests \ {q} :
                        request'[p].pc \in Running /\ request'[p].of = d =>
                            request'[p].credential.generation < latest'[d]
      <4>1. CASE q = r
        BY <1>1, <2>1, <2>2, <3>2, <3>3, <3>5, <4>1
      <4>2. CASE q # r
        BY <2>1, <2>2, <3>4, <3>5, <4>2 DEF SessionInv, UpdateInv
      <4>3. QED
        BY <4>1, <4>2
    <3>6. QED
      BY <1>2, <3>5 DEF UpdateInv
  <2>7. SpentInv'
    BY <1>1, <1>2, <1>3, <2>1, <2>2 DEF SessionInv, SpentInv, UpdateInv
  <2>8. StandingInv'
    <3>1. request'[r].pc \notin {"revalidate", "granted"}
      BY <2>2
    <3>2. request[r].pc \in Running
      BY <1>1 DEF Running
    <3>3. QED
      BY <1>2, <2>2, <3>1, <3>2 DEF SessionInv, StandingInv
  <2>9. SpenderInv'
    BY <1>1, <2>1, <2>2 DEF SessionInv, SpenderInv, Running
  <2>10. QED
    BY <2>3, <2>4, <2>5, <2>6, <2>7, <2>8, <2>9 DEF RestInv
<1>4. CASE RequestEnds(r, "unavailable") /\ UNCHANGED <<latest, spender>>
  BY <1>1, <1>2, <1>4, EndStep DEF RequestOver
<1>5. QED
  BY <1>3, <1>4 DEF RefreshCredential

\* The update stores the newest credential: it is the one request with it.
LEMMA UpdateStep ==
    ASSUME SessionInv, NEW r \in Requests, UpdateCredential(r)
    PROVE  RestInv'
<1> DEFINE c == request[r].of
<1>1. request[r].pc = "update" /\ UNCHANGED <<latest, spender, login, standing, backed>>
  BY DEF UpdateCredential
<1>2. CASE RequestEnds(r, "unavailable") /\ UNCHANGED sessions
  BY <1>1, <1>2, EndStep DEF RequestOver
<1>3. CASE /\ sessions' = [sessions EXCEPT ![c].credential = request[r].credential]
           /\ RequestMoves(r, "context")
  <2>1. /\ c \in Callbacks /\ sessions[c] # None /\ sessions[c] \in Session
        /\ request[r].credential \in Credential
        /\ request[r].credential.generation = latest[c] /\ spender[c] = r
    BY <1>1 DEF SessionInv, HeldInv, UpdateInv, TypeOK, Running
  <2>2. /\ request'[r].pc = "context" /\ request'[r].of = c
        /\ request'[r].credential = request[r].credential
        /\ \A q \in Requests \ {r} : request'[q] = request[q]
    BY <1>3 DEF RequestMoves, SessionInv, TypeOK, RequestRecord
  <2>3. /\ sessions'[c] # None /\ sessions'[c].credential.generation = latest[c]
        /\ \A d \in Callbacks \ {c} : sessions'[d] = sessions[d]
    <3>1. sessions'[c] = [sessions[c] EXCEPT !.credential = request[r].credential]
      BY <1>3, <2>1 DEF SessionInv, TypeOK
    <3>2. sessions'[c].kind = "session" /\ sessions'[c].credential = request[r].credential
      BY <2>1, <3>1 DEF Session
    <3>3. \A d \in Callbacks \ {c} : sessions'[d] = sessions[d]
      BY <1>3 DEF SessionInv, TypeOK
    <3>4. QED
      BY <2>1, <3>2, <3>3 DEF None
  <2>4. LoginInv'
    BY <1>1, <2>1, <2>3 DEF SessionInv, LoginInv
  <2>5. StoredInv'
    BY <1>1, <2>1, <2>3 DEF SessionInv, StoredInv, TypeOK
  <2>6. HeldInv'
    BY <1>1, <2>1, <2>2, <2>3 DEF SessionInv, HeldInv, Running
  <2>7. UpdateInv'
    <3>1. \A q \in Requests \ {r} : request[q].pc = "update" => request[q].of # c
      BY <2>1 DEF SessionInv, UpdateInv
    <3>2. ASSUME NEW q \in Requests, request'[q].pc = "update"
          PROVE  LET d == request'[q].of IN
                 /\ request'[q].credential.generation = latest'[d]
                 /\ spender'[d] = q
                 /\ sessions'[d].credential.generation < latest'[d]
                 /\ \A p \in Requests \ {q} :
                        request'[p].pc \in Running /\ request'[p].of = d =>
                            request'[p].credential.generation < latest'[d]
      <4>1. q # r /\ request'[q] = request[q] /\ request[q].of \in Callbacks \ {c}
        BY <2>2, <3>1, <3>2 DEF SessionInv, HeldInv, Running
      <4>2. QED
        BY <1>1, <2>2, <2>3, <3>2, <4>1 DEF SessionInv, UpdateInv
    <3>3. QED
      BY <3>2 DEF UpdateInv
  <2>8. SpentInv'
    <3>1. ASSUME NEW d \in Callbacks \ {c}, sessions[d] # None,
                 sessions[d].credential.generation # latest[d]
          PROVE  spender[d] \in Requests /\ request'[spender[d]].pc \in
                    {"update", "dead", "unavailable", "refused"}
      <4>1. spender[d] = r => d = c
        BY <1>1, <3>1 DEF SessionInv, SpenderInv, Running
      <4>2. QED
        BY <1>1, <2>2, <3>1, <4>1 DEF SessionInv, SpentInv
    <3>2. QED
      BY <1>1, <2>1, <2>3, <3>1 DEF SpentInv
  <2>9. StandingInv'
    BY <1>1, <2>2 DEF SessionInv, StandingInv, Running
  <2>10. SpenderInv'
    BY <1>1, <2>2 DEF SessionInv, SpenderInv, Running
  <2>11. QED
    BY <2>4, <2>5, <2>6, <2>7, <2>8, <2>9, <2>10 DEF RestInv
<1>4. QED
  BY <1>2, <1>3 DEF UpdateCredential

\* A step of completeLogin does not touch a session that is there.
LEMMA LoginStepRest ==
    ASSUME SessionInv, NEW c \in Callbacks, LoginStep(c)
    PROVE  RestInv'
<1>1. /\ UNCHANGED <<standing, request, spender, backed>>
      /\ \A d \in Callbacks \ {c} : login'[d] = login[d] /\ latest'[d] = latest[d]
                                     /\ sessions'[d] = sessions[d]
  BY DEF LoginStep, ConsumeAttempt, ExchangeCode, IdentifyUser, UpsertActor, CreateSession,
         LoginEnds, LoginMoves, RejectLogin, SessionInv, TypeOK
<1>2. /\ login[c].pc \in {"idle", "exchange"} \cup LoginHolding
      /\ sessions[c] = None
      /\ \A r \in Requests : request[r].pc \in Running => request[r].of # c
  BY DEF LoginStep, ConsumeAttempt, ExchangeCode, IdentifyUser, UpsertActor, CreateSession,
         LoginHolding, SessionInv, LoginInv, HeldInv
<1>3. /\ login'[c].pc \in {"idle", "exchange"} => latest'[c] = 0
      /\ login'[c].pc \in LoginHolding =>
            /\ login'[c].credential \in Credential
            /\ login'[c].credential.generation = 1
            /\ latest'[c] = 1
      /\ sessions'[c] # None => /\ login'[c].pc = "done"
                               /\ sessions'[c].credential.generation = latest'[c]
                               /\ latest'[c] \in Nat
  <2> USE DEF LoginHolding
  <2>1. CASE ConsumeAttempt(c)
    BY <1>2, <2>1 DEF ConsumeAttempt, LoginEnds, LoginRest, SessionInv, LoginInv, TypeOK,
       LoginRecord
  <2>2. CASE ExchangeCode(c)
    <3>1. ASSUME NEW a \in AccessLives, NEW f \in RefreshLives
          PROVE  Issued(1, a, f) \in Credential /\ Issued(1, a, f).generation = 1
      BY IssuedType, SessionAssumption DEF SessionInv
    <3>2. \/ LoginEnds(c, "refused") \/ LoginEnds(c, "unavailable")
          \/ /\ latest' = [latest EXCEPT ![c] = 1]
             /\ \E a \in AccessLives, f \in RefreshLives :
                   login' = [login EXCEPT ![c].pc = "identify", ![c].credential = Issued(1, a, f)]
      BY <2>2 DEF ExchangeCode, RejectLogin
    <3>3. sessions' = sessions
      BY <2>2 DEF ExchangeCode
    <3>4. QED
      BY <1>2, <3>1, <3>2, <3>3 DEF LoginEnds, LoginRest, SessionInv, TypeOK, LoginRecord
  <2>3. CASE IdentifyUser(c)
    BY <1>2, <2>3 DEF IdentifyUser, LoginMoves, RejectLogin, LoginEnds, LoginRest, SessionInv,
       LoginInv, TypeOK, LoginRecord
  <2>4. CASE UpsertActor(c)
    BY <1>2, <2>4 DEF UpsertActor, LoginMoves, SessionInv, LoginInv, TypeOK, LoginRecord
  <2>5. CASE CreateSession(c)
    BY <1>2, <2>5 DEF CreateSession, LoginEnds, LoginRest, SessionInv, LoginInv, TypeOK, LoginRecord
  <2>6. QED
    BY <2>1, <2>2, <2>3, <2>4, <2>5 DEF LoginStep
<1>4. LoginInv'
  BY <1>1, <1>3 DEF SessionInv, LoginInv
<1>5. StoredInv'
  BY <1>1, <1>3 DEF SessionInv, StoredInv
<1>6. HeldInv'
  BY <1>1, <1>2 DEF SessionInv, HeldInv
<1>7. UpdateInv'
  <2>1. \A r \in Requests : request[r].pc = "update" => request[r].of \in Callbacks \ {c}
    BY <1>2 DEF SessionInv, HeldInv, Running
  <2>2. QED
    BY <1>1, <2>1 DEF SessionInv, UpdateInv
<1>8. SpenderInv' /\ StandingInv'
  BY <1>1 DEF SessionInv, SpenderInv, StandingInv
<1>9. SpentInv'
  BY <1>1, <1>3 DEF SessionInv, SpentInv
<1>10. QED
  BY <1>4, <1>5, <1>6, <1>7, <1>8, <1>9 DEF RestInv

\* A step of authorize keeps the protocol.
LEMMA AuthorizeStepRest ==
    ASSUME SessionInv, NEW r \in Requests, AuthorizeStep(r)
    PROVE  RestInv'
<1>1. CASE RevokeSession(r)
  <2>1. \A c \in Callbacks : /\ sessions'[c] # None <=> sessions[c] # None
                             /\ sessions'[c].credential = sessions[c].credential
    <3>1. request[r].of \in Callbacks /\ sessions[request[r].of] \in Session
      BY <1>1 DEF RevokeSession, SessionInv, HeldInv, TypeOK, Running
    <3>2. sessions'[request[r].of].kind = "session"
      BY <1>1, <3>1 DEF RevokeSession, SessionInv, TypeOK, Session
    <3>3. sessions'[request[r].of].credential = sessions[request[r].of].credential
      BY <1>1, <3>1 DEF RevokeSession, SessionInv, TypeOK, Session
    <3>4. sessions[request[r].of] # None
      BY <1>1 DEF RevokeSession, SessionInv, HeldInv, Running
    <3>5. QED
      BY <1>1, <3>1, <3>2, <3>3, <3>4 DEF RevokeSession, SessionInv, TypeOK, None
  <2>2. QED
    BY <1>1, <2>1, EndStep DEF RevokeSession, RequestOver
<1>2. CASE LoadAccessContext(r)
  <2>1. CASE RequestEnds(r, "denied")
    BY <1>2, <2>1, EndStep DEF LoadAccessContext, RequestOver
  <2>2. CASE /\ standing.selected
             /\ request' = [request EXCEPT ![r].pc = "revalidate", ![r].role = standing.role]
    <3>1. /\ request'[r].pc = "revalidate" /\ request'[r].role = standing.role
          /\ request'[r].of = request[r].of
          /\ request'[r].credential = request[r].credential
          /\ \A q \in Requests \ {r} : request'[q] = request[q]
      BY <2>2 DEF SessionInv, TypeOK, RequestRecord
    <3>2. Sufficient(request'[r].role, ActionOf[r]) => Allows(standing, r)
      BY <2>2, <3>1 DEF Allows
    <3>3. QED
      BY <1>2, <3>1, <3>2, MoveStep DEF LoadAccessContext, Running
  <2>3. QED
    BY <1>2, <2>1, <2>2 DEF LoadAccessContext, LoadedRole
<1>3. CASE RevalidateAccess(r)
  <2>1. request[r].pc = "revalidate"
    BY <1>3 DEF RevalidateAccess
  <2>2. Sufficient(request[r].role, ActionOf[r]) => r \in backed
    BY <2>1 DEF SessionInv, StandingInv
  <2>3. CASE RequestEnds(r, "granted") /\ Sufficient(request[r].role, ActionOf[r])
    BY <1>3, <2>1, <2>2, <2>3, EndStep DEF RevalidateAccess, RequestOver
  <2>4. CASE RequestEnds(r, "unavailable") \/ RequestEnds(r, "denied")
    BY <1>3, <2>1, <2>4, EndStep DEF RevalidateAccess, RequestOver
  <2>5. QED
    BY <1>3, <2>3, <2>4 DEF RevalidateAccess
<1>4. CASE StatementFails(r)
  BY <1>4, EndStep DEF StatementFails, RequestOver
<1>5. QED
  BY <1>1, <1>2, <1>3, <1>4, LoadStep, RefreshStep, UpdateStep DEF AuthorizeStep

\* Every step keeps the protocol.
LEMMA RestStep ==
    ASSUME SessionInv, [Next]_vars
    PROVE  RestInv'
<1>1. CASE Tick \/ BeginLogin \/ UNCHANGED vars
  BY <1>1 DEF Tick, BeginLogin, vars, SessionInv, RestInv, LoginInv, StoredInv, HeldInv, UpdateInv,
     SpenderInv, SpentInv, StandingInv
<1>2. CASE ChangeStanding
  <2>1. StandingInv'
    <3>1. UNCHANGED request /\ backed \subseteq backed'
      BY <1>2 DEF ChangeStanding
    <3>2. ASSUME NEW r \in Requests, request[r].pc \in Running, Allows(standing', r)
          PROVE  r \in backed'
      BY <1>2, <3>2 DEF ChangeStanding, InProgress, RequestOver, Running
    <3>3. QED
      BY <3>1, <3>2 DEF SessionInv, StandingInv, Allows
  <2>2. QED
    BY <1>2, <2>1 DEF ChangeStanding, SessionInv, RestInv, LoginInv, StoredInv, HeldInv, UpdateInv,
       SpenderInv, SpentInv
<1>3. CASE Crash
  <2>1. CASE \E r \in Requests : /\ request[r].pc \notin RequestOver \cup {"idle"}
                                /\ RequestEnds(r, "dead") /\ UNCHANGED login
    BY <1>3, <2>1, EndStep DEF Crash, RequestOver
  <2>2. CASE \E c \in Callbacks : /\ login[c].pc \notin LoginOver \cup {"idle"}
                                 /\ LoginEnds(c, "dead") /\ UNCHANGED request
    <3>1. LoginInv'
      BY <1>3, <2>2 DEF Crash, LoginEnds, LoginRest, LoginHolding, LoginOver, SessionInv, LoginInv,
         TypeOK
    <3>2. QED
      BY <1>3, <2>2, <3>1 DEF Crash, SessionInv, RestInv, StoredInv, HeldInv, UpdateInv,
         SpenderInv, SpentInv, StandingInv
  <2>3. QED
    BY <1>3, <2>1, <2>2 DEF Crash
<1>4. QED
  BY <1>1, <1>2, <1>3, LoginStepRest, AuthorizeStepRest DEF Next

\* The protocol holds before anything has happened.
LEMMA InitInv == Init => SessionInv
<1> SUFFICES ASSUME Init PROVE SessionInv
  OBVIOUS
<1>1. TypeOK
  <2>1. /\ LoginRest("idle") \in LoginRecord
        /\ Rest("idle") \in RequestRecord
        /\ standing \in [role : Roles, selected : BOOLEAN]
    BY DEF Init, LoginRest, LoginRecord, Rest, RequestRecord, Roles, roleRank
  <2>2. QED
    BY <2>1 DEF Init, TypeOK
<1>2. RestInv
  <2>1. /\ \A c \in Callbacks : /\ sessions[c] = None /\ latest[c] = 0 /\ spender[c] = None
                               /\ login[c].pc = "idle"
        /\ \A r \in Requests : request[r].pc = "idle"
    BY DEF Init, LoginRest, Rest
  <2>2. LoginInv /\ StoredInv /\ HeldInv
    BY <2>1 DEF LoginInv, StoredInv, HeldInv, LoginHolding, Running
  <2>3. UpdateInv /\ SpenderInv /\ SpentInv /\ StandingInv
    BY <2>1, SessionAssumption DEF UpdateInv, SpenderInv, SpentInv, StandingInv, Running
  <2>4. QED
    BY <2>2, <2>3 DEF RestInv
<1>3. QED
  BY <1>1, <1>2 DEF SessionInv, RestInv

-----------------------------------------------------------------------------
\* At any time one request at most is on its way to the update of a session,
\* and it has the newest credential the provider issued.
THEOREM SessionInvariant == Spec => []SessionInv
<1>1. SessionInv /\ [Next]_vars => SessionInv'
  BY TypeStep, RestStep DEF SessionInv, RestInv
<1>2. QED
  BY <1>1, InitInv, PTL DEF Spec

\* A session that cannot be renewed any more is owed to the request that
\* refreshed it last: it has not updated yet, or it failed before it could.
THEOREM StrandedByFault == Spec => []StrandedOnlyByFault
<1>1. SessionInv => StrandedOnlyByFault
  BY SessionAssumption DEF SessionInv, SpentInv, StrandedOnlyByFault, Stranded
<1>2. QED
  BY <1>1, SessionInvariant, PTL

\* The credential of a session is never replaced by an older one, and nothing
\* is written to a session that is revoked.
THEOREM CredentialIsRenewed == Spec => CredentialMovesForward
<1>1. ASSUME SessionInv, [Next]_vars, NEW c \in Callbacks, sessions[c] # None
      PROVE  /\ sessions'[c].credential.generation >= sessions[c].credential.generation
             /\ sessions[c].revoked => sessions'[c] = sessions[c]
  <2>0. sessions[c] \in Session /\ sessions[c].credential.generation \in Nat
    BY <1>1 DEF SessionInv, TypeOK, Session, Credential
  <2>1. CASE UNCHANGED sessions
    BY <2>0, <2>1
  <2>2. ASSUME NEW d \in Callbacks, CreateSession(d)
        PROVE  sessions'[c] = sessions[c]
    BY <1>1, <2>2 DEF CreateSession, SessionInv, LoginInv, TypeOK
  <2>3. ASSUME NEW r \in Requests, RevokeSession(r)
        PROVE  /\ sessions'[c].credential = sessions[c].credential
               /\ sessions[c].revoked => sessions'[c] = sessions[c]
    <3>1. sessions[c].revoked => [sessions[c] EXCEPT !.revoked = TRUE] = sessions[c]
      BY <2>0 DEF Session
    <3>2. [sessions[c] EXCEPT !.revoked = TRUE].credential = sessions[c].credential
      BY <2>0 DEF Session
    <3>3. QED
      BY <1>1, <2>3, <3>1, <3>2 DEF RevokeSession, SessionInv, TypeOK
  <2>4. ASSUME NEW r \in Requests, UpdateCredential(r)
        PROVE  /\ sessions'[c].credential.generation >= sessions[c].credential.generation
               /\ sessions[c].revoked => sessions'[c] = sessions[c]
    <3>1. CASE sessions' = sessions
      BY <2>0, <3>1
    <3>2. CASE request[r].of # c
      <4>1. request[r].of \in Callbacks
        BY <1>1, <2>4 DEF UpdateCredential, SessionInv, HeldInv, Running
      <4>2. sessions'[c] = sessions[c]
        BY <1>1, <2>4, <3>2, <4>1 DEF UpdateCredential, SessionInv, TypeOK
      <4>3. QED
        BY <2>0, <4>2
    <3>3. CASE request[r].of = c /\ sessions' # sessions
      <4>1. /\ ~sessions[c].revoked
            /\ sessions' = [sessions EXCEPT ![c].credential = request[r].credential]
        BY <2>4, <3>3 DEF UpdateCredential, Updatable, Loadable
      <4>2. /\ request[r].credential.generation = latest[c] /\ latest[c] \in Nat
            /\ sessions[c].credential.generation < latest[c]
        BY <1>1, <2>4, <3>3 DEF UpdateCredential, SessionInv, UpdateInv, TypeOK
      <4>3. sessions'[c].credential = request[r].credential
        BY <1>1, <2>0, <4>1 DEF SessionInv, TypeOK, Session
      <4>4. QED
        BY <2>0, <4>1, <4>2, <4>3
    <3>4. QED
      BY <3>1, <3>2, <3>3
  <2>5. \/ UNCHANGED sessions
        \/ \E d \in Callbacks : CreateSession(d)
        \/ \E r \in Requests : RevokeSession(r) \/ UpdateCredential(r)
    <3>1. ASSUME NEW d \in Callbacks, LoginStep(d)
          PROVE  UNCHANGED sessions \/ CreateSession(d)
      BY <3>1 DEF LoginStep, ConsumeAttempt, ExchangeCode, IdentifyUser, UpsertActor
    <3>2. ASSUME NEW r \in Requests, AuthorizeStep(r)
          PROVE  UNCHANGED sessions \/ RevokeSession(r) \/ UpdateCredential(r)
      BY <3>2 DEF AuthorizeStep, LoadSession, RefreshCredential, LoadAccessContext,
         RevalidateAccess, StatementFails
    <3>3. CASE UNCHANGED vars \/ Tick \/ ChangeStanding \/ BeginLogin \/ Crash
      BY <3>3 DEF vars, Tick, ChangeStanding, BeginLogin, Crash
    <3>4. QED
      BY <1>1, <3>1, <3>2, <3>3 DEF Next
  <2>6. QED
    BY <2>0, <2>1, <2>2, <2>3, <2>4, <2>5
<1>2. SessionInv /\ [Next]_vars =>
        [\A c \in Callbacks : sessions[c] # None =>
            /\ sessions'[c].credential.generation >= sessions[c].credential.generation
            /\ sessions[c].revoked => sessions'[c] = sessions[c]]_vars
  BY <1>1
<1>3. QED
  BY <1>2, SessionInvariant, PTL DEF Spec, CredentialMovesForward

\* What is granted was allowed to the user by role and selection together at some
\* moment since the request arrived, however often both changed meanwhile.
THEOREM GrantNeedsStanding == Spec => []GrantIsBacked
<1>1. SessionInv => GrantIsBacked
  BY DEF SessionInv, StandingInv, GrantIsBacked
<1>2. QED
  BY <1>1, SessionInvariant, PTL
=============================================================================
