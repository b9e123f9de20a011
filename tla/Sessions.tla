------------------------------- MODULE Sessions -------------------------------
(***************************************************************************)
(* Who may use the API: the sessions, agent_tokens and users tables, the   *)
(* two logins that create a session, and the handlers that rotate its CSRF *)
(* token, end it, change the admin password, and issue and revoke agent    *)
(* tokens (server/internal/app/app.go, helpers.go, server/internal/db).    *)
(*                                                                         *)
(* A client is a tab of a browser.  Tabs of one browser share the session  *)
(* cookie; each keeps the CSRF token of its own last answer.  A tab has    *)
(* one of these requests under way at a time, and tabs interleave at every *)
(* statement.  Tokens and ids are random and never repeat.                 *)
(***************************************************************************)
EXTENDS Naturals

CONSTANTS
    Tabs,
    Browsers,
    BrowserOf,   \* the browser of a tab
    SessionIds,
    Tokens,      \* agent tokens that may be issued
    AgentOf,     \* the agent a token is issued for
    Agents,
    Primary,     \* the agent every installation has
    Passwords,
    Configured,  \* the configured admin password
    Offered,     \* the kinds of request the clients send
    MaxMinted,   \* bound: CSRF tokens minted
    Unissued, Deleted, NoSession

Logins == {"passwordLogin", "tokenLogin"}

(* The requests that change state need the CSRF token. *)
Guarded == {"logout", "change", "rotate", "register"}

Kinds == Logins \cup Guarded \cup {"me"}

Types == {"admin", "agent"}

Row == [type : Types, csrf : Nat]

ASSUME SessionsAssumption ==
    /\ BrowserOf \in [Tabs -> Browsers]
    /\ AgentOf \in [Tokens -> Agents]
    /\ Primary \in Agents
    /\ Configured \in Passwords
    /\ Offered \subseteq Kinds
    /\ MaxMinted \in Nat
    /\ Unissued \notin Row /\ Deleted \notin Row /\ Unissued # Deleted
    /\ NoSession \notin SessionIds

-----------------------------------------------------------------------------
VARIABLES
    password, \* users.password_hash of the admin
    agents,   \* rows of the agents table
    tokens,   \* agent_tokens: "unissued", "live" or "revoked"
    sessions, \* the sessions table: a row, or Unissued or Deleted without one
    expired,  \* sessions whose expires_at has passed
    minted,   \* how many CSRF tokens have been made
    cookie,   \* the session cookie of a browser
    csrf,     \* csrfToken of a tab; 0 is the empty one
    pc, kind,
    sid,      \* the session of the request, or the one a login creates
    secret,   \* the password or agent token offered
    target,   \* the agent or the new password a request names
    seen,     \* session.SessionType as withSession read it
    reply,    \* the CSRF token the answer carries
    wrong,    \* history: the secret has been wrong since the request began
    gone,     \* history: the session had ended when the request began
    disturbed, \* history: another request wrote tokens of the same agent
    lost      \* history: sessions whose newest CSRF token reached nobody

storeVars == <<password, agents, tokens, sessions, expired>>
clientVars == <<cookie, csrf>>
callVars == <<kind, sid, secret, target, seen, reply>>
historyVars == <<wrong, gone, disturbed, lost>>
vars == <<storeVars, minted, clientVars, pc, callVars, historyVars>>

Steps == {"idle", "verify", "lookup", "insertSession", "session", "csrf",
          "rotateRead", "rotateWrite", "delete", "verifyCurrent", "update",
          "revoke", "upsertAgent", "insertToken", "respond"}

HasRow(s) == s \in SessionIds /\ sessions[s] \notin {Unissued, Deleted}

Ended(s) == ~HasRow(s) \/ s \in expired

(* Mutant: expires_at is not compared with the clock. *)
ValidRow(s) == HasRow(s)

(* SessionByID finds the session. *)
Valid(s) == HasRow(s) /\ s \notin expired

LiveTokens(a) == {t \in Tokens : AgentOf[t] = a /\ tokens[t] = "live"}

(* Whether a login with this secret would be let in now. *)
Right(k, x) ==
    CASE k = "passwordLogin" -> x = password
      [] k = "tokenLogin" -> tokens[x] = "live"
      [] OTHER -> TRUE

-----------------------------------------------------------------------------
Goto(r, step) == pc' = [pc EXCEPT ![r] = step]

End(r) ==
    /\ pc' = [pc EXCEPT ![r] = "idle"]
    /\ kind' = [kind EXCEPT ![r] = "me"]
    /\ sid' = [sid EXCEPT ![r] = NoSession]
    /\ secret' = [secret EXCEPT ![r] = Configured]
    /\ target' = [target EXCEPT ![r] = Primary]
    /\ seen' = [seen EXCEPT ![r] = "none"]
    /\ reply' = [reply EXCEPT ![r] = 0]
    /\ wrong' = [wrong EXCEPT ![r] = FALSE]
    /\ gone' = [gone EXCEPT ![r] = FALSE]
    /\ disturbed' = [disturbed EXCEPT ![r] = FALSE]

(* The request is refused. *)
Refuse(r) == End(r) /\ UNCHANGED <<storeVars, minted, clientVars, lost>>

(* Go on if the check holds, refuse the request if not; nothing is written. *)
Require(r, check, step) ==
    IF check
    THEN Goto(r, step) /\ UNCHANGED <<storeVars, minted, clientVars, callVars, historyVars>>
    ELSE Refuse(r)

Begin(r, k, s, x, t, step) ==
    /\ pc[r] = "idle"
    /\ k \in Offered
    /\ Goto(r, step)
    /\ kind' = [kind EXCEPT ![r] = k]
    /\ sid' = [sid EXCEPT ![r] = s]
    /\ secret' = [secret EXCEPT ![r] = x]
    /\ target' = [target EXCEPT ![r] = t]
    /\ wrong' = [wrong EXCEPT ![r] = ~Right(k, x)]
    /\ gone' = [gone EXCEPT ![r] = (k \notin Logins /\ Ended(s))]
    /\ UNCHANGED <<storeVars, minted, clientVars, seen, reply, disturbed, lost>>

BeginLogin(r) ==
    \/ \E x \in Passwords : Begin(r, "passwordLogin", NoSession, x, Primary, "verify")
    \/ \E x \in Tokens : Begin(r, "tokenLogin", NoSession, x, Primary, "lookup")

(* The cookie travels with the request. *)
BeginWithSession(r) ==
    LET s == cookie[BrowserOf[r]] IN
      /\ s # NoSession
      /\ \/ \E k \in {"me", "logout"} : Begin(r, k, s, Configured, Primary, "session")
         \/ \E k \in {"rotate", "register"}, a \in Agents :
               Begin(r, k, s, Configured, a, "session")
         \/ \E x, y \in Passwords : Begin(r, "change", s, x, y, "session")

-----------------------------------------------------------------------------
(* handlePasswordLogin and handleAgentTokenLogin; the limiter in front of  *)
(* them is LoginThrottle. *)

VerifyPassword(r) ==
    pc[r] = "verify" /\ Require(r, secret[r] = password, "insertSession")

(* Mutant: revoked_at is not looked at. *)
FindAnyToken(r) ==
    pc[r] = "lookup" /\ Require(r, tokens[secret[r]] # "unissued", "insertSession")

FindAgentByToken(r) ==
    pc[r] = "lookup" /\ Require(r, tokens[secret[r]] = "live", "insertSession")

InsertSession(r, type) ==
    /\ pc[r] = "insertSession"
    /\ minted < MaxMinted
    /\ minted' = minted + 1
    /\ \E s \in SessionIds :
          /\ sessions[s] = Unissued
          /\ sessions' = [sessions EXCEPT ![s] = [type |-> type, csrf |-> minted + 1]]
          /\ sid' = [sid EXCEPT ![r] = s]
    /\ reply' = [reply EXCEPT ![r] = minted + 1]
    /\ Goto(r, "respond")
    /\ UNCHANGED <<password, agents, tokens, expired, clientVars, kind, secret,
                   target, seen, historyVars>>

(* Mutant: the session type is taken from the request. *)
CreateSessionAsAsked(r) == InsertSession(r, kind[r])

CreateSession(r) ==
    InsertSession(r, IF kind[r] = "passwordLogin" THEN "admin" ELSE "agent")

-----------------------------------------------------------------------------
(* withSession and requireCSRF: each reads the session row again. *)

AdminOnly == {"rotate", "register"}

WithSession(r) ==
    /\ pc[r] = "session"
    /\ IF Valid(sid[r]) /\ (kind[r] \in AdminOnly => sessions[sid[r]].type = "admin")
       THEN /\ Goto(r, IF kind[r] = "me" THEN "rotateRead" ELSE "csrf")
            /\ seen' = [seen EXCEPT ![r] = sessions[sid[r]].type]
            /\ UNCHANGED <<storeVars, minted, clientVars, kind, sid, secret, target,
                           reply, historyVars>>
       ELSE Refuse(r)

ValidateCSRF(r) == Valid(sid[r]) /\ sessions[sid[r]].csrf = csrf[r]

RequireCSRF(r) ==
    /\ pc[r] = "csrf"
    /\ Require(r, ValidateCSRF(r) /\ (kind[r] = "change" => seen[r] = "admin"),
               CASE kind[r] = "logout" -> "delete"
                 [] kind[r] = "change" -> "verifyCurrent"
                 [] kind[r] = "rotate" -> "revoke"
                 [] OTHER -> "upsertAgent")

(* handleMe: RotateSessionCSRF reads the session once more, then updates.  *)
RotateRead(r) ==
    pc[r] = "rotateRead" /\ Require(r, Valid(sid[r]), "rotateWrite")

Mint(r) ==
    /\ minted < MaxMinted
    /\ minted' = minted + 1
    /\ reply' = [reply EXCEPT ![r] = minted + 1]
    /\ lost' = lost \ {sid[r]}
    /\ Goto(r, "respond")
    /\ UNCHANGED <<password, agents, tokens, expired, clientVars, kind, sid, secret,
                   target, seen, wrong, gone, disturbed>>

(* Mutant: the whole row is written back. *)
RotateUpsert(r) ==
    /\ pc[r] = "rotateWrite"
    /\ Mint(r)
    /\ sessions' = [sessions EXCEPT ![sid[r]] = [type |-> seen[r], csrf |-> minted + 1]]

(* Mutant: the token answered is not the one stored. *)
RotateUnstored(r) ==
    /\ pc[r] = "rotateWrite"
    /\ Mint(r)
    /\ UNCHANGED sessions

(* An UPDATE that finds no row is no error. *)
RotateWrite(r) ==
    /\ pc[r] = "rotateWrite"
    /\ Mint(r)
    /\ sessions' = IF HasRow(sid[r])
                   THEN [sessions EXCEPT ![sid[r]].csrf = minted + 1]
                   ELSE sessions

(* The error of the DELETE is dropped: the answer says logged out anyway. *)
DeleteSession(r) ==
    /\ pc[r] = "delete"
    /\ \/ sessions' = [sessions EXCEPT ![sid[r]] = Deleted]
       \/ UNCHANGED sessions
    /\ Goto(r, "respond")
    /\ UNCHANGED <<password, agents, tokens, expired, minted, clientVars, callVars,
                   historyVars>>

-----------------------------------------------------------------------------
(* handleChangePassword *)

VerifyCurrent(r) ==
    /\ pc[r] = "verifyCurrent"
    /\ Require(r, secret[r] = password /\ target[r] \notin {secret[r], Configured},
               "update")

UpdateUserPassword(r) ==
    /\ pc[r] = "update"
    /\ password' = target[r]
    /\ wrong' = [q \in Tabs |-> wrong[q] /\ ~(kind[q] = "passwordLogin"
                                              /\ secret[q] = target[r])]
    /\ Goto(r, "respond")
    /\ UNCHANGED <<agents, tokens, sessions, expired, minted, clientVars, callVars,
                   gone, disturbed, lost>>

-----------------------------------------------------------------------------
(* handleRegisterAgent and handleRotateAgentToken: statements of their own. *)

(* Others that issue or revoke tokens of the agent at the same time. *)
Disturb(r) ==
    disturbed' = [q \in Tabs |-> disturbed[q] \/
                    (q # r /\ kind[q] = "rotate" /\ target[q] = target[r])]

(* Mutant: a new token is issued and the older ones stay. *)
RevokeNothing(r) ==
    /\ pc[r] = "revoke"
    /\ Goto(r, "insertToken")
    /\ Disturb(r)
    /\ UNCHANGED <<storeVars, minted, clientVars, callVars, wrong, gone, lost>>

RevokeAgentTokens(r) ==
    /\ pc[r] = "revoke"
    /\ tokens' = [t \in Tokens |->
                    IF t \in LiveTokens(target[r]) THEN "revoked" ELSE tokens[t]]
    /\ Goto(r, "insertToken")
    /\ Disturb(r)
    /\ UNCHANGED <<password, agents, sessions, expired, minted, clientVars, callVars,
                   wrong, gone, lost>>

UpsertAgent(r) ==
    /\ pc[r] = "upsertAgent"
    /\ agents' = agents \cup {target[r]}
    /\ Goto(r, "insertToken")
    /\ UNCHANGED <<password, tokens, sessions, expired, minted, clientVars, callVars,
                   historyVars>>

(* Only a registered agent gets a token. *)
RegisterAgentToken(r) ==
    /\ pc[r] = "insertToken"
    /\ \/ /\ target[r] \in agents
          /\ \E t \in Tokens :
                /\ tokens[t] = "unissued" /\ AgentOf[t] = target[r]
                /\ tokens' = [tokens EXCEPT ![t] = "live"]
                /\ secret' = [secret EXCEPT ![r] = t]
                /\ wrong' = [q \in Tabs |-> wrong[q] /\ ~(kind[q] = "tokenLogin"
                                                          /\ secret[q] = t)]
          /\ Goto(r, "respond")
          /\ Disturb(r)
          /\ UNCHANGED <<password, agents, sessions, expired, minted, clientVars, kind,
                         sid, target, seen, reply, gone, lost>>
       \/ target[r] \notin agents /\ Refuse(r)

-----------------------------------------------------------------------------
(* The answer reaches the tab: cookie and CSRF token as api.service.ts     *)
(* keeps them.                                                             *)
Respond(r) ==
    /\ pc[r] = "respond"
    /\ cookie' = CASE kind[r] \in Logins -> [cookie EXCEPT ![BrowserOf[r]] = sid[r]]
                   [] kind[r] = "logout" -> [cookie EXCEPT ![BrowserOf[r]] = NoSession]
                   [] OTHER -> cookie
    /\ csrf' = CASE kind[r] \in Logins \cup {"me"} -> [csrf EXCEPT ![r] = reply[r]]
                 [] kind[r] = "logout" -> [csrf EXCEPT ![r] = 0]
                 [] OTHER -> csrf
    /\ End(r)
    /\ UNCHANGED <<storeVars, minted, lost>>

(* The client leaves, a statement fails or the process dies. *)
Cancel(r) ==
    /\ pc[r] # "idle"
    /\ End(r)
    /\ lost' = IF pc[r] = "respond" /\ kind[r] = "me" /\ HasRow(sid[r])
                  /\ sessions[sid[r]].csrf = reply[r]
               THEN lost \cup {sid[r]} ELSE lost
    /\ UNCHANGED <<storeVars, minted, clientVars>>

Expire(s) ==
    /\ HasRow(s) /\ s \notin expired
    /\ expired' = expired \cup {s}
    /\ UNCHANGED <<password, agents, tokens, sessions, minted, clientVars, pc, callVars,
                   historyVars>>

Handle(r) ==
    \/ VerifyPassword(r) \/ FindAgentByToken(r) \/ CreateSession(r)
    \/ WithSession(r) \/ RequireCSRF(r) \/ RotateRead(r) \/ RotateWrite(r)
    \/ DeleteSession(r) \/ VerifyCurrent(r) \/ UpdateUserPassword(r)
    \/ RevokeAgentTokens(r) \/ UpsertAgent(r) \/ RegisterAgentToken(r)

Step(r) ==
    BeginLogin(r) \/ BeginWithSession(r) \/ Handle(r) \/ Respond(r) \/ Cancel(r)

Init ==
    /\ password = Configured
    /\ agents = {Primary}
    /\ tokens = [t \in Tokens |-> "unissued"]
    /\ sessions = [s \in SessionIds |-> Unissued]
    /\ expired = {}
    /\ minted = 0
    /\ cookie = [b \in Browsers |-> NoSession]
    /\ csrf = [r \in Tabs |-> 0]
    /\ pc = [r \in Tabs |-> "idle"]
    /\ kind = [r \in Tabs |-> "me"]
    /\ sid = [r \in Tabs |-> NoSession]
    /\ secret = [r \in Tabs |-> Configured]
    /\ target = [r \in Tabs |-> Primary]
    /\ seen = [r \in Tabs |-> "none"]
    /\ reply = [r \in Tabs |-> 0]
    /\ wrong = [r \in Tabs |-> FALSE]
    /\ gone = [r \in Tabs |-> FALSE]
    /\ disturbed = [r \in Tabs |-> FALSE]
    /\ lost = {}

Next ==
    \/ \E r \in Tabs : Step(r)
    \/ \E s \in SessionIds : Expire(s)

Spec == Init /\ [][Next]_vars

-----------------------------------------------------------------------------
(* Correctness. *)

(* The variables keep their types: tables, clients and requests. *)
TypeOK ==
    /\ password \in Passwords
    /\ agents \subseteq Agents
    /\ tokens \in [Tokens -> {"unissued", "live", "revoked"}]
    /\ sessions \in [SessionIds -> Row \cup {Unissued, Deleted}]
    /\ expired \subseteq SessionIds
    /\ minted \in Nat
    /\ cookie \in [Browsers -> SessionIds \cup {NoSession}]
    /\ csrf \in [Tabs -> Nat]
    /\ pc \in [Tabs -> Steps]
    /\ kind \in [Tabs -> Kinds]
    /\ sid \in [Tabs -> SessionIds \cup {NoSession}]
    /\ secret \in [Tabs -> Passwords \cup Tokens]
    /\ target \in [Tabs -> Passwords \cup Agents]
    /\ seen \in [Tabs -> Types \cup {"none"}]
    /\ reply \in [Tabs -> Nat]
    /\ wrong \in [Tabs -> BOOLEAN]
    /\ gone \in [Tabs -> BOOLEAN]
    /\ disturbed \in [Tabs -> BOOLEAN]
    /\ lost \subseteq SessionIds

(* A session that has been logged out or has expired does nothing more:    *)
(* no request that begins afterwards writes anything, though the row is    *)
(* read two or three times, in statements of their own, before a write.    *)
EndedSessionsDoNothing ==
    \A r \in Tabs :
      pc[r] \in {"rotateWrite", "delete", "verifyCurrent", "update", "revoke",
                 "upsertAgent", "insertToken"} => ~gone[r]

(* A login whose password or agent token was wrong from its beginning, and *)
(* in particular changed or revoked by then, never gets a session.         *)
StaleSecretsOpenNothing ==
    \A r \in Tabs :
      kind[r] \in Logins /\ pc[r] \in {"insertSession", "respond"} => ~wrong[r]

(* handleRotateAgentToken: unless another request wrote tokens of the same *)
(* agent meanwhile, the token answered is the only one that opens it.      *)
RotationLeavesOneToken ==
    \A r \in Tabs :
      kind[r] = "rotate" /\ pc[r] = "respond" /\ ~disturbed[r] =>
        LiveTokens(target[r]) = {secret[r]}

(* The CSRF token of the session in a browser's cookie is held by one of   *)
(* its tabs or on its way there, however /api/auth/me, logins and logouts  *)
(* of the tabs interleave, unless the answer that carried it was lost.     *)
CsrfStaysKnown ==
    \A b \in Browsers :
      LET s == cookie[b] IN
        Valid(s) /\ s \notin lost =>
          \E r \in Tabs :
             /\ BrowserOf[r] = b
             /\ \/ csrf[r] = sessions[s].csrf
                \/ pc[r] = "respond" /\ reply[r] = sessions[s].csrf

(* A logout is final: handleMe updates a row it read earlier, but a row    *)
(* once deleted is never written again, and its id is never reused.        *)
LogoutIsFinal ==
    [][\A s \in SessionIds : sessions[s] = Deleted => sessions'[s] = Deleted]_vars

=============================================================================
