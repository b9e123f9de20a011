---------------------------- MODULE SessionsProofs ----------------------------
(***************************************************************************)
(* Proofs about Sessions, for any tabs, browsers, tokens and passwords.    *)
(***************************************************************************)
EXTENDS Sessions, TLAPS

SessionSteps ==
    {"session", "csrf", "rotateRead", "rotateWrite", "delete", "verifyCurrent",
     "update", "revoke", "upsertAgent", "insertToken"}

(* What a request is and carries, step by step. *)
CallInv(r) ==
    /\ pc[r] = "verify" => kind[r] = "passwordLogin"
    /\ pc[r] = "lookup" => kind[r] = "tokenLogin"
    /\ pc[r] = "insertSession" => kind[r] \in Logins
    /\ pc[r] \in SessionSteps => kind[r] \notin Logins /\ sid[r] \in SessionIds
    /\ pc[r] = "csrf" => kind[r] \in Guarded
    /\ pc[r] \in {"rotateRead", "rotateWrite"} => kind[r] = "me"
    /\ pc[r] = "delete" => kind[r] = "logout"
    /\ pc[r] \in {"verifyCurrent", "update"} => kind[r] = "change"
    /\ pc[r] = "revoke" => kind[r] = "rotate"
    /\ pc[r] = "upsertAgent" => kind[r] = "register"
    /\ pc[r] = "insertToken" => kind[r] \in {"rotate", "register"}
    /\ pc[r] = "respond" /\ kind[r] \in Logins \cup {"me", "logout"} => sid[r] \in SessionIds
    /\ kind[r] = "passwordLogin" => secret[r] \in Passwords
    /\ kind[r] = "tokenLogin" => secret[r] \in Tokens
    /\ kind[r] = "change" => target[r] \in Passwords
    /\ kind[r] # "change" => target[r] \in Agents

TypeInv == TypeOK /\ \A r \in Tabs : CallInv(r)

(* A request touches no other request's local variables. *)
CallFrame(r) ==
    \A q \in Tabs \ {r} :
        /\ pc'[q] = pc[q] /\ kind'[q] = kind[q] /\ sid'[q] = sid[q]
        /\ secret'[q] = secret[q] /\ target'[q] = target[q]
        /\ reply'[q] = reply[q] /\ gone'[q] = gone[q]

-----------------------------------------------------------------------------
LEMMA InitType == Init => TypeInv
  BY SessionsAssumption
  DEF Init, TypeInv, TypeOK, CallInv, Row, Steps, Kinds, Logins, Guarded, SessionSteps

(* Ending a request keeps the types and leaves the others alone. *)
LEMMA EndType ==
  ASSUME TypeInv, NEW r \in Tabs, End(r)
  PROVE  /\ pc' \in [Tabs -> Steps] /\ kind' \in [Tabs -> Kinds]
         /\ sid' \in [Tabs -> SessionIds \cup {NoSession}]
         /\ secret' \in [Tabs -> Passwords \cup Tokens]
         /\ target' \in [Tabs -> Passwords \cup Agents]
         /\ seen' \in [Tabs -> Types \cup {"none"}]
         /\ reply' \in [Tabs -> Nat]
         /\ wrong' \in [Tabs -> BOOLEAN] /\ gone' \in [Tabs -> BOOLEAN]
         /\ disturbed' \in [Tabs -> BOOLEAN]
         /\ \A q \in Tabs : CallInv(q)'
         /\ CallFrame(r)
         /\ pc'[r] = "idle" /\ kind'[r] = "me" /\ sid'[r] = NoSession /\ reply'[r] = 0
         /\ wrong'[r] = FALSE /\ gone'[r] = FALSE
         /\ \A q \in Tabs \ {r} : wrong'[q] = wrong[q] /\ disturbed'[q] = disturbed[q]
<1>1. /\ pc' \in [Tabs -> Steps] /\ kind' \in [Tabs -> Kinds]
      /\ sid' \in [Tabs -> SessionIds \cup {NoSession}]
      /\ secret' \in [Tabs -> Passwords \cup Tokens]
      /\ target' \in [Tabs -> Passwords \cup Agents]
      /\ seen' \in [Tabs -> Types \cup {"none"}]
      /\ reply' \in [Tabs -> Nat]
      /\ wrong' \in [Tabs -> BOOLEAN] /\ gone' \in [Tabs -> BOOLEAN]
      /\ disturbed' \in [Tabs -> BOOLEAN]
  BY SessionsAssumption DEF End, TypeInv, TypeOK, Steps, Kinds
<1>2. /\ CallFrame(r)
      /\ pc'[r] = "idle" /\ kind'[r] = "me" /\ sid'[r] = NoSession /\ reply'[r] = 0
      /\ wrong'[r] = FALSE /\ gone'[r] = FALSE /\ target'[r] = Primary
      /\ \A q \in Tabs \ {r} : wrong'[q] = wrong[q] /\ disturbed'[q] = disturbed[q]
  BY DEF End, TypeInv, TypeOK, CallFrame
<1>3. CallInv(r)'
  BY <1>2, SessionsAssumption DEF CallInv, Logins, SessionSteps
<1>4. \A q \in Tabs \ {r} : CallInv(q)'
  BY <1>2 DEF TypeInv, CallInv, CallFrame
<1> QED
  BY <1>1, <1>2, <1>3, <1>4

LEMMA RefuseType ==
  ASSUME TypeInv, NEW r \in Tabs, Refuse(r)
  PROVE  TypeInv' /\ CallFrame(r)
  BY EndType DEF Refuse, TypeInv, TypeOK, storeVars, clientVars

LEMMA CancelType ==
  ASSUME TypeInv, NEW r \in Tabs, Cancel(r)
  PROVE  TypeInv' /\ CallFrame(r)
<1>1. End(r) /\ UNCHANGED <<storeVars, minted, clientVars>>
  BY DEF Cancel
<1>2. lost' \subseteq SessionIds
  BY DEF Cancel, HasRow, TypeInv, TypeOK
<1> QED
  BY <1>1, <1>2, EndType DEF TypeInv, TypeOK, storeVars, clientVars

LEMMA RespondType ==
  ASSUME TypeInv, NEW r \in Tabs, Respond(r)
  PROVE  TypeInv' /\ CallFrame(r)
<1>1. End(r) /\ UNCHANGED <<storeVars, minted, lost>>
  BY DEF Respond
<1>2. cookie' \in [Browsers -> SessionIds \cup {NoSession}]
  BY DEF Respond, TypeInv, TypeOK, Kinds
<1>3. csrf' \in [Tabs -> Nat]
  BY DEF Respond, TypeInv, TypeOK, Kinds
<1> QED
  BY <1>1, <1>2, <1>3, EndType DEF TypeInv, TypeOK, storeVars

LEMMA BeginType ==
  ASSUME TypeInv, NEW r \in Tabs, NEW k \in Kinds, NEW s \in SessionIds \cup {NoSession},
         NEW x \in Passwords \cup Tokens, NEW t \in Passwords \cup Agents,
         NEW step \in {"verify", "lookup", "session"},
         Begin(r, k, s, x, t, step),
         step = "verify" => k = "passwordLogin",
         step = "lookup" => k = "tokenLogin",
         step = "session" => k \notin Logins /\ s \in SessionIds,
         k = "passwordLogin" => x \in Passwords,
         k = "tokenLogin" => x \in Tokens,
         k = "change" => t \in Passwords,
         k # "change" => t \in Agents
  PROVE  TypeInv' /\ CallFrame(r)
<1>1. Right(k, x) \in BOOLEAN /\ (k \notin Logins /\ Ended(s)) \in BOOLEAN
  BY DEF Right, Ended, HasRow
<1>2. TypeOK'
  BY <1>1 DEF Begin, Goto, TypeInv, TypeOK, Steps, storeVars, clientVars
<1>3. /\ pc'[r] = step /\ kind'[r] = k /\ sid'[r] = s /\ secret'[r] = x /\ target'[r] = t
      /\ CallFrame(r)
  BY DEF Begin, Goto, TypeInv, TypeOK, CallFrame
<1>4. CallInv(r)'
  BY <1>3 DEF CallInv, SessionSteps
<1>5. \A q \in Tabs \ {r} : CallInv(q)'
  BY <1>3 DEF TypeInv, CallInv, CallFrame
<1> QED
  BY <1>2, <1>3, <1>4, <1>5 DEF TypeInv

LEMMA BeginsType ==
  ASSUME TypeInv, NEW r \in Tabs, BeginLogin(r) \/ BeginWithSession(r)
  PROVE  TypeInv' /\ CallFrame(r)
<1>1. BrowserOf[r] \in Browsers /\ cookie[BrowserOf[r]] \in SessionIds \cup {NoSession}
  BY SessionsAssumption DEF TypeInv, TypeOK
<1>2. Primary \in Agents /\ Configured \in Passwords
  BY SessionsAssumption
<1>3. CASE BeginLogin(r)
  <2>1. ASSUME NEW x \in Passwords, Begin(r, "passwordLogin", NoSession, x, Primary, "verify")
        PROVE  TypeInv' /\ CallFrame(r)
    BY <2>1, <1>2, BeginType DEF Kinds, Logins
  <2>2. ASSUME NEW x \in Tokens, Begin(r, "tokenLogin", NoSession, x, Primary, "lookup")
        PROVE  TypeInv' /\ CallFrame(r)
    BY <2>2, <1>2, BeginType DEF Kinds, Logins
  <2> QED
    BY <1>3, <2>1, <2>2 DEF BeginLogin
<1>4. CASE BeginWithSession(r)
  <2> DEFINE s == cookie[BrowserOf[r]]
  <2>1. s \in SessionIds
    BY <1>1, <1>4 DEF BeginWithSession
  <2>2. ASSUME NEW k \in {"me", "logout"}, Begin(r, k, s, Configured, Primary, "session")
        PROVE  TypeInv' /\ CallFrame(r)
    BY <2>1, <2>2, <1>2, BeginType DEF Kinds, Logins, Guarded
  <2>3. ASSUME NEW k \in {"rotate", "register"}, NEW a \in Agents,
               Begin(r, k, s, Configured, a, "session")
        PROVE  TypeInv' /\ CallFrame(r)
    BY <2>1, <2>3, <1>2, BeginType DEF Kinds, Logins, Guarded
  <2>4. ASSUME NEW x \in Passwords, NEW y \in Passwords,
               Begin(r, "change", s, x, y, "session")
        PROVE  TypeInv' /\ CallFrame(r)
    BY <2>1, <2>4, <1>2, BeginType DEF Kinds, Logins, Guarded
  <2> QED
    BY <1>4, <2>2, <2>3, <2>4 DEF BeginWithSession
<1> QED
  BY <1>3, <1>4

-----------------------------------------------------------------------------
LEMMA RequireType ==
  ASSUME TypeInv, NEW r \in Tabs, NEW check, NEW step \in Steps,
         Require(r, check, step),
         pc'[r] = step /\ UNCHANGED callVars => CallInv(r)'
  PROVE  TypeInv' /\ CallFrame(r)
<1>1. CASE Refuse(r)
  BY <1>1, RefuseType
<1>2. CASE Goto(r, step) /\ UNCHANGED <<storeVars, minted, clientVars, callVars, historyVars>>
  <2>1. TypeOK'
    BY <1>2 DEF Goto, TypeInv, TypeOK, storeVars, clientVars, callVars, historyVars
  <2>2. pc'[r] = step /\ CallFrame(r)
    BY <1>2 DEF Goto, CallFrame, TypeInv, TypeOK, callVars, historyVars
  <2>3. CallInv(r)'
    BY <1>2, <2>2
  <2>4. \A q \in Tabs \ {r} : CallInv(q)'
    BY <2>2 DEF TypeInv, CallInv, CallFrame
  <2> QED
    BY <2>1, <2>2, <2>3, <2>4 DEF TypeInv
<1> QED
  BY <1>1, <1>2 DEF Require

LEMMA ChecksType ==
  ASSUME TypeInv, NEW r \in Tabs,
         \/ VerifyPassword(r) \/ FindAgentByToken(r)
         \/ RequireCSRF(r) \/ RotateRead(r) \/ VerifyCurrent(r)
  PROVE  TypeInv' /\ CallFrame(r)
<1> USE DEF TypeInv, CallInv, callVars, SessionSteps, Steps, Logins, Guarded
<1>1. CASE VerifyPassword(r)
  BY <1>1, RequireType DEF VerifyPassword
<1>2. CASE FindAgentByToken(r)
  BY <1>2, RequireType DEF FindAgentByToken
<1>3. CASE RequireCSRF(r)
  <2> DEFINE step == CASE kind[r] = "logout" -> "delete"
                       [] kind[r] = "change" -> "verifyCurrent"
                       [] kind[r] = "rotate" -> "revoke"
                       [] OTHER -> "upsertAgent"
             check == ValidateCSRF(r) /\ (kind[r] = "change" => seen[r] = "admin")
  <2>1. pc[r] = "csrf" /\ Require(r, check, step)
    BY <1>3 DEF RequireCSRF
  <2>2. kind[r] \in Guarded
    BY <2>1
  <2>3. step \in Steps
    BY <2>2
  <2>4. ASSUME pc'[r] = step, UNCHANGED callVars PROVE CallInv(r)'
    BY <2>1, <2>2, <2>4
  <2> HIDE DEF step, check
  <2> QED
    BY <2>1, <2>3, <2>4, RequireType
<1>4. CASE RotateRead(r)
  BY <1>4, RequireType DEF RotateRead
<1>5. CASE VerifyCurrent(r)
  BY <1>5, RequireType DEF VerifyCurrent
<1> QED
  BY <1>1, <1>2, <1>3, <1>4, <1>5

LEMMA WithSessionType ==
  ASSUME TypeInv, NEW r \in Tabs, WithSession(r)
  PROVE  TypeInv' /\ CallFrame(r)
<1>1. CASE Refuse(r)
  BY <1>1, RefuseType
<1>2. CASE ~Refuse(r)
  <2>1. /\ pc[r] = "session" /\ Valid(sid[r])
        /\ Goto(r, IF kind[r] = "me" THEN "rotateRead" ELSE "csrf")
        /\ seen' = [seen EXCEPT ![r] = sessions[sid[r]].type]
        /\ UNCHANGED <<storeVars, minted, clientVars, kind, sid, secret, target,
                       reply, historyVars>>
    BY <1>2 DEF WithSession
  <2>2. sessions[sid[r]].type \in Types
    BY <2>1 DEF Valid, HasRow, TypeInv, TypeOK, Row
  <2>3. TypeOK'
    BY <2>1, <2>2 DEF Goto, TypeInv, TypeOK, storeVars, clientVars, historyVars, Steps
  <2>4. /\ pc'[r] = IF kind[r] = "me" THEN "rotateRead" ELSE "csrf"
        /\ CallFrame(r)
    BY <2>1 DEF Goto, CallFrame, TypeInv, TypeOK, historyVars
  <2>5. CallInv(r) /\ kind[r] \in Kinds
    BY DEF TypeInv, TypeOK
  <2>6. CallInv(r)'
    BY <2>1, <2>4, <2>5 DEF CallInv, SessionSteps, Guarded, Logins, Kinds
  <2>7. \A q \in Tabs \ {r} : CallInv(q)'
    BY <2>4 DEF TypeInv, CallInv, CallFrame
  <2> QED
    BY <2>3, <2>4, <2>6, <2>7 DEF TypeInv
<1> QED
  BY <1>1, <1>2

(* Every statement of a handler keeps the types. *)
LEMMA WritesType ==
  ASSUME TypeInv, NEW r \in Tabs,
         \/ CreateSession(r) \/ RotateWrite(r) \/ DeleteSession(r)
         \/ UpdateUserPassword(r) \/ RevokeAgentTokens(r) \/ UpsertAgent(r)
         \/ RegisterAgentToken(r)
  PROVE  TypeInv' /\ CallFrame(r)
<1>a. CallInv(r)
  BY DEF TypeInv
<1>1. CASE CreateSession(r)
  <2> DEFINE type == IF kind[r] = "passwordLogin" THEN "admin" ELSE "agent"
  <2>1. PICK s \in SessionIds :
          /\ sessions' = [sessions EXCEPT ![s] = [type |-> type, csrf |-> minted + 1]]
          /\ sid' = [sid EXCEPT ![r] = s]
    BY <1>1 DEF CreateSession, InsertSession
  <2>2. /\ pc[r] = "insertSession" /\ minted' = minted + 1
        /\ reply' = [reply EXCEPT ![r] = minted + 1] /\ Goto(r, "respond")
        /\ UNCHANGED <<password, agents, tokens, expired, clientVars, kind, secret,
                       target, seen, historyVars>>
    BY <1>1 DEF CreateSession, InsertSession
  <2>3. [type |-> type, csrf |-> minted + 1] \in Row
    BY DEF Row, Types, TypeInv, TypeOK
  <2>4. TypeOK'
    <3> HIDE DEF type
    <3> QED
      BY <2>1, <2>2, <2>3 DEF Goto, TypeInv, TypeOK, clientVars, historyVars, Steps
  <2>5. pc'[r] = "respond" /\ sid'[r] = s /\ CallFrame(r)
    BY <2>1, <2>2 DEF Goto, CallFrame, TypeInv, TypeOK, historyVars
  <2>6. CallInv(r)'
    BY <1>a, <2>2, <2>5 DEF CallInv, SessionSteps, Logins
  <2> QED
    BY <2>4, <2>5, <2>6 DEF TypeInv, CallInv, CallFrame
<1>2. CASE RotateWrite(r)
  <2>1. pc[r] = "rotateWrite" /\ Mint(r)
    BY <1>2 DEF RotateWrite
  <2>2. sessions' \in [SessionIds -> Row \cup {Unissued, Deleted}]
    BY <1>2 DEF RotateWrite, HasRow, TypeInv, TypeOK, Row
  <2>3. TypeOK'
    BY <2>1, <2>2 DEF Mint, Goto, TypeInv, TypeOK, clientVars, Steps
  <2>4. pc'[r] = "respond" /\ CallFrame(r)
    BY <2>1 DEF Mint, Goto, CallFrame, TypeInv, TypeOK
  <2>5. CallInv(r)'
    BY <1>a, <2>1, <2>4 DEF Mint, CallInv, SessionSteps, Logins
  <2> QED
    BY <2>3, <2>4, <2>5 DEF TypeInv, CallInv, CallFrame
<1>3. CASE DeleteSession(r)
  <2>1. TypeOK'
    BY <1>3 DEF DeleteSession, Goto, TypeInv, TypeOK, clientVars, callVars, historyVars, Steps
  <2>2. pc'[r] = "respond" /\ CallFrame(r)
    BY <1>3 DEF DeleteSession, Goto, CallFrame, TypeInv, TypeOK, callVars, historyVars
  <2>3. CallInv(r)'
    BY <1>a, <1>3, <2>2 DEF DeleteSession, CallInv, SessionSteps, Logins, callVars
  <2> QED
    BY <2>1, <2>2, <2>3 DEF TypeInv, CallInv, CallFrame
<1>4. CASE UpdateUserPassword(r)
  <2>1. target[r] \in Passwords
    BY <1>4, <1>a DEF UpdateUserPassword, CallInv
  <2>2. TypeOK'
    BY <1>4, <2>1 DEF UpdateUserPassword, Goto, TypeInv, TypeOK, clientVars, callVars, Steps
  <2>3. pc'[r] = "respond" /\ CallFrame(r)
    BY <1>4 DEF UpdateUserPassword, Goto, CallFrame, TypeInv, TypeOK, callVars
  <2>4. CallInv(r)'
    BY <1>a, <1>4, <2>3 DEF UpdateUserPassword, CallInv, SessionSteps, Logins, callVars
  <2> QED
    BY <2>2, <2>3, <2>4 DEF TypeInv, CallInv, CallFrame
<1>5. CASE RevokeAgentTokens(r)
  <2>1. disturbed' \in [Tabs -> BOOLEAN]
    BY <1>5 DEF RevokeAgentTokens, Disturb, TypeInv, TypeOK
  <2>2. TypeOK'
    BY <1>5, <2>1 DEF RevokeAgentTokens, Goto, TypeInv, TypeOK, clientVars, callVars, Steps
  <2>3. pc'[r] = "insertToken" /\ CallFrame(r)
    BY <1>5 DEF RevokeAgentTokens, Goto, CallFrame, TypeInv, TypeOK, callVars
  <2>4. CallInv(r)'
    BY <1>a, <1>5, <2>3 DEF RevokeAgentTokens, CallInv, SessionSteps, Logins, callVars
  <2> QED
    BY <2>2, <2>3, <2>4 DEF TypeInv, CallInv, CallFrame
<1>6. CASE UpsertAgent(r)
  <2>1. target[r] \in Agents
    BY <1>6, <1>a DEF UpsertAgent, CallInv
  <2>2. TypeOK'
    BY <1>6, <2>1 DEF UpsertAgent, Goto, TypeInv, TypeOK, clientVars, callVars,
       historyVars, Steps
  <2>3. pc'[r] = "insertToken" /\ CallFrame(r)
    BY <1>6 DEF UpsertAgent, Goto, CallFrame, TypeInv, TypeOK, callVars, historyVars
  <2>4. CallInv(r)'
    BY <1>a, <1>6, <2>3 DEF UpsertAgent, CallInv, SessionSteps, Logins, callVars
  <2> QED
    BY <2>2, <2>3, <2>4 DEF TypeInv, CallInv, CallFrame
<1>7. CASE RegisterAgentToken(r) /\ ~Refuse(r)
  <2>1. PICK t \in Tokens :
          /\ tokens' = [tokens EXCEPT ![t] = "live"]
          /\ secret' = [secret EXCEPT ![r] = t]
          /\ wrong' = [q \in Tabs |-> wrong[q] /\ ~(kind[q] = "tokenLogin"
                                                    /\ secret[q] = t)]
    BY <1>7 DEF RegisterAgentToken
  <2>2. /\ pc[r] = "insertToken" /\ Goto(r, "respond") /\ Disturb(r)
        /\ UNCHANGED <<password, agents, sessions, expired, minted, clientVars, kind,
                       sid, target, seen, reply, gone, lost>>
    BY <1>7 DEF RegisterAgentToken
  <2>3. TypeOK'
    BY <2>1, <2>2 DEF Disturb, Goto, TypeInv, TypeOK, clientVars, Steps
  <2>4. pc'[r] = "respond" /\ CallFrame(r)
    BY <2>1, <2>2 DEF Goto, CallFrame, TypeInv, TypeOK
  <2>5. CallInv(r)'
    BY <1>a, <2>2, <2>4 DEF CallInv, SessionSteps, Logins
  <2> QED
    BY <2>3, <2>4, <2>5 DEF TypeInv, CallInv, CallFrame
<1>8. CASE Refuse(r)
  BY <1>8, RefuseType
<1> QED
  BY <1>1, <1>2, <1>3, <1>4, <1>5, <1>6, <1>7, <1>8

LEMMA ExpireType == ASSUME TypeInv, NEW s \in SessionIds, Expire(s) PROVE TypeInv'
  BY DEF Expire, TypeInv, TypeOK, CallInv, clientVars, callVars, historyVars

LEMMA StepType ==
  ASSUME TypeInv, NEW r \in Tabs, Step(r)
  PROVE  TypeInv' /\ CallFrame(r)
  BY BeginsType, ChecksType, WithSessionType, WritesType, RespondType, CancelType
  DEF Step, Handle

LEMMA NextType == TypeInv /\ [Next]_vars => TypeInv'
<1> SUFFICES ASSUME TypeInv, [Next]_vars PROVE TypeInv'
  OBVIOUS
<1>1. CASE UNCHANGED vars
  BY <1>1 DEF vars, storeVars, clientVars, callVars, historyVars, TypeInv, TypeOK, CallInv
<1> QED
  BY <1>1, StepType, ExpireType DEF Next

LEMMA TypeInvariant == Spec => []TypeInv
  BY InitType, NextType, PTL DEF Spec

(* Tables, clients and requests keep their types, and each step of a       *)
(* handler finds the local variables it needs.                             *)
THEOREM TypeCorrect == Spec => []TypeOK
<1>1. TypeInv => TypeOK
  BY DEF TypeInv
<1> QED
  BY <1>1, TypeInvariant, PTL

-----------------------------------------------------------------------------
(* The sessions table only moves forward: a row appears where none was, a  *)
(* deleted one stays deleted, an expired one stays expired.                *)
Forward ==
    /\ expired \subseteq expired'
    /\ \A s \in SessionIds : sessions[s] = Deleted => sessions'[s] = Deleted
    /\ \A s \in SessionIds : sessions[s] # Unissued => sessions'[s] # Unissued

LEMMA MovesForward == TypeInv /\ [Next]_vars => Forward
<1> SUFFICES ASSUME TypeInv, [Next]_vars PROVE Forward
  OBVIOUS
<1> USE DEF Forward
<1>1. CASE UNCHANGED <<sessions, expired>>
  BY <1>1
<1>2. ASSUME NEW r \in Tabs, CreateSession(r) PROVE Forward
  <2> DEFINE row == [type |-> IF kind[r] = "passwordLogin" THEN "admin" ELSE "agent",
                     csrf |-> minted + 1]
  <2>1. row \in Row
    BY DEF Row, Types, TypeInv, TypeOK
  <2>2. PICK s \in SessionIds :
          sessions[s] = Unissued /\ sessions' = [sessions EXCEPT ![s] = row]
    BY <1>2 DEF CreateSession, InsertSession
  <2>3. UNCHANGED expired
    BY <1>2 DEF CreateSession, InsertSession
  <2> QED
    BY <2>1, <2>2, <2>3, SessionsAssumption DEF TypeInv, TypeOK
<1>3. ASSUME NEW r \in Tabs, RotateWrite(r) PROVE Forward
  <2>1. UNCHANGED expired
    BY <1>3 DEF RotateWrite, Mint
  <2>2. CASE ~HasRow(sid[r])
    BY <1>3, <2>1, <2>2 DEF RotateWrite
  <2>3. CASE HasRow(sid[r])
    <3>1. sid[r] \in SessionIds /\ sessions[sid[r]] \in Row /\ minted + 1 \in Nat
      BY <2>3 DEF HasRow, TypeInv, TypeOK
    <3>2. [sessions[sid[r]] EXCEPT !.csrf = minted + 1] \in Row
      BY <3>1 DEF Row
    <3>3. sessions' = [sessions EXCEPT ![sid[r]] =
                         [sessions[sid[r]] EXCEPT !.csrf = minted + 1]]
      BY <1>3, <2>3, <3>1 DEF RotateWrite, TypeInv, TypeOK
    <3> QED
      BY <2>1, <3>1, <3>2, <3>3, SessionsAssumption DEF TypeInv, TypeOK
  <2> QED
    BY <2>2, <2>3
<1>4. ASSUME NEW r \in Tabs, DeleteSession(r) PROVE Forward
  BY <1>4, SessionsAssumption DEF DeleteSession, TypeInv, TypeOK
<1>5. ASSUME NEW s \in SessionIds, Expire(s) PROVE Forward
  BY <1>5 DEF Expire
<1>6. ASSUME NEW r \in Tabs, Step(r),
             ~CreateSession(r), ~RotateWrite(r), ~DeleteSession(r)
      PROVE  UNCHANGED <<sessions, expired>>
  BY <1>6 DEF Step, Handle, BeginLogin, BeginWithSession, Begin, VerifyPassword,
     FindAgentByToken, WithSession, RequireCSRF, RotateRead, VerifyCurrent, Require,
     Refuse, UpdateUserPassword, RevokeAgentTokens, UpsertAgent, RegisterAgentToken,
     Respond, Cancel, storeVars
<1> QED
  BY <1>1, <1>2, <1>3, <1>4, <1>5, <1>6 DEF Next, vars, storeVars

(* A logout is final: whatever request read the row before, no statement   *)
(* of any handler brings a deleted session back.                           *)
THEOREM LogoutAlwaysFinal == Spec => LogoutIsFinal
<1>1. TypeInv /\ [Next]_vars =>
        [\A s \in SessionIds : sessions[s] = Deleted => sessions'[s] = Deleted]_vars
  BY MovesForward DEF Forward
<1> QED
  BY <1>1, TypeInvariant, PTL DEF Spec, LogoutIsFinal

-----------------------------------------------------------------------------
(* Cookies and requests name sessions that have been issued; a request on  *)
(* a session that had ended gets no further than withSession.              *)
GoneInv(r) ==
    gone[r] => pc[r] = "session" /\ ~Valid(sid[r])

IssuedInv ==
    /\ TypeInv
    /\ \A b \in Browsers : cookie[b] \in SessionIds => sessions[cookie[b]] # Unissued
    /\ \A r \in Tabs : sid[r] \in SessionIds => sessions[sid[r]] # Unissued
    /\ \A r \in Tabs : GoneInv(r)

LEMMA EndedStays ==
  ASSUME TypeInv, Forward
  PROVE  \A s \in SessionIds : sessions[s] # Unissued /\ ~Valid(s) => ~Valid(s)'
  BY SessionsAssumption DEF Forward, Valid, HasRow, TypeInv, TypeOK

LEMMA InitIssued == Init => IssuedInv
<1> SUFFICES ASSUME Init PROVE IssuedInv
  OBVIOUS
<1>1. TypeInv
  BY InitType
<1> QED
  BY <1>1, SessionsAssumption DEF Init, IssuedInv, GoneInv

(* Where the session of a request and the cookies come from. *)
LEMMA StepIds ==
  ASSUME TypeInv, NEW r \in Tabs, Step(r)
  PROVE  /\ \/ sid'[r] \in {sid[r], NoSession, cookie[BrowserOf[r]]}
            \/ sessions'[sid'[r]] \in Row
         /\ \A b \in Browsers : cookie'[b] \in {cookie[b], sid[r], NoSession}
<1>1. ASSUME NEW k, NEW s, NEW x, NEW t, NEW step, Begin(r, k, s, x, t, step)
      PROVE  sid'[r] = s /\ UNCHANGED cookie
  BY <1>1 DEF Begin, clientVars, TypeInv, TypeOK
<1>2. CASE BeginLogin(r) \/ BeginWithSession(r)
  <2>1. sid'[r] \in {NoSession, cookie[BrowserOf[r]]} /\ UNCHANGED cookie
    BY <1>1, <1>2 DEF BeginLogin, BeginWithSession
  <2> QED
    BY <2>1
<1>3. CASE CreateSession(r)
  <2>1. PICK s \in SessionIds :
          /\ sid' = [sid EXCEPT ![r] = s]
          /\ sessions'[s] = [type |-> IF kind[r] = "passwordLogin" THEN "admin" ELSE "agent",
                             csrf |-> minted + 1]
    BY <1>3 DEF CreateSession, InsertSession, TypeInv, TypeOK
  <2>2. sid'[r] = s /\ sessions'[s] \in Row
    BY <2>1 DEF Row, Types, TypeInv, TypeOK
  <2> QED
    BY <1>3, <2>2 DEF CreateSession, InsertSession, clientVars
<1>4. CASE Respond(r)
  <2>1. sid'[r] = NoSession
    BY <1>4 DEF Respond, End, TypeInv, TypeOK
  <2> QED
    BY <1>4, <2>1 DEF Respond, TypeInv, TypeOK
<1>5. CASE Cancel(r) \/ Refuse(r)
  BY <1>5 DEF Cancel, Refuse, End, clientVars, TypeInv, TypeOK
<1>6. CASE Handle(r) /\ ~Refuse(r) /\ ~CreateSession(r)
  <2>1. UNCHANGED <<sid, cookie>>
    BY <1>6 DEF Handle, VerifyPassword, FindAgentByToken, WithSession, RequireCSRF,
       RotateRead, VerifyCurrent, Require, RotateWrite, Mint, DeleteSession,
       UpdateUserPassword, RevokeAgentTokens, UpsertAgent, RegisterAgentToken,
       clientVars, callVars
  <2> QED
    BY <2>1
<1> QED
  BY <1>2, <1>3, <1>4, <1>5, <1>6 DEF Step

(* What becomes of a request whose session had ended. *)
LEMMA StepGone ==
  ASSUME IssuedInv, NEW r \in Tabs, Step(r)
  PROVE  GoneInv(r)'
<1> USE DEF GoneInv
<1>a. TypeInv /\ (gone[r] => pc[r] = "session" /\ ~Valid(sid[r]))
  BY DEF IssuedInv
<1>1. CASE Respond(r) \/ Cancel(r) \/ Refuse(r)
  BY <1>1, <1>a DEF Respond, Cancel, Refuse, End, TypeInv, TypeOK
<1>2. CASE BeginLogin(r)
  <2>1. gone'[r] = FALSE
    BY <1>2, <1>a DEF BeginLogin, Begin, Logins, TypeInv, TypeOK
  <2> QED
    BY <2>1
<1>3. CASE BeginWithSession(r)
  <2> DEFINE s == cookie[BrowserOf[r]]
  <2>1. ASSUME NEW k, NEW x, NEW t, Begin(r, k, s, x, t, "session")
        PROVE  /\ pc'[r] = "session" /\ sid'[r] = s
               /\ gone'[r] = (k \notin Logins /\ Ended(s))
               /\ UNCHANGED <<sessions, expired>>
    BY <2>1, <1>a DEF Begin, Goto, storeVars, TypeInv, TypeOK
  <2>2. /\ pc'[r] = "session" /\ sid'[r] = s /\ (gone'[r] => Ended(s))
        /\ UNCHANGED <<sessions, expired>>
    BY <1>3, <2>1 DEF BeginWithSession
  <2> HIDE DEF s
  <2> QED
    BY <2>2 DEF Ended, Valid, HasRow
<1>4. CASE WithSession(r) /\ ~Refuse(r)
  BY <1>4, <1>a DEF WithSession, historyVars
<1>5. CASE Handle(r) /\ ~WithSession(r) /\ ~Refuse(r)
  <2>1. pc[r] # "session" /\ UNCHANGED gone
    BY <1>5 DEF Handle, VerifyPassword, FindAgentByToken, CreateSession, InsertSession,
       RequireCSRF, RotateRead, VerifyCurrent, Require, RotateWrite, Mint, DeleteSession,
       UpdateUserPassword, RevokeAgentTokens, UpsertAgent, RegisterAgentToken,
       historyVars
  <2> QED
    BY <2>1, <1>a
<1> QED
  BY <1>1, <1>2, <1>3, <1>4, <1>5 DEF Step, Handle

LEMMA NextIssued == IssuedInv /\ [Next]_vars => IssuedInv'
<1> SUFFICES ASSUME IssuedInv, [Next]_vars PROVE IssuedInv'
  OBVIOUS
<1>a. TypeInv /\ TypeInv' /\ Forward
  BY NextType, MovesForward DEF IssuedInv
<1>b. \A s \in SessionIds : sessions[s] # Unissued =>
        sessions'[s] # Unissued /\ (~Valid(s) => ~Valid(s)')
  BY <1>a, EndedStays DEF Forward
<1>1. ASSUME NEW r \in Tabs, Step(r) PROVE IssuedInv'
  <2>1. CallFrame(r) /\ GoneInv(r)'
    BY <1>1, <1>a, StepType, StepGone
  <2>2. ASSUME NEW q \in Tabs \ {r} PROVE GoneInv(q)'
    <3>1. pc'[q] = pc[q] /\ sid'[q] = sid[q] /\ gone'[q] = gone[q] /\ GoneInv(q)
      BY <2>1 DEF CallFrame, IssuedInv
    <3>2. pc[q] = "session" => sid[q] \in SessionIds /\ sessions[sid[q]] # Unissued
      BY <1>a DEF TypeInv, CallInv, SessionSteps, IssuedInv
    <3>3. PICK s : s = sid[q]
      OBVIOUS
    <3>4. pc[q] = "session" /\ ~Valid(s) => ~Valid(s)'
      BY <3>2, <3>3, <1>b
    <3> QED
      BY <3>1, <3>3, <3>4 DEF GoneInv, Valid, HasRow
  <2>3. BrowserOf[r] \in Browsers
    BY SessionsAssumption
  <2>4. ASSUME NEW b \in Browsers, cookie'[b] \in SessionIds
        PROVE  sessions'[cookie'[b]] # Unissued
    BY <2>4, <1>1, <1>a, <1>b, StepIds, SessionsAssumption DEF IssuedInv
  <2>5. ASSUME NEW q \in Tabs, sid'[q] \in SessionIds
        PROVE  sessions'[sid'[q]] # Unissued
    <3>1. CASE q = r
      BY <2>5, <3>1, <2>3, <1>1, <1>a, <1>b, StepIds, SessionsAssumption DEF IssuedInv
    <3>2. CASE q # r
      BY <2>5, <3>2, <2>1, <1>b DEF CallFrame, IssuedInv
    <3> QED
      BY <3>1, <3>2
  <2> QED
    BY <1>a, <2>1, <2>2, <2>4, <2>5 DEF IssuedInv
<1>2. CASE (\E s \in SessionIds : Expire(s)) \/ UNCHANGED vars
  <2>1. UNCHANGED <<cookie, sid, pc, gone>>
    BY <1>2 DEF Expire, vars, clientVars, callVars, historyVars
  <2>2. ASSUME NEW r \in Tabs PROVE GoneInv(r)'
    <3>1. pc[r] = "session" => sid[r] \in SessionIds /\ sessions[sid[r]] # Unissued
      BY <1>a DEF TypeInv, CallInv, SessionSteps, IssuedInv
    <3>2. PICK s : s = sid[r]
      OBVIOUS
    <3>3. pc[r] = "session" /\ ~Valid(s) => ~Valid(s)'
      BY <3>1, <3>2, <1>b
    <3> QED
      BY <2>1, <3>2, <3>3 DEF GoneInv, Valid, HasRow, IssuedInv
  <2> QED
    BY <1>a, <1>b, <2>1, <2>2 DEF IssuedInv
<1> QED
  BY <1>1, <1>2 DEF Next

LEMMA IssuedInvariant == Spec => []IssuedInv
  BY InitIssued, NextIssued, PTL DEF Spec

(* A request that begins once its session has been logged out or has       *)
(* expired writes nothing.                                                 *)
THEOREM EndedSessionsNeverAct == Spec => []EndedSessionsDoNothing
<1>1. IssuedInv => EndedSessionsDoNothing
  BY DEF IssuedInv, GoneInv, EndedSessionsDoNothing
<1> QED
  BY <1>1, IssuedInvariant, PTL

-----------------------------------------------------------------------------
(* A login whose secret has been wrong ever since it began has not passed  *)
(* its check, and its secret is wrong now.                                 *)
RightNow(r) ==
    /\ kind[r] = "passwordLogin" => secret[r] = password
    /\ kind[r] = "tokenLogin" => tokens[secret[r]] = "live"

WrongInv(r) ==
    wrong[r] /\ kind[r] \in Logins => pc[r] \in {"verify", "lookup"} /\ ~RightNow(r)

SecretsInv == TypeInv /\ \A r \in Tabs : WrongInv(r)

LEMMA InitSecrets == Init => SecretsInv
  BY InitType DEF Init, SecretsInv, WrongInv, Logins

(* No statement makes a secret right that the history still calls wrong.   *)
LEMMA StaysWrong ==
  ASSUME TypeInv, NEW r \in Tabs, Step(r), NEW q \in Tabs,
         wrong'[q], kind'[q] = kind[q], secret'[q] = secret[q], kind[q] \in Logins,
         wrong[q], ~RightNow(q)
  PROVE  ~RightNow(q)'
<1>1. CASE UpdateUserPassword(r)
  <2>1. password' = target[r] /\ UNCHANGED tokens
    BY <1>1 DEF UpdateUserPassword
  <2>2. ~(kind[q] = "passwordLogin" /\ secret[q] = target[r])
    BY <1>1 DEF UpdateUserPassword
  <2> QED
    BY <2>1, <2>2 DEF RightNow, Logins
<1>2. CASE RevokeAgentTokens(r)
  <2>1. UNCHANGED password
    BY <1>2 DEF RevokeAgentTokens
  <2>2. \A t \in Tokens : tokens[t] # "live" => tokens'[t] # "live"
    BY <1>2 DEF RevokeAgentTokens
  <2>3. kind[q] = "tokenLogin" => secret[q] \in Tokens
    BY DEF TypeInv, CallInv
  <2> QED
    BY <2>1, <2>2, <2>3 DEF RightNow, Logins
<1>3. CASE RegisterAgentToken(r) /\ ~Refuse(r)
  <2>1. PICK t \in Tokens :
          /\ tokens' = [tokens EXCEPT ![t] = "live"]
          /\ wrong' = [p \in Tabs |-> wrong[p] /\ ~(kind[p] = "tokenLogin"
                                                    /\ secret[p] = t)]
    BY <1>3 DEF RegisterAgentToken
  <2>2. UNCHANGED password
    BY <1>3 DEF RegisterAgentToken
  <2>3. kind[q] = "tokenLogin" => secret[q] \in Tokens /\ secret[q] # t
    BY <2>1 DEF TypeInv, CallInv
  <2> QED
    BY <2>1, <2>2, <2>3 DEF RightNow, Logins, TypeInv, TypeOK
<1>4. CASE ~UpdateUserPassword(r) /\ ~RevokeAgentTokens(r)
           /\ ~(RegisterAgentToken(r) /\ ~Refuse(r))
  <2>1. UNCHANGED <<password, tokens>>
    BY <1>4 DEF Step, Handle, BeginLogin, BeginWithSession, Begin, VerifyPassword,
       FindAgentByToken, WithSession, RequireCSRF, RotateRead, VerifyCurrent, Require,
       Refuse, CreateSession, InsertSession, RotateWrite, Mint, DeleteSession,
       UpsertAgent, RegisterAgentToken, Respond, Cancel, storeVars
  <2> QED
    BY <2>1 DEF RightNow
<1> QED
  BY <1>1, <1>2, <1>3, <1>4

(* History only forgets that a secret was wrong, except at the beginning.  *)
LEMMA WrongShrinks ==
  ASSUME TypeInv, NEW r \in Tabs, Step(r)
  PROVE  /\ \A q \in Tabs \ {r} : wrong'[q] => wrong[q]
         /\ ~(BeginLogin(r) \/ BeginWithSession(r)) /\ wrong'[r] => wrong[r]
<1>1. CASE BeginLogin(r) \/ BeginWithSession(r)
  BY <1>1 DEF BeginLogin, BeginWithSession, Begin, TypeInv, TypeOK
<1>2. CASE Respond(r) \/ Cancel(r) \/ Refuse(r)
  BY <1>2 DEF Respond, Cancel, Refuse, End, TypeInv, TypeOK
<1>3. CASE Handle(r) /\ ~Refuse(r)
  BY <1>3 DEF Handle, VerifyPassword, FindAgentByToken, CreateSession, InsertSession,
     WithSession, RequireCSRF, RotateRead, VerifyCurrent, Require, RotateWrite, Mint,
     DeleteSession, UpdateUserPassword, RevokeAgentTokens, UpsertAgent,
     RegisterAgentToken, historyVars, TypeInv, TypeOK
<1> QED
  BY <1>1, <1>2, <1>3 DEF Step

LEMMA NextSecrets == SecretsInv /\ [Next]_vars => SecretsInv'
<1> SUFFICES ASSUME SecretsInv, [Next]_vars PROVE SecretsInv'
  OBVIOUS
<1>a. TypeInv /\ TypeInv'
  BY NextType DEF SecretsInv
<1>1. ASSUME NEW r \in Tabs, Step(r), NEW q \in Tabs PROVE WrongInv(q)'
  <2> SUFFICES ASSUME wrong'[q], kind'[q] \in Logins
               PROVE  pc'[q] \in {"verify", "lookup"} /\ ~RightNow(q)'
    BY DEF WrongInv
  <2>a. CallFrame(r) /\ WrongInv(q)
    BY <1>1, <1>a, StepType DEF SecretsInv
  <2>1. CASE q # r
    <3>1. /\ pc'[q] = pc[q] /\ kind'[q] = kind[q] /\ secret'[q] = secret[q] /\ wrong[q]
      BY <2>1, <2>a, <1>1, <1>a, WrongShrinks DEF CallFrame
    <3> QED
      BY <3>1, <2>a, <1>1, <1>a, StaysWrong DEF WrongInv
  <2>2. CASE q = r /\ (BeginLogin(r) \/ BeginWithSession(r))
    <3>1. ASSUME NEW k, NEW s, NEW x, NEW t, NEW step, Begin(r, k, s, x, t, step)
          PROVE  /\ pc'[r] = step /\ kind'[r] = k /\ secret'[r] = x
                 /\ wrong'[r] = ~Right(k, x) /\ UNCHANGED <<password, tokens>>
      BY <3>1, <1>a DEF Begin, Goto, storeVars, TypeInv, TypeOK
    <3>2. CASE BeginLogin(r)
      <4>1. PICK x \in Passwords \cup Tokens :
              \/ Begin(r, "passwordLogin", NoSession, x, Primary, "verify")
              \/ Begin(r, "tokenLogin", NoSession, x, Primary, "lookup")
        BY <3>2 DEF BeginLogin
      <4> QED
        BY <4>1, <3>1, <2>2 DEF Right, RightNow
    <3>3. CASE BeginWithSession(r)
      <4>1. kind'[r] \in {"me", "logout", "rotate", "register", "change"}
        BY <3>1, <3>3 DEF BeginWithSession
      <4> QED
        BY <4>1, <2>2 DEF Logins
    <3> QED
      BY <2>2, <3>2, <3>3
  <2>3. CASE q = r /\ (Respond(r) \/ Cancel(r) \/ Refuse(r))
    <3>1. wrong'[q] = FALSE
      BY <2>3, <1>a DEF Respond, Cancel, Refuse, End, TypeInv, TypeOK
    <3> QED
      BY <3>1
  <2>4. CASE q = r /\ Handle(r) /\ ~Refuse(r)
    <3>1. kind'[r] = kind[r]
      BY <2>4 DEF Handle, VerifyPassword, FindAgentByToken, CreateSession, InsertSession,
         WithSession, RequireCSRF, RotateRead, VerifyCurrent, Require, RotateWrite, Mint,
         DeleteSession, UpdateUserPassword, RevokeAgentTokens, UpsertAgent,
         RegisterAgentToken, callVars
    <3>2. pc[r] \notin {"idle", "respond"}
      BY <2>4 DEF Handle, VerifyPassword, FindAgentByToken, CreateSession, InsertSession,
         WithSession, RequireCSRF, RotateRead, VerifyCurrent, RotateWrite,
         DeleteSession, UpdateUserPassword, RevokeAgentTokens, UpsertAgent,
         RegisterAgentToken
    <3>3. wrong[r]
      BY <2>4, <1>1, <1>a, WrongShrinks DEF Handle, BeginLogin, BeginWithSession, Begin,
         VerifyPassword, FindAgentByToken, CreateSession, InsertSession,
         WithSession, RequireCSRF, RotateRead, VerifyCurrent, RotateWrite,
         DeleteSession, UpdateUserPassword, RevokeAgentTokens, UpsertAgent,
         RegisterAgentToken
    <3>4. pc[r] \in {"verify", "lookup"} /\ ~RightNow(r)
      BY <3>1, <3>3, <2>4, <2>a DEF WrongInv
    <3>5. kind[r] = IF pc[r] = "verify" THEN "passwordLogin" ELSE "tokenLogin"
      BY <3>4, <1>a DEF TypeInv, CallInv
    <3>6. VerifyPassword(r) \/ FindAgentByToken(r)
      BY <3>4, <2>4 DEF Handle, CreateSession, InsertSession, WithSession, RequireCSRF,
         RotateRead, VerifyCurrent, RotateWrite, DeleteSession, UpdateUserPassword,
         RevokeAgentTokens, UpsertAgent, RegisterAgentToken
    <3> QED
      BY <3>4, <3>5, <3>6, <2>4 DEF VerifyPassword, FindAgentByToken, Require, RightNow
  <2> QED
    BY <2>1, <2>2, <2>3, <2>4, <1>1 DEF Step
<1>2. CASE (\E s \in SessionIds : Expire(s)) \/ UNCHANGED vars
  <2>1. UNCHANGED <<password, tokens, wrong, kind, secret, pc>>
    BY <1>2 DEF Expire, vars, storeVars, callVars, historyVars
  <2> QED
    BY <1>a, <2>1 DEF SecretsInv, WrongInv, RightNow
<1> QED
  BY <1>1, <1>2, <1>a DEF Next, SecretsInv

(* A login with a password or agent token that was changed, revoked or     *)
(* wrong before it began never gets a session.                          *)
THEOREM StaleSecretsNeverOpen == Spec => []StaleSecretsOpenNothing
<1>1. SecretsInv => StaleSecretsOpenNothing
  BY DEF SecretsInv, WrongInv, StaleSecretsOpenNothing
<1> QED
  BY <1>1, InitSecrets, NextSecrets, PTL DEF Spec

-----------------------------------------------------------------------------
(* A rotation that nobody disturbed finds no live token when it registers  *)
(* one, and only that one when it answers.                                 *)
RotationInv(r) ==
    kind[r] = "rotate" /\ ~disturbed[r] =>
      /\ pc[r] = "insertToken" => LiveTokens(target[r]) = {}
      /\ pc[r] = "respond" => LiveTokens(target[r]) = {secret[r]}

TokensInv == TypeInv /\ \A r \in Tabs : RotationInv(r)

(* A statement that writes tokens of an agent disturbs the rotations of    *)
(* the same agent by others and leaves the tokens of other agents alone.   *)
LEMMA OthersTokens ==
  ASSUME TypeInv, NEW r \in Tabs, Step(r), NEW q \in Tabs \ {r},
         kind[q] = "rotate", ~disturbed'[q]
  PROVE  ~disturbed[q] /\ LiveTokens(target[q])' = LiveTokens(target[q])
<1>a. CallFrame(r) /\ target'[q] = target[q]
  BY StepType DEF CallFrame
<1>1. CASE RevokeAgentTokens(r)
  <2>1. ~disturbed[q] /\ target[q] # target[r]
    BY <1>1 DEF RevokeAgentTokens, Disturb
  <2>2. tokens' = [t \in Tokens |->
                     IF t \in LiveTokens(target[r]) THEN "revoked" ELSE tokens[t]]
    BY <1>1 DEF RevokeAgentTokens
  <2> QED
    BY <1>a, <2>1, <2>2 DEF LiveTokens
<1>2. CASE RegisterAgentToken(r) /\ ~Refuse(r)
  <2>1. PICK t \in Tokens :
          AgentOf[t] = target[r] /\ tokens' = [tokens EXCEPT ![t] = "live"]
    BY <1>2 DEF RegisterAgentToken
  <2>2. ~disturbed[q] /\ target[q] # target[r]
    BY <1>2 DEF RegisterAgentToken, Disturb
  <2> QED
    BY <1>a, <2>1, <2>2 DEF LiveTokens, TypeInv, TypeOK
<1>3. CASE ~RevokeAgentTokens(r) /\ ~(RegisterAgentToken(r) /\ ~Refuse(r))
  <2>1. UNCHANGED tokens
    BY <1>3 DEF Step, Handle, BeginLogin, BeginWithSession, Begin, VerifyPassword,
       FindAgentByToken, WithSession, RequireCSRF, RotateRead, VerifyCurrent, Require,
       Refuse, CreateSession, InsertSession, RotateWrite, Mint, DeleteSession,
       UpdateUserPassword, UpsertAgent, RegisterAgentToken, Respond, Cancel, storeVars
  <2>2. disturbed'[q] = disturbed[q]
    BY <1>3, EndType DEF Step, Handle, BeginLogin, BeginWithSession, Begin, VerifyPassword,
       FindAgentByToken, WithSession, RequireCSRF, RotateRead, VerifyCurrent, Require,
       Refuse, CreateSession, InsertSession, RotateWrite, Mint, DeleteSession,
       UpdateUserPassword, UpsertAgent, RegisterAgentToken, Respond, Cancel, historyVars
  <2> QED
    BY <1>a, <2>1, <2>2 DEF LiveTokens
<1> QED
  BY <1>1, <1>2, <1>3

LEMMA OwnTokens ==
  ASSUME TypeInv, NEW r \in Tabs, Step(r), RotationInv(r)
  PROVE  RotationInv(r)'
<1>1. CASE RevokeAgentTokens(r)
  <2>1. pc'[r] = "insertToken" /\ target'[r] = target[r]
    BY <1>1 DEF RevokeAgentTokens, Goto, callVars, TypeInv, TypeOK
  <2>2. LiveTokens(target[r])' = {}
    BY <1>1, <2>1 DEF RevokeAgentTokens, LiveTokens
  <2> QED
    BY <2>1, <2>2 DEF RotationInv
<1>2. CASE RegisterAgentToken(r) /\ ~Refuse(r)
  <2>1. PICK t \in Tokens :
          /\ AgentOf[t] = target[r] /\ tokens' = [tokens EXCEPT ![t] = "live"]
          /\ secret' = [secret EXCEPT ![r] = t]
    BY <1>2 DEF RegisterAgentToken
  <2>2. /\ pc[r] = "insertToken" /\ pc'[r] = "respond"
        /\ target'[r] = target[r] /\ kind'[r] = kind[r] /\ disturbed'[r] = disturbed[r]
        /\ secret'[r] = t
    BY <1>2, <2>1 DEF RegisterAgentToken, Disturb, Goto, TypeInv, TypeOK
  <2>3. LiveTokens(target[r]) = {} => LiveTokens(target[r])' = {t}
    BY <2>1, <2>2 DEF LiveTokens, TypeInv, TypeOK
  <2> QED
    BY <2>2, <2>3 DEF RotationInv
<1>3. CASE ~RevokeAgentTokens(r) /\ ~(RegisterAgentToken(r) /\ ~Refuse(r))
  <2>1. pc'[r] \in {"insertToken", "respond"} => kind'[r] # "rotate"
    <3>1. CASE Respond(r) \/ Cancel(r) \/ Refuse(r)
      BY <3>1, EndType DEF Respond, Cancel, Refuse
    <3>2. CASE BeginLogin(r) \/ BeginWithSession(r)
      BY <3>2 DEF BeginLogin, BeginWithSession, Begin, Goto, TypeInv, TypeOK
    <3>3. CASE Handle(r) /\ ~Refuse(r)
      <4>1. CallInv(r)
        BY DEF TypeInv
      <4> QED
        BY <1>3, <3>3, <4>1 DEF Handle, VerifyPassword, FindAgentByToken, WithSession,
           RequireCSRF, RotateRead, VerifyCurrent, Require, CreateSession, InsertSession,
           RotateWrite, Mint, DeleteSession, UpdateUserPassword, UpsertAgent, Goto,
           CallInv, Logins, Guarded, callVars, TypeInv, TypeOK
    <3> QED
      BY <3>1, <3>2, <3>3 DEF Step
  <2> QED
    BY <2>1 DEF RotationInv
<1> QED
  BY <1>1, <1>2, <1>3

LEMMA NextTokens == TokensInv /\ [Next]_vars => TokensInv'
<1> SUFFICES ASSUME TokensInv, [Next]_vars PROVE TokensInv'
  OBVIOUS
<1>a. TypeInv /\ TypeInv'
  BY NextType DEF TokensInv
<1>1. ASSUME NEW r \in Tabs, Step(r), NEW q \in Tabs PROVE RotationInv(q)'
  <2>1. CASE q = r
    BY <2>1, <1>1, <1>a, OwnTokens DEF TokensInv
  <2>2. CASE q # r
    <3>1. /\ pc'[q] = pc[q] /\ kind'[q] = kind[q] /\ secret'[q] = secret[q]
          /\ target'[q] = target[q]
      BY <2>2, <1>1, <1>a, StepType DEF CallFrame
    <3>2. kind[q] = "rotate" /\ ~disturbed'[q] =>
            ~disturbed[q] /\ LiveTokens(target[q])' = LiveTokens(target[q])
      BY <2>2, <1>1, <1>a, OthersTokens
    <3> QED
      BY <3>1, <3>2 DEF TokensInv, RotationInv
  <2> QED
    BY <2>1, <2>2
<1>2. CASE (\E s \in SessionIds : Expire(s)) \/ UNCHANGED vars
  <2>1. UNCHANGED <<tokens, kind, target, disturbed, secret, pc>>
    BY <1>2 DEF Expire, vars, storeVars, callVars, historyVars
  <2> QED
    BY <1>a, <2>1 DEF TokensInv, RotationInv, LiveTokens
<1> QED
  BY <1>1, <1>2, <1>a DEF Next, TokensInv

(* A rotation that no other request disturbed leaves the token it answers  *)
(* with as the agent's only one, for any number of tokens and requests.    *)
THEOREM RotationAlwaysLeavesOne == Spec => []RotationLeavesOneToken
<1>1. Init => TokensInv
  BY InitType DEF Init, TokensInv, RotationInv
<1>2. TokensInv => RotationLeavesOneToken
  BY DEF TokensInv, RotationInv, RotationLeavesOneToken
<1> QED
  BY <1>1, <1>2, NextTokens, PTL DEF Spec

-------------------------------------------------------------------------------
(* That the CSRF token of a browser's session stays known to one of its tabs.*)

(* The requests whose answer carries a CSRF token. *)
Carriers == Logins \cup {"me"}

(* CSRF tokens are numbered as they are made, and each is of one session.  *)
Numbers ==
    /\ \A r \in Tabs : csrf[r] <= minted /\ reply[r] <= minted
    /\ \A s \in SessionIds : HasRow(s) =>
          sessions[s].csrf >= 1 /\ sessions[s].csrf <= minted
    /\ \A s, u \in SessionIds :
          HasRow(s) /\ HasRow(u) /\ sessions[s].csrf = sessions[u].csrf => s = u

Answers(r) ==
    IF pc[r] = "respond" /\ kind[r] \in Carriers
    THEN \A s \in SessionIds : HasRow(s) /\ sessions[s].csrf = reply[r] => s = sid[r]
    ELSE reply[r] = 0

(* A session is known to one browser only. *)
Owners ==
    /\ \A b, c \in Browsers : cookie[b] # NoSession /\ cookie[b] = cookie[c] => b = c
    /\ \A r \in Tabs, b \in Browsers :
          sid[r] # NoSession /\ cookie[b] = sid[r] => BrowserOf[r] = b
    /\ \A r, q \in Tabs :
          sid[r] # NoSession /\ sid[r] = sid[q] => BrowserOf[r] = BrowserOf[q]

(* Nobody else knows the session of a login that has not been answered.    *)
LoginFresh(q) ==
    pc[q] = "respond" /\ kind[q] \in Logins =>
      /\ \A b \in Browsers : cookie[b] # sid[q]
      /\ \A r \in Tabs \ {q} : sid[r] # sid[q]
      /\ HasRow(sid[q]) => sessions[sid[q]].csrf = reply[q]
                           /\ \A r \in Tabs : csrf[r] # reply[q]

(* A tab that holds the token of its browser's session asks for that       *)
(* session only ...                                                        *)
HolderAsks(r) ==
    pc[r] # "idle" /\ kind[r] \notin Logins =>
      LET s == cookie[BrowserOf[r]] IN
        HasRow(s) /\ csrf[r] = sessions[s].csrf => sid[r] = s

(* ... and does not hold it any more when it waits for a newer one.        *)
RotatorHolds(r) ==
    pc[r] = "respond" /\ kind[r] = "me" /\ HasRow(sid[r]) =>
      csrf[r] # sessions[sid[r]].csrf

KnownInv ==
    /\ IssuedInv
    /\ Numbers
    /\ Owners
    /\ \A r \in Tabs : Answers(r) /\ LoginFresh(r) /\ HolderAsks(r) /\ RotatorHolds(r)
    /\ CsrfStaysKnown

LEMMA InitKnown == Init => KnownInv
<1> SUFFICES ASSUME Init PROVE KnownInv
  OBVIOUS
<1>1. IssuedInv
  BY InitIssued
<1>2. \A s : ~HasRow(s)
  BY DEF Init, HasRow
<1>3. \A b \in Browsers : cookie[b] = NoSession
  BY DEF Init
<1>4. \A r \in Tabs : pc[r] = "idle" /\ reply[r] = 0 /\ csrf[r] = 0 /\ sid[r] = NoSession
  BY DEF Init
<1>5. minted = 0
  BY DEF Init
<1> QED
  BY <1>1, <1>2, <1>3, <1>4, <1>5 DEF KnownInv, Numbers, Owners, Answers, LoginFresh,
     HolderAsks, RotatorHolds, CsrfStaysKnown, Valid

(* CsrfStaysKnown, for one browser. *)
LEMMA KnownAt ==
  ASSUME CsrfStaysKnown, NEW b \in Browsers, NEW s, s = cookie[b], Valid(s), s \notin lost
  PROVE  \E q \in Tabs :
           /\ BrowserOf[q] = b
           /\ csrf[q] = sessions[s].csrf \/ (pc[q] = "respond" /\ reply[q] = sessions[s].csrf)
  BY DEF CsrfStaysKnown

-----------------------------------------------------------------------------
(* The steps that mint no token and reach no client: they end the request, *)
(* begin one or move one, and at most delete a row.                        *)
Still(r) ==
    /\ CallFrame(r)
    /\ UNCHANGED <<minted, cookie, csrf, expired>>
    /\ lost \subseteq lost'
    /\ \A s \in SessionIds : HasRow(s)' => HasRow(s) /\ sessions'[s] = sessions[s]
    /\ \/ /\ pc'[r] = "idle" /\ sid'[r] = NoSession /\ reply'[r] = 0
          /\ pc[r] = "respond" /\ kind[r] = "me" /\ HasRow(sid[r])
               /\ sessions[sid[r]].csrf = reply[r] => sid[r] \in lost'
       \/ /\ pc[r] = "idle" /\ pc'[r] \notin {"idle", "respond"} /\ reply'[r] = reply[r]
          /\ \/ kind'[r] \in Logins /\ sid'[r] = NoSession
             \/ kind'[r] \notin Logins /\ sid'[r] = cookie[BrowserOf[r]]
       \/ /\ pc[r] \notin {"idle", "respond"} /\ pc'[r] # "idle"
          /\ kind'[r] = kind[r] /\ sid'[r] = sid[r] /\ reply'[r] = reply[r]
          /\ pc'[r] = "respond" => kind[r] \notin Carriers

LEMMA StillSteps ==
  ASSUME TypeInv, NEW r \in Tabs, Step(r),
         ~CreateSession(r), ~RotateWrite(r), ~Respond(r)
  PROVE  Still(r)
<1>a. CallFrame(r)
  BY StepType
<1>1. CASE Cancel(r)
  BY <1>1, <1>a, EndType DEF Still, Cancel, storeVars, clientVars, HasRow
<1>2. CASE Handle(r) /\ Refuse(r)
  <2>1. pc[r] # "respond"
    BY <1>2 DEF Handle, VerifyPassword, FindAgentByToken, CreateSession, InsertSession,
       WithSession, RequireCSRF, RotateRead, VerifyCurrent, RotateWrite, DeleteSession,
       UpdateUserPassword, RevokeAgentTokens, UpsertAgent, RegisterAgentToken
  <2> QED
    BY <1>2, <2>1, <1>a, EndType DEF Still, Refuse, storeVars, clientVars, HasRow
<1>3. CASE BeginLogin(r) \/ BeginWithSession(r)
  <2>1. ASSUME NEW k, NEW s, NEW x, NEW t, NEW step, Begin(r, k, s, x, t, step)
        PROVE  /\ pc[r] = "idle" /\ pc'[r] = step /\ kind'[r] = k /\ sid'[r] = s
               /\ UNCHANGED <<minted, cookie, csrf, expired, lost, sessions, reply>>
    BY <2>1 DEF Begin, Goto, storeVars, clientVars, TypeInv, TypeOK
  <2>2. /\ pc[r] = "idle" /\ pc'[r] \in {"verify", "lookup", "session"}
        /\ UNCHANGED <<minted, cookie, csrf, expired, lost, sessions, reply>>
        /\ \/ kind'[r] \in Logins /\ sid'[r] = NoSession
           \/ kind'[r] \notin Logins /\ sid'[r] = cookie[BrowserOf[r]]
    BY <2>1, <1>3 DEF BeginLogin, BeginWithSession, Logins
  <2> QED
    BY <2>2, <1>a DEF Still, HasRow
<1>4. CASE Handle(r) /\ ~Refuse(r) /\ ~DeleteSession(r)
  <2>1. /\ UNCHANGED <<minted, cookie, csrf, expired, lost, sessions, reply, kind, sid>>
        /\ pc[r] \notin {"idle", "respond"}
    BY <1>4 DEF Handle, VerifyPassword, FindAgentByToken, WithSession, RequireCSRF,
       RotateRead, VerifyCurrent, Require, UpdateUserPassword, RevokeAgentTokens,
       UpsertAgent, RegisterAgentToken, storeVars, clientVars, callVars, historyVars
  <2>2. pc'[r] # "idle" /\ (pc'[r] = "respond" => kind[r] \notin Carriers)
    <3>1. CallInv(r) /\ pc \in [Tabs -> Steps]
      BY DEF TypeInv, TypeOK
    <3> QED
      BY <1>4, <3>1 DEF Handle, VerifyPassword, FindAgentByToken, WithSession, RequireCSRF,
         RotateRead, VerifyCurrent, Require, UpdateUserPassword, RevokeAgentTokens,
         UpsertAgent, RegisterAgentToken, Goto, CallInv, Carriers, Logins
  <2> QED
    BY <2>1, <2>2, <1>a DEF Still, HasRow
<1>5. CASE DeleteSession(r)
  <2>1. /\ UNCHANGED <<minted, cookie, csrf, expired, lost, reply, kind, sid>>
        /\ pc[r] = "delete" /\ pc'[r] = "respond" /\ kind[r] = "logout"
    BY <1>5 DEF DeleteSession, Goto, clientVars, callVars, historyVars, TypeInv, TypeOK,
       CallInv
  <2>2. \A s \in SessionIds : HasRow(s)' => HasRow(s) /\ sessions'[s] = sessions[s]
    BY <1>5 DEF DeleteSession, HasRow, TypeInv, TypeOK
  <2> QED
    BY <2>1, <2>2, <1>a DEF Still, Carriers, Logins
<1> QED
  BY <1>1, <1>2, <1>3, <1>4, <1>5 DEF Step

LEMMA StillNumbers ==
  ASSUME KnownInv, NEW r \in Tabs, Still(r)
  PROVE  Numbers' /\ \A q \in Tabs : Answers(q)'
<1>a. TypeInv /\ Numbers /\ \A q \in Tabs : Answers(q)
  BY DEF KnownInv, IssuedInv
<1>b. minted \in Nat /\ reply \in [Tabs -> Nat]
  BY <1>a DEF TypeInv, TypeOK
<1>1. reply'[r] \in {0, reply[r]} /\ \A q \in Tabs \ {r} : reply'[q] = reply[q]
  BY DEF Still, CallFrame
<1>2. Numbers'
  BY <1>a, <1>b, <1>1 DEF Numbers, Still
<1>3. ASSUME NEW q \in Tabs PROVE Answers(q)'
  <2>1. CASE q # r
    BY <2>1, <1>a DEF Answers, Still, CallFrame
  <2>2. CASE q = r
    BY <2>2, <1>a DEF Answers, Still
  <2> QED
    BY <2>1, <2>2
<1> QED
  BY <1>2, <1>3

LEMMA StillOwners ==
  ASSUME KnownInv, NEW r \in Tabs, Still(r)
  PROVE  Owners' /\ \A q \in Tabs : LoginFresh(q)'
<1>a. /\ TypeInv /\ Owners /\ \A q \in Tabs : LoginFresh(q)
      /\ BrowserOf[r] \in Browsers
  BY SessionsAssumption DEF KnownInv, IssuedInv
<1>1. /\ sid'[r] \in {NoSession, sid[r], cookie[BrowserOf[r]]}
      /\ \A q \in Tabs \ {r} : sid'[q] = sid[q]
      /\ cookie' = cookie
  BY DEF Still, CallFrame
<1>2. Owners'
  BY <1>a, <1>1 DEF Owners
<1>3. ASSUME NEW q \in Tabs PROVE LoginFresh(q)'
  <2>1. CASE q = r
    BY <2>1 DEF LoginFresh, Still, Carriers, Logins
  <2>2. CASE q # r
    <3>1. pc'[q] = pc[q] /\ kind'[q] = kind[q] /\ sid'[q] = sid[q] /\ reply'[q] = reply[q]
      BY <2>2 DEF Still, CallFrame
    <3> SUFFICES ASSUME pc[q] = "respond", kind[q] \in Logins PROVE LoginFresh(q)'
      BY <3>1 DEF LoginFresh
    <3>2. sid[q] \in SessionIds /\ sid[q] # NoSession
      BY <1>a, SessionsAssumption DEF TypeInv, CallInv
    <3>3. \A p \in Tabs \ {q} : sid'[p] # sid[q]
      BY <1>a, <1>1, <2>2, <3>2 DEF LoginFresh
    <3>4. HasRow(sid[q])' => HasRow(sid[q]) /\ sessions'[sid[q]] = sessions[sid[q]]
      BY <3>1, <3>2 DEF Still, HasRow
    <3> QED
      BY <1>a, <1>1, <3>1, <3>3, <3>4 DEF LoginFresh, Still
  <2> QED
    BY <2>1, <2>2
<1> QED
  BY <1>2, <1>3

LEMMA StillHolders ==
  ASSUME KnownInv, NEW r \in Tabs, Still(r)
  PROVE  /\ \A q \in Tabs : HolderAsks(q)' /\ RotatorHolds(q)'
         /\ CsrfStaysKnown'
<1>a. /\ TypeInv /\ Owners /\ CsrfStaysKnown
      /\ \A q \in Tabs : HolderAsks(q) /\ RotatorHolds(q) /\ Answers(q) /\ LoginFresh(q)
  BY DEF KnownInv, IssuedInv
<1>b. /\ cookie' = cookie /\ csrf' = csrf /\ CallFrame(r)
      /\ \A s : HasRow(s)' => HasRow(s) /\ sessions'[s] = sessions[s]
  BY DEF Still, HasRow
<1>1. ASSUME NEW q \in Tabs PROVE HolderAsks(q)'
  <2>1. CASE q # r
    BY <2>1, <1>a, <1>b DEF HolderAsks, CallFrame, HasRow
  <2>2. CASE q = r
    BY <2>2, <1>a, <1>b DEF HolderAsks, Still, HasRow
  <2> QED
    BY <2>1, <2>2
<1>2. ASSUME NEW q \in Tabs PROVE RotatorHolds(q)'
  <2>1. CASE q # r
    BY <2>1, <1>a, <1>b DEF RotatorHolds, CallFrame, HasRow
  <2>2. CASE q = r
    BY <2>2 DEF RotatorHolds, Still, Carriers
  <2> QED
    BY <2>1, <2>2
<1>3. ASSUME NEW b \in Browsers, NEW s, s = cookie[b], HasRow(s)', s \notin expired', s \notin lost'
      PROVE  \E q \in Tabs :
               /\ BrowserOf[q] = b
               /\ \/ csrf'[q] = sessions'[s].csrf
                  \/ pc'[q] = "respond" /\ reply'[q] = sessions'[s].csrf
  <2>1. /\ HasRow(s) /\ s \notin expired /\ s \notin lost /\ sessions'[s] = sessions[s]
        /\ s \in SessionIds
    BY <1>3, <1>b DEF Still, HasRow
  <2>2. PICK q \in Tabs :
          /\ BrowserOf[q] = b
          /\ csrf[q] = sessions[s].csrf \/ (pc[q] = "respond" /\ reply[q] = sessions[s].csrf)
    BY <1>3, <1>a, <2>1 DEF CsrfStaysKnown, Valid
  <2>3. CASE csrf[q] = sessions[s].csrf \/ q # r
    BY <2>1, <2>2, <2>3, <1>b DEF CallFrame
  <2>4. CASE csrf[q] # sessions[s].csrf /\ q = r
    <3>1. pc[r] = "respond" /\ reply[r] = sessions[s].csrf
      BY <2>2, <2>4
    <3>2. sessions[s].csrf # 0
      BY <2>1 DEF KnownInv, Numbers
    <3>3. kind[r] \in Carriers /\ s = sid[r]
      BY <1>a, <2>1, <3>1, <3>2 DEF Answers
    <3>4. kind[r] \notin Logins
      BY <1>a, <1>3, <3>1, <3>3 DEF LoginFresh
    <3>5. s \in lost'
      BY <3>1, <3>3, <3>4, <2>1 DEF Still, Carriers
    <3> QED
      BY <3>5, <1>3
  <2> QED
    BY <2>3, <2>4
<1>4. CsrfStaysKnown'
  BY <1>3, <1>b DEF CsrfStaysKnown, Valid, HasRow
<1> QED
  BY <1>1, <1>2, <1>4

-----------------------------------------------------------------------------
(* A login creates a session that neither a cookie nor a request names.    *)
LEMMA CreateKnown ==
  ASSUME KnownInv, NEW r \in Tabs, CreateSession(r), IssuedInv'
  PROVE  KnownInv'
<1>a. /\ TypeInv /\ Numbers /\ Owners /\ CsrfStaysKnown
      /\ \A q \in Tabs : HolderAsks(q) /\ RotatorHolds(q) /\ Answers(q) /\ LoginFresh(q)
      /\ kind[r] \in Logins
  BY DEF KnownInv, IssuedInv, TypeInv, CallInv, CreateSession, InsertSession
<1>b. minted \in Nat /\ reply \in [Tabs -> Nat] /\ csrf \in [Tabs -> Nat]
  BY <1>a DEF TypeInv, TypeOK
<1> DEFINE row == [type |-> IF kind[r] = "passwordLogin" THEN "admin" ELSE "agent",
                   csrf |-> minted + 1]
<1>1. PICK s \in SessionIds :
        /\ sessions[s] = Unissued
        /\ sessions' = [sessions EXCEPT ![s] = row]
        /\ sid' = [sid EXCEPT ![r] = s]
  BY DEF CreateSession, InsertSession
<1>2. /\ pc[r] = "insertSession" /\ pc'[r] = "respond" /\ kind' = kind
      /\ minted' = minted + 1 /\ reply'[r] = minted + 1 /\ sid'[r] = s
      /\ UNCHANGED <<cookie, csrf, expired, lost>>
  BY <1>1, <1>a DEF CreateSession, InsertSession, Goto, clientVars, historyVars,
     TypeInv, TypeOK
<1>3. \A q \in Tabs \ {r} : pc'[q] = pc[q] /\ sid'[q] = sid[q] /\ reply'[q] = reply[q]
  BY <1>a, WritesType DEF CallFrame
<1>4. /\ \A q \in Tabs : sid[q] # s
      /\ \A b \in Browsers : cookie[b] # s
      /\ ~HasRow(s)
  BY <1>1 DEF KnownInv, IssuedInv, HasRow
<1>5. /\ HasRow(s)' /\ sessions'[s].csrf = minted + 1
      /\ \A u : u # s => (HasRow(u)' <=> HasRow(u)) /\ (HasRow(u) => sessions'[u] = sessions[u])
  <2>1. sessions'[s] = row /\ row \in Row /\ row.csrf = minted + 1
    BY <1>1, <1>a, <1>b DEF TypeInv, TypeOK, Row, Types
  <2> HIDE DEF row
  <2> QED
    BY <2>1, <1>1, <1>a, SessionsAssumption DEF HasRow, TypeInv, TypeOK
<1>6. Numbers'
  <2>1. ASSUME NEW q \in Tabs PROVE csrf'[q] <= minted' /\ reply'[q] <= minted'
    <3>1. csrf[q] \in Nat /\ reply[q] \in Nat /\ csrf[q] <= minted /\ reply[q] <= minted
      BY <1>a, <1>b DEF Numbers
    <3> QED
      BY <3>1, <1>b, <1>2, <1>3
  <2>2. ASSUME NEW u \in SessionIds, HasRow(u)
        PROVE  sessions[u].csrf \in Nat /\ sessions[u].csrf >= 1 /\ sessions[u].csrf <= minted
    BY <2>2, <1>a DEF Numbers, HasRow, TypeInv, TypeOK, Row
  <2>3. ASSUME NEW u \in SessionIds, HasRow(u)'
        PROVE  sessions'[u].csrf >= 1 /\ sessions'[u].csrf <= minted'
    BY <2>2, <2>3, <1>b, <1>2, <1>5
  <2>4. ASSUME NEW u \in SessionIds, NEW v \in SessionIds, HasRow(u)', HasRow(v)',
               sessions'[u].csrf = sessions'[v].csrf
        PROVE  u = v
    BY <2>2, <2>4, <1>a, <1>b, <1>5 DEF Numbers
  <2> QED
    BY <2>1, <2>3, <2>4 DEF Numbers
<1>7. Owners'
  BY <1>a, <1>2, <1>3, <1>4 DEF Owners
<1>8. ASSUME NEW q \in Tabs PROVE Answers(q)'
  BY <1>a, <1>b, <1>2, <1>3, <1>5 DEF Answers, Carriers, Numbers
<1>9. ASSUME NEW q \in Tabs PROVE LoginFresh(q)'
  <2>1. CASE q = r
    BY <2>1, <1>a, <1>b, <1>2, <1>3, <1>4, <1>5 DEF LoginFresh, Numbers
  <2>2. CASE q # r
    BY <2>2, <1>a, <1>2, <1>3, <1>4, <1>5 DEF LoginFresh
  <2> QED
    BY <2>1, <2>2
<1>10. ASSUME NEW q \in Tabs PROVE HolderAsks(q)' /\ RotatorHolds(q)'
  <2>1. cookie[BrowserOf[q]] # s
    BY <1>4, SessionsAssumption
  <2>2. HolderAsks(q)'
    BY <2>1, <1>a, <1>2, <1>3, <1>5 DEF HolderAsks
  <2>3. RotatorHolds(q)'
    BY <1>a, <1>2, <1>3, <1>4, <1>5 DEF RotatorHolds, Logins
  <2> QED
    BY <2>2, <2>3
<1>11. CsrfStaysKnown'
  BY <1>a, <1>2, <1>3, <1>4, <1>5 DEF CsrfStaysKnown, Valid
<1> QED
  BY <1>6, <1>7, <1>8, <1>9, <1>10, <1>11 DEF KnownInv

(* handleMe mints a token larger than any before it. *)
LEMMA RotateKnown ==
  ASSUME KnownInv, NEW r \in Tabs, RotateWrite(r), IssuedInv'
  PROVE  KnownInv'
<1>a. /\ TypeInv /\ Numbers /\ Owners /\ CsrfStaysKnown
      /\ \A q \in Tabs : HolderAsks(q) /\ RotatorHolds(q) /\ Answers(q) /\ LoginFresh(q)
      /\ kind[r] = "me" /\ sid[r] \in SessionIds /\ sid[r] # NoSession
  BY SessionsAssumption DEF KnownInv, IssuedInv, TypeInv, CallInv, RotateWrite, SessionSteps
<1>b. minted \in Nat /\ reply \in [Tabs -> Nat] /\ csrf \in [Tabs -> Nat]
  BY <1>a DEF TypeInv, TypeOK
<1>2. /\ pc[r] = "rotateWrite" /\ pc'[r] = "respond" /\ kind' = kind /\ sid' = sid
      /\ minted' = minted + 1 /\ reply'[r] = minted + 1 /\ lost' = lost \ {sid[r]}
      /\ UNCHANGED <<cookie, csrf, expired>>
  BY <1>a DEF RotateWrite, Mint, Goto, clientVars, TypeInv, TypeOK
<1>3. \A q \in Tabs \ {r} : pc'[q] = pc[q] /\ reply'[q] = reply[q]
  BY <1>a, WritesType DEF CallFrame
<1>5. /\ \A u : HasRow(u)' <=> HasRow(u)
      /\ \A u : HasRow(u) /\ u # sid[r] => sessions'[u] = sessions[u]
      /\ HasRow(sid[r]) => sessions'[sid[r]].csrf = minted + 1
  <2>1. CASE ~HasRow(sid[r])
    BY <2>1 DEF RotateWrite, HasRow
  <2>2. CASE HasRow(sid[r])
    <3>1. sid[r] \in SessionIds /\ sessions[sid[r]] \in Row
      BY <2>2, <1>a DEF HasRow, TypeInv, TypeOK
    <3>2. /\ [sessions[sid[r]] EXCEPT !.csrf = minted + 1] \in Row
          /\ [sessions[sid[r]] EXCEPT !.csrf = minted + 1].csrf = minted + 1
      BY <3>1, <1>b DEF Row
    <3>3. sessions' = [sessions EXCEPT ![sid[r]] =
                         [sessions[sid[r]] EXCEPT !.csrf = minted + 1]]
      BY <2>2, <3>1, <1>a DEF RotateWrite, TypeInv, TypeOK
    <3> QED
      BY <3>1, <3>2, <3>3, <1>a, SessionsAssumption DEF HasRow, TypeInv, TypeOK
  <2> QED
    BY <2>1, <2>2
<1>6. Numbers'
  <2>1. ASSUME NEW q \in Tabs PROVE csrf'[q] <= minted' /\ reply'[q] <= minted'
    <3>1. csrf[q] \in Nat /\ reply[q] \in Nat /\ csrf[q] <= minted /\ reply[q] <= minted
      BY <1>a, <1>b DEF Numbers
    <3> QED
      BY <3>1, <1>b, <1>2, <1>3
  <2>2. ASSUME NEW u \in SessionIds, HasRow(u)
        PROVE  sessions[u].csrf \in Nat /\ sessions[u].csrf >= 1 /\ sessions[u].csrf <= minted
    BY <2>2, <1>a DEF Numbers, HasRow, TypeInv, TypeOK, Row
  <2>3. ASSUME NEW u \in SessionIds, HasRow(u)'
        PROVE  sessions'[u].csrf >= 1 /\ sessions'[u].csrf <= minted'
    BY <2>2, <2>3, <1>b, <1>2, <1>5
  <2>4. ASSUME NEW u \in SessionIds, NEW v \in SessionIds, HasRow(u)', HasRow(v)',
               sessions'[u].csrf = sessions'[v].csrf
        PROVE  u = v
    BY <2>2, <2>4, <1>a, <1>b, <1>5 DEF Numbers
  <2> QED
    BY <2>1, <2>3, <2>4 DEF Numbers
<1>7. Owners'
  BY <1>a, <1>2 DEF Owners
<1>8. ASSUME NEW q \in Tabs PROVE Answers(q)'
  <2>1. CASE q = r
    BY <2>1, <1>a, <1>b, <1>2, <1>5 DEF Answers, Carriers, Numbers
  <2>2. CASE q # r
    BY <2>2, <1>a, <1>b, <1>2, <1>3, <1>5 DEF Answers, Numbers
  <2> QED
    BY <2>1, <2>2
<1>9. ASSUME NEW q \in Tabs PROVE LoginFresh(q)'
  <2>1. CASE q = r
    BY <2>1, <1>a, <1>2 DEF LoginFresh, Logins
  <2>2. CASE q # r
    BY <2>2, <1>a, <1>2, <1>3, <1>5 DEF LoginFresh
  <2> QED
    BY <2>1, <2>2
<1>10. ASSUME NEW q \in Tabs PROVE HolderAsks(q)' /\ RotatorHolds(q)'
  <2>0. csrf[q] <= minted
    BY <1>a DEF Numbers
  <2>1. HolderAsks(q)'
    BY <2>0, <1>a, <1>b, <1>2, <1>3, <1>5 DEF HolderAsks
  <2>2. RotatorHolds(q)'
    BY <2>0, <1>a, <1>b, <1>2, <1>3, <1>5 DEF RotatorHolds
  <2> QED
    BY <2>1, <2>2
<1>11. ASSUME NEW b \in Browsers, NEW s, s = cookie[b], HasRow(s), s \notin expired,
              s \notin lost'
       PROVE  \E q \in Tabs :
                /\ BrowserOf[q] = b
                /\ \/ csrf'[q] = sessions'[s].csrf
                   \/ pc'[q] = "respond" /\ reply'[q] = sessions'[s].csrf
  <2>1. CASE s = sid[r]
    BY <2>1, <1>11, <1>a, <1>2, <1>5 DEF Owners
  <2>2. CASE s # sid[r]
    BY <2>2, <1>11, <1>a, <1>2, <1>3, <1>5 DEF CsrfStaysKnown, Valid
  <2> QED
    BY <2>1, <2>2
<1>12. CsrfStaysKnown'
  BY <1>11, <1>2, <1>5 DEF CsrfStaysKnown, Valid
<1> QED
  BY <1>6, <1>7, <1>8, <1>9, <1>10, <1>12 DEF KnownInv

-----------------------------------------------------------------------------
(* An answer arrives: the cookie and the tab's token change together.      *)
LEMMA RespondKnown ==
  ASSUME KnownInv, NEW r \in Tabs, Respond(r), IssuedInv'
  PROVE  KnownInv'
<1> DEFINE own == BrowserOf[r]
<1>a. /\ TypeInv /\ Numbers /\ Owners /\ CsrfStaysKnown
      /\ \A q \in Tabs : HolderAsks(q) /\ RotatorHolds(q) /\ Answers(q) /\ LoginFresh(q)
      /\ own \in Browsers /\ pc[r] = "respond"
      /\ kind[r] \in Logins \cup {"me", "logout"} => sid[r] \in SessionIds
  BY SessionsAssumption DEF KnownInv, IssuedInv, TypeInv, CallInv, Respond
<1>b. /\ minted \in Nat /\ reply \in [Tabs -> Nat] /\ csrf \in [Tabs -> Nat]
      /\ cookie \in [Browsers -> SessionIds \cup {NoSession}]
  BY <1>a DEF TypeInv, TypeOK
<1>1. /\ pc'[r] = "idle" /\ sid'[r] = NoSession /\ reply'[r] = 0
      /\ \A q \in Tabs \ {r} :
            pc'[q] = pc[q] /\ kind'[q] = kind[q] /\ sid'[q] = sid[q] /\ reply'[q] = reply[q]
      /\ UNCHANGED <<sessions, minted, expired, lost>>
  BY <1>a, EndType DEF Respond, CallFrame, storeVars
<1>2. /\ \A b \in Browsers \ {own} : cookie'[b] = cookie[b]
      /\ \A q \in Tabs \ {r} : csrf'[q] = csrf[q]
      /\ kind[r] \in Logins => cookie'[own] = sid[r] /\ csrf'[r] = reply[r]
      /\ kind[r] = "logout" => cookie'[own] = NoSession /\ csrf'[r] = 0
      /\ kind[r] = "me" => cookie'[own] = cookie[own] /\ csrf'[r] = reply[r]
      /\ kind[r] \notin Carriers \cup {"logout"} => cookie'[own] = cookie[own] /\ csrf'[r] = csrf[r]
  BY <1>a, <1>b DEF Respond, Carriers, Logins
<1>3. \A u : HasRow(u)' <=> HasRow(u)
  BY <1>1 DEF HasRow
<1>4. Numbers'
  <2>1. csrf'[r] \in {0, csrf[r], reply[r]}
    BY <1>2 DEF Carriers
  <2>2. \A q \in Tabs : csrf'[q] <= minted /\ reply'[q] <= minted
    BY <2>1, <1>a, <1>b, <1>1, <1>2 DEF Numbers
  <2> QED
    BY <2>2, <1>a, <1>1, <1>3 DEF Numbers
<1>5. Owners'
  <2>1. CASE kind[r] \in Logins
    BY <2>1, <1>a, <1>1, <1>2 DEF Owners, LoginFresh
  <2>2. CASE kind[r] \notin Logins
    <3>1. cookie'[own] \in {NoSession, cookie[own]}
      BY <2>2, <1>2 DEF Carriers
    <3> QED
      BY <3>1, <1>a, <1>1, <1>2 DEF Owners
  <2> QED
    BY <2>1, <2>2
<1>6. ASSUME NEW q \in Tabs PROVE Answers(q)'
  BY <1>a, <1>1, <1>3 DEF Answers
<1>7. ASSUME NEW q \in Tabs PROVE LoginFresh(q)'
  <2> SUFFICES ASSUME q # r, pc[q] = "respond", kind[q] \in Logins PROVE LoginFresh(q)'
    BY <1>1 DEF LoginFresh
  <2>1. sid[q] \in SessionIds /\ sid[q] # NoSession
    BY <1>a, SessionsAssumption DEF TypeInv, CallInv
  <2>2. \A b \in Browsers : cookie'[b] \in {cookie[b], sid[r], NoSession}
    BY <1>1, <1>2 DEF Carriers
  <2>3. \A b \in Browsers : cookie'[b] # sid[q]
    BY <2>1, <2>2, <1>a DEF LoginFresh
  <2>4. HasRow(sid[q]) => reply[q] >= 1 /\ csrf[r] # reply[q]
                          /\ (kind[r] \in Carriers => reply[r] # reply[q])
    BY <2>1, <1>a DEF LoginFresh, Answers, Numbers
  <2>5. HasRow(sid[q]) => csrf'[r] # reply[q]
    BY <2>4, <1>2 DEF Carriers
  <2> QED
    BY <2>1, <2>3, <2>5, <1>a, <1>1, <1>2, <1>3 DEF LoginFresh
<1>8. ASSUME NEW q \in Tabs PROVE HolderAsks(q)' /\ RotatorHolds(q)'
  <2>1. CASE q = r
    BY <2>1, <1>1 DEF HolderAsks, RotatorHolds
  <2>2. CASE q # r
    <3>1. RotatorHolds(q)'
      BY <2>2, <1>a, <1>1, <1>2, <1>3 DEF RotatorHolds
    <3>2. BrowserOf[q] \in Browsers
      BY SessionsAssumption
    <3>3. CASE cookie'[BrowserOf[q]] = cookie[BrowserOf[q]]
      BY <3>1, <3>3, <2>2, <1>a, <1>1, <1>2 DEF HolderAsks, HasRow
    <3>4. CASE BrowserOf[q] = own /\ cookie'[own] = NoSession
      <4>1. ~HasRow(cookie[BrowserOf[q]])'
        BY <3>4, SessionsAssumption DEF HasRow
      <4> QED
        BY <3>1, <4>1 DEF HolderAsks
    <3>5. CASE BrowserOf[q] = own /\ kind[r] \in Logins
      <4>1. HasRow(sid[r]) => csrf[q] # sessions[sid[r]].csrf
        BY <3>5, <1>a DEF LoginFresh
      <4> QED
        BY <3>1, <3>5, <4>1, <2>2, <1>1, <1>2 DEF HolderAsks, HasRow
    <3> QED
      BY <3>1, <3>2, <3>3, <3>4, <3>5, <1>2 DEF Carriers
  <2> QED
    BY <2>1, <2>2
<1>9. ASSUME NEW b \in Browsers, NEW s, s = cookie'[b], HasRow(s), s \notin expired,
             s \notin lost
      PROVE  \E q \in Tabs :
               /\ BrowserOf[q] = b
               /\ \/ csrf'[q] = sessions[s].csrf
                  \/ pc'[q] = "respond" /\ reply'[q] = sessions[s].csrf
  <2>0. s \in SessionIds /\ sessions[s].csrf # 0
    BY <1>9, <1>a DEF HasRow, Numbers
  <2>1. CASE b = own /\ kind[r] \in Logins
    <3>1. s = sid[r] /\ csrf'[r] = reply[r]
      BY <2>1, <1>9, <1>2
    <3>2. sessions[s].csrf = reply[r]
      BY <2>1, <3>1, <1>9, <1>a DEF LoginFresh
    <3> QED
      BY <2>1, <3>1, <3>2
  <2>2. CASE ~(b = own /\ kind[r] \in Logins)
    <3>1. s = cookie[b]
      BY <2>0, <2>2, <1>9, <1>2, SessionsAssumption DEF Carriers
    <3>2. PICK q \in Tabs :
            /\ BrowserOf[q] = b
            /\ csrf[q] = sessions[s].csrf \/ (pc[q] = "respond" /\ reply[q] = sessions[s].csrf)
      <4>1. Valid(s) /\ s \notin lost /\ CsrfStaysKnown
        BY <1>9, <1>a DEF Valid
      <4> QED
        BY <3>1, <4>1, KnownAt
    <3>3. CASE q # r
      BY <3>2, <3>3, <1>1, <1>2
    <3>4. CASE q = r /\ kind[r] = "me"
      <4>1. csrf[r] # sessions[s].csrf
        BY <3>1, <3>2, <3>4, <1>9, <1>a DEF HolderAsks, RotatorHolds, Logins
      <4> QED
        BY <3>2, <3>4, <4>1, <1>2
    <3>5. CASE q = r /\ kind[r] \notin Carriers
      <4>1. reply[r] = 0 /\ csrf[r] = sessions[s].csrf
        BY <2>0, <3>2, <3>5, <1>a DEF Answers
      <4>2. kind[r] # "logout"
        BY <2>0, <3>2, <3>5, <1>9, <1>2, SessionsAssumption
      <4> QED
        BY <3>2, <3>5, <4>1, <4>2, <1>2
    <3> QED
      BY <2>2, <3>2, <3>3, <3>4, <3>5 DEF Carriers
  <2> QED
    BY <2>1, <2>2
<1>10. CsrfStaysKnown'
  BY <1>9, <1>1, <1>3 DEF CsrfStaysKnown, Valid
<1> QED
  BY <1>4, <1>5, <1>6, <1>7, <1>8, <1>10 DEF KnownInv

-----------------------------------------------------------------------------
LEMMA NextKnown == KnownInv /\ [Next]_vars => KnownInv'
<1> SUFFICES ASSUME KnownInv, [Next]_vars PROVE KnownInv'
  OBVIOUS
<1>a. TypeInv /\ IssuedInv'
  BY NextIssued DEF KnownInv, IssuedInv
<1>1. ASSUME NEW r \in Tabs, CreateSession(r) PROVE KnownInv'
  BY <1>1, <1>a, CreateKnown
<1>2. ASSUME NEW r \in Tabs, RotateWrite(r) PROVE KnownInv'
  BY <1>2, <1>a, RotateKnown
<1>3. ASSUME NEW r \in Tabs, Respond(r) PROVE KnownInv'
  BY <1>3, <1>a, RespondKnown
<1>4. ASSUME NEW r \in Tabs, Step(r), ~CreateSession(r), ~RotateWrite(r), ~Respond(r)
      PROVE  KnownInv'
  <2>1. Still(r)
    BY <1>4, <1>a, StillSteps
  <2> QED
    BY <2>1, <1>a, StillNumbers, StillOwners, StillHolders DEF KnownInv
<1>5. CASE (\E s \in SessionIds : Expire(s)) \/ UNCHANGED vars
  <2>1. /\ UNCHANGED <<sessions, minted, cookie, csrf, pc, kind, sid, reply, lost>>
        /\ expired \subseteq expired'
    BY <1>5 DEF Expire, vars, storeVars, clientVars, callVars, historyVars
  <2>2. \A s : HasRow(s)' <=> HasRow(s)
    BY <2>1 DEF HasRow
  <2> QED
    BY <2>1, <2>2, <1>a DEF KnownInv, Numbers, Owners, Answers, LoginFresh, HolderAsks,
       RotatorHolds, CsrfStaysKnown, Valid
<1> QED
  BY <1>1, <1>2, <1>3, <1>4, <1>5 DEF Next

(* However /api/auth/me, logins, logouts and lost answers of any number of *)
(* tabs interleave, one tab of the browser holds or is about to hold the   *)
(* token that handlers ask for, unless the answer with it was lost.        *)
THEOREM CsrfAlwaysKnown == Spec => []CsrfStaysKnown
<1>1. KnownInv => CsrfStaysKnown
  BY DEF KnownInv
<1> QED
  BY <1>1, InitKnown, NextKnown, PTL DEF Spec

===============================================================================
