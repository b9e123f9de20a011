------------------------------- MODULE Passkeys -------------------------------
(***************************************************************************)
(* The two-step passkey flows (server/internal/app/passkeys.go): a begin   *)
(* request leaves a flow in memory, a finish request takes it out, checks  *)
(* the authenticator's answer and stores a credential or opens a session.  *)
(*                                                                         *)
(* A client may send an answer twice or late, mix up flows, and have       *)
(* several requests under way; credentials are deleted meanwhile, and the  *)
(* server restarts.  An answer is made for the challenge of one flow; the  *)
(* WebAuthn library rejects it for any other.                              *)
(***************************************************************************)
EXTENDS Naturals

CONSTANTS
    Requests,
    Flows,       \* flow ids that may be handed out
    Credentials, \* credentials the authenticators may make
    NoFlow, NoCredential

Purposes == {"registration", "login"}

ASSUME PasskeysAssumption ==
    NoFlow \notin Flows /\ NoCredential \notin Credentials

-----------------------------------------------------------------------------
VARIABLES
    purpose,  \* passkeyFlow.Purpose of the flows handed out; "none" otherwise
    open,     \* the keys of a.passkeyFlows
    expired,  \* flows whose ExpiresAt has passed
    madeFor,  \* the registration flow a credential was made for
    stored,   \* passkey_credentials: "unmade", "stored" or "deleted"
    pc, want, \* a finish request: its step and the purpose its route expects
    flow, credential,  \* the flow id and the credential it carries
    outcomes, \* history: credentials stored and sessions opened by a flow
    cut       \* history: the credential of a request was deleted before its UPDATE

finishVars == <<want, flow, credential>>
vars == <<purpose, open, expired, madeFor, stored, pc, finishVars, outcomes, cut>>

Issued == {f \in Flows : purpose[f] # "none"}

(* What cleanupPasskeyFlowsLocked leaves. *)
Fresh == open \ expired

-----------------------------------------------------------------------------
Goto(r, step) == pc' = [pc EXCEPT ![r] = step]

End(r) ==
    /\ pc' = [pc EXCEPT ![r] = "idle"]
    /\ want' = [want EXCEPT ![r] = "login"]
    /\ flow' = [flow EXCEPT ![r] = NoFlow]
    /\ credential' = [credential EXCEPT ![r] = NoCredential]
    /\ cut' = [cut EXCEPT ![r] = FALSE]

(* handleBeginPasskeyRegistration, handleBeginPasskeyLogin. *)
SavePasskeyFlow(f, p) ==
    /\ purpose[f] = "none"
    /\ purpose' = [purpose EXCEPT ![f] = p]
    /\ open' = Fresh \cup {f}
    /\ UNCHANGED <<expired, madeFor, stored, pc, finishVars, outcomes, cut>>

(* A finish request arrives with an answer to some flow. *)
Finish(r, p, f, c) ==
    /\ pc[r] = "idle"
    /\ f \in Issued
    /\ IF p = "registration"
       THEN /\ madeFor[c] \in {NoFlow, f}
            /\ madeFor' = [madeFor EXCEPT ![c] = f]
       ELSE madeFor[c] # NoFlow /\ UNCHANGED madeFor
    /\ Goto(r, "consume")
    /\ want' = [want EXCEPT ![r] = p]
    /\ flow' = [flow EXCEPT ![r] = f]
    /\ credential' = [credential EXCEPT ![r] = c]
    /\ cut' = [cut EXCEPT ![r] = stored[c] = "deleted"]
    /\ UNCHANGED <<purpose, open, expired, stored, outcomes>>

(* Mutant: the purpose is not compared. *)
AcceptedAnyPurpose(r) == flow[r] \in Fresh

Accepted(r) == flow[r] \in Fresh /\ purpose[flow[r]] = want[r]

Consume(r, left) ==
    /\ pc[r] = "consume"
    /\ open' = left
    /\ IF Accepted(r)
       THEN Goto(r, "verify") /\ UNCHANGED <<finishVars, cut>>
       ELSE End(r)
    /\ UNCHANGED <<purpose, expired, madeFor, stored, outcomes>>

(* Mutant: the flow is only removed if it is refused. *)
ConsumeKeeps(r) == Consume(r, IF Accepted(r) THEN Fresh ELSE Fresh \ {flow[r]})

ConsumePasskeyFlow(r) == Consume(r, Fresh \ {flow[r]})

(* A login needs the credential among the user's; a registration's answer  *)
(* carries the new credential.                                             *)
Verify(r) ==
    /\ pc[r] = "verify"
    /\ UNCHANGED <<purpose, open, expired, madeFor, stored, outcomes>>
    /\ \/ /\ want[r] = "registration"
          /\ Goto(r, "save") /\ UNCHANGED <<finishVars, cut>>
       \/ /\ want[r] = "login" /\ stored[credential[r]] = "stored"
          /\ Goto(r, "update") /\ UNCHANGED <<finishVars, cut>>
       \/ /\ want[r] = "login" /\ stored[credential[r]] # "stored"
          /\ End(r)

(* credential_id is UNIQUE. *)
SavePasskeyCredential(r) ==
    /\ pc[r] = "save"
    /\ IF stored[credential[r]] = "stored"
       THEN UNCHANGED <<stored, outcomes>>
       ELSE /\ stored' = [stored EXCEPT ![credential[r]] = "stored"]
            /\ outcomes' = [outcomes EXCEPT ![flow[r]] = @ + 1]
    /\ End(r)
    /\ UNCHANGED <<purpose, open, expired, madeFor>>

(* Mutant: the number of rows is not looked at. *)
UpdateUncounted(r) ==
    /\ pc[r] = "update"
    /\ Goto(r, "create")
    /\ UNCHANGED <<purpose, open, expired, madeFor, stored, finishVars, outcomes, cut>>

(* Mutant: the credential is written as a whole row. *)
UpdateUpsert(r) ==
    /\ pc[r] = "update"
    /\ stored' = [stored EXCEPT ![credential[r]] = "stored"]
    /\ Goto(r, "create")
    /\ UNCHANGED <<purpose, open, expired, madeFor, finishVars, outcomes, cut>>

(* An UPDATE that finds no row ends the login. *)
UpdatePasskeyCredential(r) ==
    /\ pc[r] = "update"
    /\ IF stored[credential[r]] = "stored"
       THEN Goto(r, "create") /\ UNCHANGED <<finishVars, cut>>
       ELSE End(r)
    /\ UNCHANGED <<purpose, open, expired, madeFor, stored, outcomes>>

CreateSession(r) ==
    /\ pc[r] = "create"
    /\ outcomes' = [outcomes EXCEPT ![flow[r]] = @ + 1]
    /\ End(r)
    /\ UNCHANGED <<purpose, open, expired, madeFor, stored>>

(* handleDeletePasskey *)
DeletePasskeyCredential(c) ==
    /\ stored[c] = "stored"
    /\ stored' = [stored EXCEPT ![c] = "deleted"]
    /\ cut' = [r \in Requests |->
                 cut[r] \/ (credential[r] = c /\ pc[r] \in {"consume", "verify", "update"})]
    /\ UNCHANGED <<purpose, open, expired, madeFor, pc, finishVars, outcomes>>

(* The client leaves, or a statement fails. *)
Cancel(r) ==
    /\ pc[r] # "idle"
    /\ End(r)
    /\ UNCHANGED <<purpose, open, expired, madeFor, stored, outcomes>>

Expire(f) ==
    /\ f \in Issued \ expired
    /\ expired' = expired \cup {f}
    /\ UNCHANGED <<purpose, open, madeFor, stored, pc, finishVars, outcomes, cut>>

(* The flows are in memory only. *)
Restart ==
    /\ open' = {}
    /\ pc' = [r \in Requests |-> "idle"]
    /\ want' = [r \in Requests |-> "login"]
    /\ flow' = [r \in Requests |-> NoFlow]
    /\ credential' = [r \in Requests |-> NoCredential]
    /\ cut' = [r \in Requests |-> FALSE]
    /\ UNCHANGED <<purpose, expired, madeFor, stored, outcomes>>

Handle(r) ==
    \/ ConsumePasskeyFlow(r) \/ Verify(r) \/ SavePasskeyCredential(r)
    \/ UpdatePasskeyCredential(r) \/ CreateSession(r) \/ Cancel(r)

Init ==
    /\ purpose = [f \in Flows |-> "none"]
    /\ open = {}
    /\ expired = {}
    /\ madeFor = [c \in Credentials |-> NoFlow]
    /\ stored = [c \in Credentials |-> "unmade"]
    /\ pc = [r \in Requests |-> "idle"]
    /\ want = [r \in Requests |-> "login"]
    /\ flow = [r \in Requests |-> NoFlow]
    /\ credential = [r \in Requests |-> NoCredential]
    /\ outcomes = [f \in Flows |-> 0]
    /\ cut = [r \in Requests |-> FALSE]

Next ==
    \/ \E f \in Flows, p \in Purposes : SavePasskeyFlow(f, p)
    \/ \E r \in Requests, p \in Purposes, f \in Flows, c \in Credentials : Finish(r, p, f, c)
    \/ \E r \in Requests : Handle(r)
    \/ \E c \in Credentials : DeletePasskeyCredential(c)
    \/ \E f \in Flows : Expire(f)
    \/ Restart

Spec == Init /\ [][Next]_vars

-----------------------------------------------------------------------------
(* Correctness. *)

(* The variables keep their types; a request past consumePasskeyFlow has   *)
(* a flow of the purpose its route expects.                                *)
TypeOK ==
    /\ purpose \in [Flows -> Purposes \cup {"none"}]
    /\ open \subseteq Issued /\ expired \subseteq Issued
    /\ madeFor \in [Credentials -> Flows \cup {NoFlow}]
    /\ stored \in [Credentials -> {"unmade", "stored", "deleted"}]
    /\ pc \in [Requests -> {"idle", "consume", "verify", "save", "update", "create"}]
    /\ want \in [Requests -> Purposes]
    /\ flow \in [Requests -> Flows \cup {NoFlow}]
    /\ credential \in [Requests -> Credentials \cup {NoCredential}]
    /\ outcomes \in [Flows -> Nat]
    /\ cut \in [Requests -> BOOLEAN]
    /\ \A r \in Requests : pc[r] \notin {"idle", "consume"} => purpose[flow[r]] = want[r]

(* A flow stores one credential or opens one session at most, however      *)
(* often and however late its answer is sent, and across restarts.         *)
OneOutcomePerFlow == \A f \in Flows : outcomes[f] <= 1

(* A login whose credential was deleted before its UPDATE opens no         *)
(* session, although it may have read the credential before.               *)
DeletedPasskeyOpensNothing ==
    \A r \in Requests : pc[r] = "create" => ~cut[r]

(* A passkey once deleted is never stored again, neither by an answer sent *)
(* twice nor by a login that read it before.                               *)
DeletedPasskeyStaysDeleted ==
    [][\A c \in Credentials : stored[c] = "deleted" => stored'[c] = "deleted"]_vars

=============================================================================
