---------------------------- MODULE PasskeysProofs ----------------------------
(***************************************************************************)
(* Proofs about Passkeys, for any requests, flows and credentials.         *)
(*                                                                         *)
(* A flow has, at any moment, one owner that may still bring about its     *)
(* outcome: nobody before it is issued, the map while it is open, one      *)
(* request past consumePasskeyFlow after that.  A credential was made for  *)
(* one flow, so a stored one means that its flow has had its outcome.      *)
(***************************************************************************)
EXTENDS Passkeys, TLAPS

Past(r) == pc[r] \notin {"idle", "consume"}

(* A request under way carries an issued flow and a credential. *)
Carries ==
    \A r \in Requests : pc[r] # "idle" =>
        /\ flow[r] \in Issued
        /\ credential[r] \in Credentials
        /\ pc[r] = "save" => want[r] = "registration"

(* Whoever may still bring about the outcome of a flow is the only one. *)
OneOwner ==
    /\ \A f \in Flows : f \notin Issued \/ f \in open => outcomes[f] = 0
    /\ \A r \in Requests : Past(r) => flow[r] \notin open /\ outcomes[flow[r]] = 0
    /\ \A r, q \in Requests : Past(r) /\ Past(q) /\ r # q => flow[r] # flow[q]
    /\ OneOutcomePerFlow

(* A credential that was stored has used up the flow it was made for. *)
MadeInv ==
    /\ \A c \in Credentials : stored[c] # "unmade" =>
          madeFor[c] \in Flows /\ outcomes[madeFor[c]] >= 1
    /\ \A r \in Requests : pc[r] # "idle" /\ want[r] = "registration" =>
          madeFor[credential[r]] = flow[r]

(* The credential of a cut request is gone and its UPDATE still ahead. *)
CutInv ==
    \A r \in Requests : cut[r] =>
        /\ pc[r] \in {"consume", "verify", "save", "update"}
        /\ stored[credential[r]] = "deleted"

IInv == TypeOK /\ Carries /\ OneOwner /\ MadeInv /\ CutInv

Deleted == \A c \in Credentials : stored[c] = "deleted" => stored'[c] = "deleted"

-----------------------------------------------------------------------------
LEMMA InitInv == Init => IInv
BY PasskeysAssumption
   DEF Init, IInv, TypeOK, Carries, OneOwner, OneOutcomePerFlow, MadeInv, CutInv,
       Issued, Purposes, Past

(* A request that ends, by itself, keeps everything. *)
LEMMA EndInv ==
    ASSUME IInv, NEW r \in Requests, End(r),
           UNCHANGED <<purpose, expired, madeFor, stored, outcomes>>,
           open' \subseteq open
    PROVE  IInv' /\ Deleted
<1>1. TypeOK'
  BY PasskeysAssumption DEF IInv, TypeOK, End, Issued, Purposes
<1>2. Carries'
  BY DEF IInv, TypeOK, Carries, End, Issued
<1>3. OneOwner'
  BY DEF IInv, TypeOK, OneOwner, OneOutcomePerFlow, End, Issued, Past
<1>4. MadeInv'
  BY DEF IInv, TypeOK, MadeInv, End
<1>5. CutInv'
  BY DEF IInv, TypeOK, CutInv, End
<1>6. Deleted
  BY DEF Deleted
<1>. QED
  BY <1>1, <1>2, <1>3, <1>4, <1>5, <1>6 DEF IInv

(* A step that only moves a request on, to a step after consume. *)
LEMMA GotoInv ==
    ASSUME IInv, NEW r \in Requests, NEW step \in {"verify", "save", "update", "create"},
           Goto(r, step), Past(r), step = "save" => want[r] = "registration",
           step = "create" => ~cut[r],
           UNCHANGED <<purpose, open, expired, madeFor, stored, finishVars, outcomes, cut>>
    PROVE  IInv' /\ Deleted
<1>1. TypeOK'
  BY DEF IInv, TypeOK, Goto, finishVars, Issued, Past
<1>2. Carries'
  BY DEF IInv, TypeOK, Carries, Goto, finishVars, Issued, Past
<1>3. OneOwner'
  BY DEF IInv, TypeOK, OneOwner, OneOutcomePerFlow, Goto, finishVars, Issued, Past
<1>4. MadeInv'
  BY DEF IInv, TypeOK, MadeInv, Goto, finishVars, Past
<1>5. CutInv'
  BY DEF IInv, TypeOK, CutInv, Goto, finishVars
<1>6. Deleted
  BY DEF Deleted
<1>. QED
  BY <1>1, <1>2, <1>3, <1>4, <1>5, <1>6 DEF IInv

LEMMA SaveFlowInv ==
    ASSUME IInv, NEW f \in Flows, NEW p \in Purposes, SavePasskeyFlow(f, p)
    PROVE  IInv' /\ Deleted
<1>1. TypeOK'
  BY DEF IInv, TypeOK, Carries, SavePasskeyFlow, finishVars, Issued, Purposes, Fresh
<1>2. Carries'
  BY DEF IInv, TypeOK, Carries, SavePasskeyFlow, finishVars, Issued, Purposes
<1>3. OneOwner'
  BY DEF IInv, TypeOK, Carries, OneOwner, OneOutcomePerFlow, SavePasskeyFlow,
         finishVars, Issued, Fresh, Past
<1>4. MadeInv'
  BY DEF IInv, MadeInv, SavePasskeyFlow, finishVars
<1>5. CutInv'
  BY DEF IInv, CutInv, SavePasskeyFlow, finishVars
<1>6. Deleted
  BY DEF Deleted, SavePasskeyFlow
<1>. QED
  BY <1>1, <1>2, <1>3, <1>4, <1>5, <1>6 DEF IInv

LEMMA FinishInv ==
    ASSUME IInv, NEW r \in Requests, NEW p \in Purposes, NEW f \in Flows,
           NEW c \in Credentials, Finish(r, p, f, c)
    PROVE  IInv' /\ Deleted
<1>1. TypeOK'
  BY DEF IInv, TypeOK, Finish, Goto, Issued
<1>2. Carries'
  BY DEF IInv, TypeOK, Carries, Finish, Goto, Issued
<1>3. OneOwner'
  BY DEF IInv, TypeOK, OneOwner, OneOutcomePerFlow, Finish, Goto, Issued, Past
<1>4. MadeInv'
  <2>1. \A d \in Credentials : madeFor[d] # NoFlow => madeFor'[d] = madeFor[d]
    BY DEF IInv, TypeOK, Finish
  <2>2. \A d \in Credentials : stored[d] # "unmade" =>
           madeFor'[d] \in Flows /\ outcomes[madeFor'[d]] >= 1
    BY <2>1, PasskeysAssumption DEF IInv, MadeInv
  <2>3. \A q \in Requests : pc'[q] # "idle" /\ want'[q] = "registration" =>
           madeFor'[credential'[q]] = flow'[q]
    <3>. SUFFICES ASSUME NEW q \in Requests, pc'[q] # "idle", want'[q] = "registration"
                  PROVE  madeFor'[credential'[q]] = flow'[q]
      OBVIOUS
    <3>1. CASE q = r
      BY <3>1 DEF IInv, TypeOK, Finish, Goto
    <3>2. CASE q # r
      <4>1. /\ pc[q] # "idle" /\ want[q] = "registration"
            /\ credential'[q] = credential[q] /\ flow'[q] = flow[q]
        BY <3>2 DEF IInv, TypeOK, Finish, Goto
      <4>2. credential[q] \in Credentials /\ flow[q] \in Flows
            /\ madeFor[credential[q]] = flow[q]
        BY <4>1 DEF IInv, Carries, MadeInv, Issued
      <4>. QED
        BY <4>1, <4>2, <2>1, PasskeysAssumption
    <3>. QED
      BY <3>1, <3>2
  <2>. QED
    BY <2>2, <2>3 DEF MadeInv, Finish
<1>5. CutInv'
  BY DEF IInv, TypeOK, CutInv, Finish, Goto
<1>6. Deleted
  BY DEF Deleted, Finish
<1>. QED
  BY <1>1, <1>2, <1>3, <1>4, <1>5, <1>6 DEF IInv

LEMMA ConsumeInv ==
    ASSUME IInv, NEW r \in Requests, ConsumePasskeyFlow(r)
    PROVE  IInv' /\ Deleted
<1>1. CASE ~Accepted(r)
  BY <1>1, EndInv DEF ConsumePasskeyFlow, Consume, Fresh
<1>2. CASE Accepted(r)
  <2>1. /\ pc[r] = "consume" /\ Goto(r, "verify") /\ open' = Fresh \ {flow[r]}
        /\ UNCHANGED <<purpose, expired, madeFor, stored, finishVars, outcomes, cut>>
    BY <1>2 DEF ConsumePasskeyFlow, Consume
  <2>2. flow[r] \in open /\ purpose[flow[r]] = want[r] /\ open' \subseteq open \ {flow[r]}
    BY <1>2, <2>1 DEF Accepted, Fresh
  <2>3. TypeOK'
    BY <2>1, <2>2 DEF IInv, TypeOK, Goto, finishVars, Issued
  <2>4. Carries'
    BY <2>1 DEF IInv, TypeOK, Carries, Goto, finishVars, Issued
  <2>5. OneOwner'
    BY <2>1, <2>2 DEF IInv, TypeOK, OneOwner, OneOutcomePerFlow, Goto, finishVars, Issued, Past
  <2>6. MadeInv'
    BY <2>1 DEF IInv, TypeOK, MadeInv, Goto, finishVars
  <2>7. CutInv'
    BY <2>1 DEF IInv, TypeOK, CutInv, Goto, finishVars
  <2>8. Deleted
    BY <2>1 DEF Deleted
  <2>. QED
    BY <2>3, <2>4, <2>5, <2>6, <2>7, <2>8 DEF IInv
<1>. QED
  BY <1>1, <1>2

LEMMA VerifyInv ==
    ASSUME IInv, NEW r \in Requests, Verify(r)
    PROVE  IInv' /\ Deleted
<1>0. pc[r] = "verify" /\ Past(r)
      /\ UNCHANGED <<purpose, open, expired, madeFor, stored, outcomes>>
  BY DEF Verify, Past
<1>1. CASE /\ want[r] = "registration"
           /\ Goto(r, "save") /\ UNCHANGED <<finishVars, cut>>
  <2>1. "save" \in {"verify", "save", "update", "create"} /\ "save" # "create"
    OBVIOUS
  <2>. QED
    BY <1>0, <1>1, <2>1, GotoInv
<1>2. CASE Goto(r, "update") /\ UNCHANGED <<finishVars, cut>>
  BY <1>0, <1>2, GotoInv
<1>3. CASE End(r)
  BY <1>0, <1>3, EndInv
<1>. QED
  BY <1>1, <1>2, <1>3 DEF Verify

(* The request that brings the outcome of its flow about ends with it. *)
LEMMA OutcomeOwner ==
    ASSUME IInv, NEW r \in Requests, Past(r), End(r),
           outcomes' = [outcomes EXCEPT ![flow[r]] = @ + 1],
           UNCHANGED <<purpose, open, expired, madeFor>>
    PROVE  OneOwner' /\ outcomes'[flow[r]] = 1 /\ \A f \in Flows : outcomes'[f] >= outcomes[f]
<1>1. flow[r] \in Issued /\ flow[r] \notin open /\ outcomes[flow[r]] = 0
  BY DEF IInv, Carries, OneOwner, Past
<1>2. /\ outcomes'[flow[r]] = 1
      /\ \A f \in Flows : f # flow[r] => outcomes'[f] = outcomes[f]
  BY <1>1 DEF IInv, TypeOK, Issued
<1>3. \A q \in Requests : Past(q)' => q # r /\ Past(q) /\ flow'[q] = flow[q] /\ flow[q] \in Issued
  BY DEF IInv, TypeOK, Carries, End, Past
<1>4. \A f \in Flows : f \notin Issued' \/ f \in open' => outcomes'[f] = 0
  BY <1>1, <1>2 DEF IInv, OneOwner, Issued
<1>5. \A q \in Requests : Past(q)' => flow'[q] \notin open' /\ outcomes'[flow'[q]] = 0
  BY <1>1, <1>2, <1>3 DEF IInv, OneOwner, Issued
<1>6. \A q, s \in Requests : Past(q)' /\ Past(s)' /\ q # s => flow'[q] # flow'[s]
  BY <1>3 DEF IInv, OneOwner
<1>7. OneOutcomePerFlow'
  BY <1>1, <1>2 DEF IInv, OneOwner, OneOutcomePerFlow
<1>8. \A f \in Flows : outcomes'[f] >= outcomes[f]
  BY <1>1, <1>2 DEF IInv, TypeOK
<1>. QED
  BY <1>2, <1>4, <1>5, <1>6, <1>7, <1>8 DEF OneOwner

LEMMA SaveCredentialInv ==
    ASSUME IInv, NEW r \in Requests, SavePasskeyCredential(r)
    PROVE  IInv' /\ Deleted
<1>0. /\ pc[r] = "save" /\ Past(r) /\ End(r)
      /\ UNCHANGED <<purpose, open, expired, madeFor>>
  BY DEF SavePasskeyCredential, Past
<1>1. CASE stored[credential[r]] = "stored"
  BY <1>0, <1>1, EndInv DEF SavePasskeyCredential
<1>2. CASE stored[credential[r]] # "stored"
  <2>1. /\ stored' = [stored EXCEPT ![credential[r]] = "stored"]
        /\ outcomes' = [outcomes EXCEPT ![flow[r]] = @ + 1]
    BY <1>2 DEF SavePasskeyCredential
  <2>2. /\ credential[r] \in Credentials /\ flow[r] \in Flows
        /\ madeFor[credential[r]] = flow[r] /\ outcomes[flow[r]] = 0
    BY <1>0 DEF IInv, Carries, MadeInv, OneOwner, Issued
  <2>3. stored[credential[r]] = "unmade"
    BY <2>2, <1>2 DEF IInv, TypeOK, MadeInv
  <2>4. OneOwner' /\ outcomes'[flow[r]] = 1 /\ \A f \in Flows : outcomes'[f] >= outcomes[f]
    BY <1>0, <2>1, OutcomeOwner
  <2>5. TypeOK'
    <3>1. /\ outcomes' \in [Flows -> Nat]
          /\ stored' \in [Credentials -> {"unmade", "stored", "deleted"}]
      BY <2>1, <2>2 DEF IInv, TypeOK
    <3>. QED
      BY <1>0, <3>1 DEF IInv, TypeOK, End, Issued, Purposes
  <2>6. Carries'
    BY <1>0 DEF IInv, TypeOK, Carries, End, Issued
  <2>7. MadeInv'
    <3>1. \A c \in Credentials : stored'[c] # "unmade" =>
             madeFor'[c] \in Flows /\ outcomes'[madeFor'[c]] >= 1
      <4>. SUFFICES ASSUME NEW c \in Credentials, stored'[c] # "unmade"
                    PROVE  madeFor[c] \in Flows /\ outcomes'[madeFor[c]] >= 1
        BY <1>0
      <4>1. CASE c = credential[r]
        BY <4>1, <2>2, <2>4
      <4>2. CASE c # credential[r]
        <5>1. stored[c] # "unmade"
          BY <4>2, <2>1 DEF IInv, TypeOK
        <5>2. madeFor[c] \in Flows /\ outcomes[madeFor[c]] >= 1
          BY <5>1 DEF IInv, MadeInv
        <5>. QED
          BY <5>2, <2>4, <2>5 DEF IInv, TypeOK
      <4>. QED
        BY <4>1, <4>2
    <3>2. \A q \in Requests : pc'[q] # "idle" /\ want'[q] = "registration" =>
             madeFor'[credential'[q]] = flow'[q]
      BY <1>0 DEF IInv, TypeOK, MadeInv, End
    <3>. QED
      BY <3>1, <3>2 DEF MadeInv
  <2>8. CutInv'
    BY <1>0, <2>1, <2>3 DEF IInv, TypeOK, CutInv, Carries, End
  <2>9. Deleted
    BY <2>1, <2>3 DEF IInv, TypeOK, Deleted
  <2>. QED
    BY <2>4, <2>5, <2>6, <2>7, <2>8, <2>9 DEF IInv
<1>. QED
  BY <1>1, <1>2

LEMMA UpdateInv ==
    ASSUME IInv, NEW r \in Requests, UpdatePasskeyCredential(r)
    PROVE  IInv' /\ Deleted
<1>0. pc[r] = "update" /\ Past(r)
      /\ UNCHANGED <<purpose, open, expired, madeFor, stored, outcomes>>
  BY DEF UpdatePasskeyCredential, Past
<1>1. CASE stored[credential[r]] = "stored"
  <2>1. Goto(r, "create") /\ UNCHANGED <<finishVars, cut>>
    BY <1>1 DEF UpdatePasskeyCredential
  <2>2. ~cut[r]
    BY <1>1 DEF IInv, CutInv
  <2>. QED
    BY <1>0, <2>1, <2>2, GotoInv
<1>2. CASE stored[credential[r]] # "stored"
  BY <1>0, <1>2, EndInv DEF UpdatePasskeyCredential
<1>. QED
  BY <1>1, <1>2

LEMMA CreateSessionInv ==
    ASSUME IInv, NEW r \in Requests, CreateSession(r)
    PROVE  IInv' /\ Deleted
<1>0. /\ pc[r] = "create" /\ Past(r) /\ End(r)
      /\ outcomes' = [outcomes EXCEPT ![flow[r]] = @ + 1]
      /\ UNCHANGED <<purpose, open, expired, madeFor, stored>>
  BY DEF CreateSession, Past
<1>1. OneOwner' /\ \A f \in Flows : outcomes'[f] >= outcomes[f]
  BY <1>0, OutcomeOwner
<1>2. TypeOK'
  <2>1. flow[r] \in Flows
    BY <1>0 DEF IInv, Carries, Issued
  <2>2. outcomes' \in [Flows -> Nat]
    BY <1>0, <2>1 DEF IInv, TypeOK
  <2>. QED
    BY <1>0, <2>2 DEF IInv, TypeOK, End, Issued, Purposes
<1>3. Carries'
  BY <1>0 DEF IInv, TypeOK, Carries, End, Issued
<1>4. MadeInv'
  <2>1. \A c \in Credentials : stored[c] # "unmade" =>
           madeFor[c] \in Flows /\ outcomes'[madeFor[c]] >= 1
    <3>. SUFFICES ASSUME NEW c \in Credentials, stored[c] # "unmade"
                  PROVE  madeFor[c] \in Flows /\ outcomes'[madeFor[c]] >= 1
      OBVIOUS
    <3>1. madeFor[c] \in Flows /\ outcomes[madeFor[c]] >= 1
      BY DEF IInv, MadeInv
    <3>. QED
      BY <3>1, <1>1, <1>2 DEF IInv, TypeOK
  <2>2. \A q \in Requests : pc'[q] # "idle" /\ want'[q] = "registration" =>
           madeFor[credential'[q]] = flow'[q]
    BY <1>0 DEF IInv, TypeOK, MadeInv, End
  <2>. QED
    BY <1>0, <2>1, <2>2 DEF MadeInv
<1>5. CutInv'
  BY <1>0 DEF IInv, TypeOK, CutInv, End
<1>6. Deleted
  BY <1>0 DEF Deleted
<1>. QED
  BY <1>1, <1>2, <1>3, <1>4, <1>5, <1>6 DEF IInv

LEMMA DeleteInv ==
    ASSUME IInv, NEW c \in Credentials, DeletePasskeyCredential(c)
    PROVE  IInv' /\ Deleted
<1>1. TypeOK'
  BY DEF IInv, TypeOK, DeletePasskeyCredential, finishVars, Issued
<1>2. Carries'
  BY DEF IInv, Carries, DeletePasskeyCredential, finishVars, Issued
<1>3. OneOwner'
  BY DEF IInv, OneOwner, OneOutcomePerFlow, DeletePasskeyCredential, finishVars, Issued, Past
<1>4. MadeInv'
  BY DEF IInv, TypeOK, MadeInv, DeletePasskeyCredential, finishVars
<1>5. CutInv'
  BY DEF IInv, TypeOK, Carries, CutInv, DeletePasskeyCredential, finishVars
<1>6. Deleted
  BY DEF IInv, TypeOK, Deleted, DeletePasskeyCredential
<1>. QED
  BY <1>1, <1>2, <1>3, <1>4, <1>5, <1>6 DEF IInv

LEMMA ExpireInv ==
    ASSUME IInv, NEW f \in Flows, Expire(f)
    PROVE  IInv' /\ Deleted
BY DEF IInv, TypeOK, Carries, OneOwner, OneOutcomePerFlow, MadeInv, CutInv, Expire,
       finishVars, Issued, Past, Deleted

LEMMA RestartInv ==
    ASSUME IInv, Restart
    PROVE  IInv' /\ Deleted
BY PasskeysAssumption
   DEF IInv, TypeOK, Carries, OneOwner, OneOutcomePerFlow, MadeInv, CutInv, Restart,
       Issued, Purposes, Past, Deleted

LEMMA NextInv == IInv /\ [Next]_vars => IInv' /\ Deleted
<1>. SUFFICES ASSUME IInv, [Next]_vars
              PROVE  IInv' /\ Deleted
  OBVIOUS
<1>1. CASE UNCHANGED vars
  BY <1>1 DEF vars, finishVars, IInv, TypeOK, Carries, OneOwner, OneOutcomePerFlow,
              MadeInv, CutInv, Issued, Past, Deleted
<1>2. ASSUME NEW f \in Flows, NEW p \in Purposes, SavePasskeyFlow(f, p)
      PROVE  IInv' /\ Deleted
  BY <1>2, SaveFlowInv
<1>3. ASSUME NEW r \in Requests, NEW p \in Purposes, NEW f \in Flows,
             NEW c \in Credentials, Finish(r, p, f, c)
      PROVE  IInv' /\ Deleted
  BY <1>3, FinishInv
<1>4. ASSUME NEW r \in Requests, Handle(r)
      PROVE  IInv' /\ Deleted
  <2>1. Cancel(r) => IInv' /\ Deleted
    BY EndInv DEF Cancel
  <2>. QED
    BY <1>4, <2>1, ConsumeInv, VerifyInv, SaveCredentialInv, UpdateInv, CreateSessionInv
       DEF Handle
<1>5. ASSUME NEW c \in Credentials, DeletePasskeyCredential(c)
      PROVE  IInv' /\ Deleted
  BY <1>5, DeleteInv
<1>6. ASSUME NEW f \in Flows, Expire(f)
      PROVE  IInv' /\ Deleted
  BY <1>6, ExpireInv
<1>7. CASE Restart
  BY <1>7, RestartInv
<1>. QED
  BY <1>1, <1>2, <1>3, <1>4, <1>5, <1>6, <1>7 DEF Next

LEMMA Invariant == Spec => []IInv
<1>1. IInv /\ [Next]_vars => IInv'
  BY NextInv
<1>. QED
  BY InitInv, <1>1, PTL DEF Spec

-----------------------------------------------------------------------------
(* The flows, the credentials and the finish requests keep their types,    *)
(* and a request that got past consumePasskeyFlow holds a flow of the      *)
(* purpose its route asks for.                                             *)
THEOREM TypeCorrect == Spec => []TypeOK
<1>1. IInv => TypeOK
  BY DEF IInv
<1>. QED
  BY Invariant, <1>1, PTL

(* A challenge stores one credential or opens one session at most, for any *)
(* number of answers sent again, late or after a restart.                  *)
THEOREM OneOutcomeAlways == Spec => []OneOutcomePerFlow
<1>1. IInv => OneOutcomePerFlow
  BY DEF IInv, OneOwner
<1>. QED
  BY Invariant, <1>1, PTL

(* A login whose passkey was deleted before its UPDATE opens no session.   *)
THEOREM DeletedNeverOpens == Spec => []DeletedPasskeyOpensNothing
<1>1. IInv => DeletedPasskeyOpensNothing
  BY DEF IInv, CutInv, DeletedPasskeyOpensNothing
<1>. QED
  BY Invariant, <1>1, PTL

(* No answer, sent again or late, stores a deleted passkey once more.      *)
THEOREM DeletedStaysDeleted == Spec => DeletedPasskeyStaysDeleted
<1>1. IInv /\ [Next]_vars =>
        [\A c \in Credentials : stored[c] = "deleted" => stored'[c] = "deleted"]_vars
  BY NextInv DEF Deleted
<1>. QED
  BY Invariant, <1>1, PTL DEF Spec, DeletedPasskeyStaysDeleted

=============================================================================
