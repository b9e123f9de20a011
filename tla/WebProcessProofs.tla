-------------------------- MODULE WebProcessProofs --------------------------
(***************************************************************************)
(* Safety of security scans, settings and log histories under the whole    *)
(* web process, for any connections, images, sections, payloads, files and *)
(* width of a duration.                                                    *)
(***************************************************************************)
EXTENDS WebProcess, WellFoundedInduction, FiniteSetTheorems, TLAPS

-----------------------------------------------------------------------------
(* The inductive invariant. *)

ScanSteps ==
    {"scanner", "analyse", "record", "findings", "clear", "digests", "packages"}

(* What a request has in a table whose rows are <<request, image>>.          *)
Of(c, rows) == {i \in Images : <<c, i>> \in rows}

Blank == [images |-> {}, left |-> {}, found |-> {}, status |-> "none"]

(* The tables, the locals and the connections keep their types.              *)
ScanType ==
    /\ kind \in [Conns -> Kinds]
    /\ findings \subseteq Conns \X Images
    /\ digests \subseteq Conns \X Images
    /\ scan \in [Conns -> [images : SUBSET Images, left : SUBSET Images,
                           found : SUBSET Vulnerable,
                           status : {"none", "complete", "failed", "unavailable"}]]
    /\ scans \in [Conns -> {"none", "complete", "failed", "unavailable"}]
    /\ at \in [Conns -> Steps]
    /\ reply \in [Conns -> Replies]

(* A complete scan has looked at every image it has behind it.               *)
Looked(s) == s.status = "complete" => s.found = s.images \cap Vulnerable

(* A scan and its rows in "security_scans" and "security_findings", by the   *)
(* step of its request.                                                      *)
FoundOK(c, step, answer, s, row, rows) ==
    /\ step # "ended" => answer = "none"
    /\ step \notin (ScanSteps \ {"scanner"}) \cup {"ended"} => s = Blank /\ Of(c, rows) = {}
    /\ step = "analyse" =>
          /\ Of(c, rows) = {} /\ s.left \subseteq s.images
          /\ s.status \in {"complete", "failed"}
          /\ s.status = "complete" => s.found = (s.images \ s.left) \cap Vulnerable
    /\ step = "record" => Of(c, rows) = {} /\ Looked(s)
    /\ step = "findings" =>
          /\ s.left \subseteq s.found /\ Of(c, rows) = s.found \ s.left
          /\ row = s.status /\ s.status # "unavailable" /\ Looked(s)
    /\ step \in {"clear", "digests", "packages"} =>
          IF s.status = "unavailable"
          THEN Of(c, rows) = {}
          ELSE row = s.status /\ Of(c, rows) = s.found /\ Looked(s)
    /\ answer = "complete" =>
          /\ row = "complete" /\ Of(c, rows) = s.images \cap Vulnerable

(* The scan that last cleared the digests and its rows in "image_digests".   *)
DigestsOK(c, step, answer, s, rows) ==
    /\ step \in {"digests", "packages", "record", "ended"}
    /\ step = "record" => s.status = "unavailable"
    /\ c \notin unclean =>
          /\ step = "digests" => s.left \subseteq s.images /\ Of(c, rows) = s.images \ s.left
          /\ \/ step \in {"packages", "record"}
             \/ answer \in {"complete", "failed", "unavailable"}
             => Of(c, rows) = s.images

Renewed ==
    \A c \in renewer :
        /\ renewer = {c}
        /\ DigestsOK(c, at[c], reply[c], scan[c], digests)
        /\ \A row \in digests : row[1] \in unclean \cup {c}
        /\ \A d \in Conns : at[d] = "digests" => d \in unclean \cup {c}

ScanInv ==
    /\ ScanType
    /\ renewer \subseteq Conns
    /\ \A c \in Conns : FoundOK(c, at[c], reply[c], scan[c], scans[c], findings)
    /\ Renewed

-----------------------------------------------------------------------------
(* Steps of the process, of settings and of log histories. *)

(* What such a step does to one connection.                                  *)
Calm(c) ==
    \/ at'[c] = at[c] /\ reply'[c] = reply[c]
    \/ at'[c] = "ended" /\ reply'[c] = reply[c]
    \/ /\ at[c] \notin ScanSteps \cup {"ended"}
       /\ at'[c] \notin ScanSteps \ {"scanner"}
       /\ at'[c] # "ended" => reply'[c] = "none"
       /\ reply'[c] \notin {"complete", "failed", "unavailable"}

LEMMA CalmStep ==
    ASSUME ScanInv, UNCHANGED scanVars, kind' = kind,
           at' \in [Conns -> Steps], reply' \in [Conns -> Replies],
           \A c \in Conns : Calm(c)
    PROVE  ScanInv'
  <1>1. ScanType' /\ (renewer \subseteq Conns)'
    BY DEF ScanInv, ScanType, scanVars
  <1>2. ASSUME NEW c \in Conns
        PROVE  FoundOK(c, at[c], reply[c], scan[c], scans[c], findings)'
    <2>1. FoundOK(c, at[c], reply[c], scan[c], scans[c], findings) /\ Calm(c)
      BY DEF ScanInv
    <2>2. FoundOK(c, at'[c], reply'[c], scan[c], scans[c], findings)
      BY <2>1 DEF FoundOK, Calm, ScanSteps
    <2> QED
      BY <2>2 DEF scanVars
  <1>3. Renewed'
    <2> SUFFICES ASSUME NEW c \in renewer'
                 PROVE  /\ renewer' = {c}
                        /\ DigestsOK(c, at[c], reply[c], scan[c], digests)'
                        /\ \A row \in digests' : row[1] \in unclean' \cup {c}
                        /\ \A d \in Conns : at'[d] = "digests" => d \in unclean' \cup {c}
      BY DEF Renewed
    <2>1. /\ c \in renewer /\ c \in Conns /\ renewer = {c}
          /\ DigestsOK(c, at[c], reply[c], scan[c], digests)
          /\ \A row \in digests : row[1] \in unclean \cup {c}
          /\ \A d \in Conns : at[d] = "digests" => d \in unclean \cup {c}
      BY DEF ScanInv, Renewed, scanVars
    <2>2. FoundOK(c, at[c], reply[c], scan[c], scans[c], findings) /\ Calm(c)
      BY <2>1 DEF ScanInv
    <2>3. DigestsOK(c, at'[c], reply'[c], scan[c], digests)
      BY <2>1, <2>2 DEF DigestsOK, FoundOK, Calm, ScanSteps
    <2>4. DigestsOK(c, at[c], reply[c], scan[c], digests)'
      BY <2>3 DEF DigestsOK, scanVars
    <2>5. ASSUME NEW d \in Conns, at'[d] = "digests" PROVE at[d] = "digests"
      BY <2>5 DEF Calm, ScanSteps
    <2> QED
      BY <2>1, <2>4, <2>5 DEF scanVars
  <1> QED
    BY <1>1, <1>2, <1>3 DEF ScanInv

LEMMA GoCalm ==
    ASSUME ScanInv, NEW c \in Conns, NEW step \in (Steps \ ScanSteps) \cup {"scanner"},
           step # "ended", at[c] \notin ScanSteps \cup {"ended"},
           Go(c, step), UNCHANGED scanVars
    PROVE  ScanInv'
  <1>1. at \in [Conns -> Steps] /\ reply \in [Conns -> Replies] /\ step \in Steps
    BY DEF ScanInv, ScanType, Steps
  <1>2. reply[c] = "none"
    BY DEF ScanInv, FoundOK
  <1>3. at' \in [Conns -> Steps] /\ reply' \in [Conns -> Replies] /\ kind' = kind
    BY <1>1 DEF Go
  <1>4. ASSUME NEW d \in Conns PROVE Calm(d)
    BY <1>1, <1>2 DEF Go, Calm, ScanSteps
  <1> QED
    BY <1>3, <1>4, CalmStep

LEMMA AnswerCalm ==
    ASSUME ScanInv, NEW c \in Conns,
           NEW r \in Replies \ {"complete", "failed", "unavailable"},
           at[c] \notin ScanSteps \cup {"ended"},
           Answer(c, r), UNCHANGED scanVars
    PROVE  ScanInv'
  <1>1. at \in [Conns -> Steps] /\ reply \in [Conns -> Replies]
    BY DEF ScanInv, ScanType
  <1>2. at' \in [Conns -> Steps] /\ reply' \in [Conns -> Replies] /\ kind' = kind
    BY <1>1 DEF Answer, Steps
  <1>3. ASSUME NEW d \in Conns PROVE Calm(d)
    BY <1>1 DEF Answer, Calm, ScanSteps
  <1> QED
    BY <1>2, <1>3, CalmStep

LEMMA SameCalm ==
    ASSUME ScanInv, UNCHANGED <<kind, at, reply>>, UNCHANGED scanVars
    PROVE  ScanInv'
  <1>1. at \in [Conns -> Steps] /\ reply \in [Conns -> Replies]
    BY DEF ScanInv, ScanType
  <1>2. ASSUME NEW d \in Conns PROVE Calm(d)
    BY DEF Calm
  <1> QED
    BY <1>1, <1>2, CalmStep

(* A connection on its way to its handler.                                   *)
LEMMA ConnectionStep ==
    ASSUME ScanInv, NEW c \in Conns,
           \/ Connect(c) \/ MuxAccept(c) \/ FirstByte(c) \/ SniffTimeout(c) \/ Deliver(c)
           \/ Accept(c) \/ HeaderTimeout(c) \/ Redirect(c) \/ Header(c) \/ Body(c)
           \/ Quiet(c) \/ LateHeader(c) \/ Written(c) \/ Close(c)
    PROVE  ScanInv'
  <1> USE DEF others, Steps, ScanSteps, Replies
  <1>1. CASE Connect(c)
    BY <1>1, GoCalm DEF Connect
  <1>2. CASE MuxAccept(c)
    BY <1>2, GoCalm DEF MuxAccept
  <1>3. CASE FirstByte(c)
    BY <1>3, GoCalm DEF FirstByte
  <1>4. CASE SniffTimeout(c)
    BY <1>4, AnswerCalm DEF SniffTimeout
  <1>5. CASE Deliver(c)
    BY <1>5, GoCalm, AnswerCalm DEF Deliver
  <1>6. CASE Accept(c)
    BY <1>6, GoCalm DEF Accept
  <1>7. CASE HeaderTimeout(c)
    BY <1>7, AnswerCalm DEF HeaderTimeout
  <1>8. CASE Redirect(c)
    BY <1>8, AnswerCalm DEF Redirect
  <1>9. ASSUME Handle(c), UNCHANGED scanVars, at[c] \in {"request", "quiet"}
        PROVE  ScanInv'
    <2>1. kind[c] \in Kinds
      BY DEF ScanInv, ScanType
    <2>2. PICK step \in {"body", "scanner", "expire"} : Go(c, step) \/ Answer(c, "refused")
      BY <1>9, <2>1 DEF Handle, Kinds
    <2> QED
      BY <1>9, <2>2, GoCalm, AnswerCalm
  <1>10. CASE Body(c)
    BY <1>10, GoCalm, AnswerCalm DEF Body
  <1>11. CASE Header(c)
    BY <1>9, <1>11 DEF Header
  <1>12. CASE Quiet(c)
    BY <1>12, GoCalm DEF Quiet
  <1>13. CASE LateHeader(c)
    BY <1>9, <1>13, AnswerCalm DEF LateHeader
  <1>14. CASE Written(c) \/ Close(c)
    BY <1>14, SameCalm DEF Written, Close, GoOn
  <1> QED
    BY <1>1, <1>2, <1>3, <1>4, <1>5, <1>6, <1>7, <1>8, <1>10, <1>11, <1>12, <1>13, <1>14

LEMMA OtherHandlerStep ==
    ASSUME ScanInv, NEW c \in Conns, Settle(c) \/ History(c)
    PROVE  ScanInv'
  <1> USE DEF Steps, ScanSteps, Replies
  <1>1. UNCHANGED scanVars
    BY DEF Settle, History
  <1>2. CASE Pick(c)
    BY <1>1, <1>2, GoCalm DEF Pick
  <1>3. CASE Save(c)
    BY <1>1, <1>3, GoCalm, AnswerCalm DEF Save
  <1>4. CASE Assign(c)
    BY <1>1, <1>4, GoCalm, SameCalm DEF Assign, reqVars
  <1>5. CASE Applied(c)
    BY <1>1, <1>5, AnswerCalm DEF Applied
  <1>6. CASE Expire(c)
    BY <1>1, <1>6, GoCalm, AnswerCalm DEF Expire
  <1>7. CASE Unlink(c)
    <2>1. at[c] = "unlink" /\ (Go(c, "prune") \/ UNCHANGED reqVars \/ Answer(c, "error"))
      BY <1>7 DEF Unlink
    <2> QED
      BY <1>1, <2>1, GoCalm, SameCalm, AnswerCalm DEF reqVars
  <1>8. CASE Prune(c)
    <2>1. at[c] = "prune" /\ (Go(c, "read") \/ UNCHANGED reqVars \/ Answer(c, "error"))
      BY <1>8 DEF Prune
    <2> QED
      BY <1>1, <2>1, GoCalm, SameCalm, AnswerCalm DEF reqVars
  <1>9. CASE Read(c)
    BY <1>1, <1>9, AnswerCalm, SameCalm DEF Read, reqVars
  <1>10. CASE Skip(c)
    BY <1>1, <1>10, SameCalm DEF Skip, reqVars
  <1> QED
    BY <1>2, <1>3, <1>4, <1>5, <1>6, <1>7, <1>8, <1>9, <1>10
       DEF Settle, History, PutStep, HistoryStep

LEMMA ProcessStep ==
    ASSUME ScanInv, Signal \/ Exit \/ AcceptFails \/ Crash \/ Start \/ Finished
    PROVE  ScanInv'
  <1>1. at \in [Conns -> Steps] /\ reply \in [Conns -> Replies]
    BY DEF ScanInv, ScanType
  <1>2. CASE Start \/ Finished
    BY <1>2, SameCalm DEF Start, Finished, vars, reqVars
  <1>3. CASE Signal \/ Down
    <2>1. /\ \A c \in Conns : at'[c] \in {at[c], "ended"}
          /\ at' \in [Conns -> Steps] /\ reply' = reply /\ kind' = kind
          /\ UNCHANGED scanVars
      BY <1>1, <1>3 DEF Signal, Down, Steps
    <2>2. ASSUME NEW c \in Conns PROVE Calm(c)
      BY <2>1 DEF Calm
    <2> QED
      BY <1>1, <2>1, <2>2, CalmStep
  <1> QED
    BY <1>2, <1>3 DEF Exit, AcceptFails, Crash

-----------------------------------------------------------------------------
(* Steps of a scan. *)

(* A step of one scan that leaves the digests alone.                         *)
Moves(c, step, answer, s, row, found) ==
    /\ step \in Steps /\ answer \in Replies
    /\ row \in {"none", "complete", "failed", "unavailable"}
    /\ s \in [images : SUBSET Images, left : SUBSET Images, found : SUBSET Vulnerable,
              status : {"none", "complete", "failed", "unavailable"}]
    /\ found \subseteq Conns \X Images
    /\ at' = [at EXCEPT ![c] = step] /\ reply' = [reply EXCEPT ![c] = answer]
    /\ kind' = kind /\ scan' = [scan EXCEPT ![c] = s] /\ scans' = [scans EXCEPT ![c] = row]
    /\ findings' = found /\ UNCHANGED <<digests, renewer, unclean>>
    /\ \A d \in Conns \ {c} : Of(d, found) = Of(d, findings)
    /\ FoundOK(c, step, answer, s, row, found)
    /\ step = "digests" => at[c] = "digests"
    /\ c \in renewer => DigestsOK(c, step, answer, s, digests)

LEMMA ScanFrame ==
    ASSUME ScanInv, NEW c \in Conns, NEW step, NEW answer, NEW s, NEW row, NEW found,
           Moves(c, step, answer, s, row, found)
    PROVE  ScanInv'
  <1> USE DEF Moves
  <1>1. ScanType' /\ (renewer \subseteq Conns)'
    BY DEF ScanInv, ScanType
  <1>2. ASSUME NEW d \in Conns
        PROVE  /\ at'[d] = IF d = c THEN step ELSE at[d]
               /\ reply'[d] = IF d = c THEN answer ELSE reply[d]
               /\ scan'[d] = IF d = c THEN s ELSE scan[d]
               /\ scans'[d] = IF d = c THEN row ELSE scans[d]
    BY DEF ScanInv, ScanType
  <1>3. ASSUME NEW d \in Conns
        PROVE  FoundOK(d, at[d], reply[d], scan[d], scans[d], findings)'
    <2>1. CASE d = c
      BY <1>2, <2>1
    <2>2. CASE d # c
      <3>1. FoundOK(d, at[d], reply[d], scan[d], scans[d], findings)
        BY DEF ScanInv
      <3>2. Of(d, found) = Of(d, findings)
        BY <2>2
      <3>3. FoundOK(d, at[d], reply[d], scan[d], scans[d], found)
        BY <3>1, <3>2 DEF FoundOK
      <3> QED
        BY <1>2, <2>2, <3>3
    <2> QED
      BY <2>1, <2>2
  <1>4. Renewed'
    <2> SUFFICES ASSUME NEW d \in renewer'
                 PROVE  /\ renewer' = {d}
                        /\ DigestsOK(d, at[d], reply[d], scan[d], digests)'
                        /\ \A r \in digests' : r[1] \in unclean' \cup {d}
                        /\ \A e \in Conns : at'[e] = "digests" => e \in unclean' \cup {d}
      BY DEF Renewed
    <2>1. /\ d \in renewer /\ d \in Conns /\ renewer = {d}
          /\ DigestsOK(d, at[d], reply[d], scan[d], digests)
          /\ \A r \in digests : r[1] \in unclean \cup {d}
          /\ \A e \in Conns : at[e] = "digests" => e \in unclean \cup {d}
      BY DEF ScanInv, Renewed
    <2>2. DigestsOK(d, at'[d], reply'[d], scan'[d], digests)
      BY <1>2, <2>1
    <2>3. DigestsOK(d, at[d], reply[d], scan[d], digests)'
      BY <2>2 DEF DigestsOK
    <2>4. ASSUME NEW e \in Conns, at'[e] = "digests" PROVE at[e] = "digests"
      BY <1>2, <2>4
    <2> QED
      BY <2>1, <2>3, <2>4
  <1> QED
    BY <1>1, <1>3, <1>4 DEF ScanInv

(* Go and Answer in the form of the frame.                                   *)
LEMMA MovesTo ==
    ASSUME ScanInv, NEW c \in Conns
    PROVE  /\ \A step : Go(c, step) =>
                /\ at' = [at EXCEPT ![c] = step] /\ kind' = kind
                /\ reply' = [reply EXCEPT ![c] = reply[c]]
           /\ \A r : Answer(c, r) =>
                /\ at' = [at EXCEPT ![c] = "ended"] /\ kind' = kind
                /\ reply' = [reply EXCEPT ![c] = r]
           /\ UNCHANGED reqVars =>
                /\ at' = [at EXCEPT ![c] = at[c]] /\ kind' = kind
                /\ reply' = [reply EXCEPT ![c] = reply[c]]
           /\ UNCHANGED scan => scan' = [scan EXCEPT ![c] = scan[c]]
           /\ UNCHANGED scans => scans' = [scans EXCEPT ![c] = scans[c]]
  BY DEF ScanInv, ScanType, Go, Answer, reqVars

(* What holds of a request on its way through a scan.                        *)
LEMMA AtScan ==
    ASSUME ScanInv, NEW c \in Conns
    PROVE  /\ scan[c] \in [images : SUBSET Images, left : SUBSET Images,
                           found : SUBSET Vulnerable,
                           status : {"none", "complete", "failed", "unavailable"}]
           /\ scans[c] \in {"none", "complete", "failed", "unavailable"}
           /\ at[c] \in Steps /\ reply[c] \in Replies
           /\ findings \subseteq Conns \X Images
           /\ FoundOK(c, at[c], reply[c], scan[c], scans[c], findings)
           /\ c \in renewer => DigestsOK(c, at[c], reply[c], scan[c], digests)
  BY DEF ScanInv, ScanType, Renewed

LEMMA ScannerStep ==
    ASSUME ScanInv, NEW c \in Conns, Scanner(c)
    PROVE  ScanInv'
  <1> DEFINE s == scan[c]
  <1> USE ImagesAssumption
  <1>1. /\ at[c] = "scanner" /\ UNCHANGED <<scans, findings, digests, renewer, unclean>>
        /\ kind' = kind
    BY DEF Scanner, Go, Answer
  <1>2. /\ s = Blank /\ Of(c, findings) = {} /\ reply[c] = "none" /\ c \notin renewer
    BY <1>1, AtScan DEF FoundOK, DigestsOK, ScanSteps
  <1>3. CASE \E images \in Deployed, available \in BOOLEAN :
               /\ scan' = [scan EXCEPT ![c].images = images, ![c].left = images,
                               ![c].status = IF available THEN "complete" ELSE "unavailable"]
               /\ Go(c, IF available THEN "analyse" ELSE "clear")
    <2>1. PICK images \in Deployed, available \in BOOLEAN :
               /\ scan' = [scan EXCEPT ![c].images = images, ![c].left = images,
                               ![c].status = IF available THEN "complete" ELSE "unavailable"]
               /\ Go(c, IF available THEN "analyse" ELSE "clear")
      BY <1>3
    <2> DEFINE u == [s EXCEPT !.images = images, !.left = images,
                              !.status = IF available THEN "complete" ELSE "unavailable"]
               step == IF available THEN "analyse" ELSE "clear"
    <2>2. scan' = [scan EXCEPT ![c] = u]
      BY <2>1
    <2>3. /\ u.images = images /\ u.left = images /\ u.found = {}
          /\ u.status = IF available THEN "complete" ELSE "unavailable"
      BY <1>2, AtScan DEF Blank
    <2>4. u \in [images : SUBSET Images, left : SUBSET Images, found : SUBSET Vulnerable,
                 status : {"none", "complete", "failed", "unavailable"}]
      BY AtScan
    <2> HIDE DEF u
    <2>5. FoundOK(c, step, "none", u, scans[c], findings)
      BY <1>2, <2>3 DEF FoundOK, ScanSteps
    <2>6. /\ at' = [at EXCEPT ![c] = step] /\ reply' = [reply EXCEPT ![c] = "none"]
          /\ scans' = [scans EXCEPT ![c] = scans[c]]
      BY <1>1, <1>2, <2>1, MovesTo
    <2>7. Moves(c, step, "none", u, scans[c], findings)
      BY <1>1, <1>2, <2>2, <2>4, <2>5, <2>6, AtScan DEF Moves, Steps, Replies
    <2> QED
      BY <2>7, ScanFrame
  <1>4. CASE Set(c, "status", "unavailable") /\ Go(c, "record")
    <2> DEFINE u == [s EXCEPT !["status"] = "unavailable"]
    <2>1. scan' = [scan EXCEPT ![c] = u]
      BY <1>4 DEF Set
    <2>2. u.status = "unavailable" /\ u \in
             [images : SUBSET Images, left : SUBSET Images, found : SUBSET Vulnerable,
              status : {"none", "complete", "failed", "unavailable"}]
      BY AtScan
    <2> HIDE DEF u
    <2>3. FoundOK(c, "record", "none", u, scans[c], findings)
      BY <1>2, <2>2 DEF FoundOK, ScanSteps, Looked
    <2>4. /\ at' = [at EXCEPT ![c] = "record"] /\ reply' = [reply EXCEPT ![c] = "none"]
          /\ scans' = [scans EXCEPT ![c] = scans[c]]
      BY <1>1, <1>2, <1>4, MovesTo
    <2>5. Moves(c, "record", "none", u, scans[c], findings)
      BY <1>1, <1>2, <2>1, <2>2, <2>3, <2>4, AtScan DEF Moves, Steps, Replies
    <2> QED
      BY <2>5, ScanFrame
  <1>5. CASE Answer(c, "error") /\ UNCHANGED scan
    <2>1. FoundOK(c, "ended", "error", s, scans[c], findings)
      BY DEF FoundOK, ScanSteps
    <2>2. /\ at' = [at EXCEPT ![c] = "ended"] /\ reply' = [reply EXCEPT ![c] = "error"]
          /\ scans' = [scans EXCEPT ![c] = scans[c]] /\ scan' = [scan EXCEPT ![c] = s]
      BY <1>1, <1>5, MovesTo
    <2>3. Moves(c, "ended", "error", s, scans[c], findings)
      BY <1>1, <1>2, <2>1, <2>2, AtScan DEF Moves, Steps, Replies
    <2> QED
      BY <2>3, ScanFrame
  <1> QED
    BY <1>3, <1>4, <1>5 DEF Scanner

(* The image that is next is one of those that are left.                     *)
LEMMA NextIsLeft ==
    ASSUME NEW S, S \subseteq Images, S # {}
    PROVE  Next1(S) \in S
  <1>1. S \subseteq Nat
    BY ImagesAssumption
  <1>2. PICK i \in S : \A j \in S : <<j, i>> \notin OpToRel(<, Nat)
    <2> DEFINE Less == OpToRel(<, Nat)
    <2>1. IsWellFoundedOn(Less, Nat)
      BY NatLessThanWellFounded
    <2> HIDE DEF Less
    <2>2. \E i \in S : \A j \in S : ~(<<j, i>> \in Less)
      BY <1>1, <2>1, WFMin
    <2> QED
      BY <2>2 DEF Less
  <1>3. ASSUME NEW j \in S PROVE i <= j
    <2>1. ~(j < i)
      BY <1>1, <1>2 DEF OpToRel
    <2> QED
      BY <1>1, <2>1
  <1> QED
    BY <1>3 DEF Next1

LEMMA RowAdded ==
    ASSUME NEW c, NEW i \in Images, NEW rows
    PROVE  /\ Of(c, rows \cup {<<c, i>>}) = Of(c, rows) \cup {i}
           /\ \A d : d # c => Of(d, rows \cup {<<c, i>>}) = Of(d, rows)
  BY DEF Of

LEMMA AnalyseStep ==
    ASSUME ScanInv, NEW c \in Conns, Analyse(c)
    PROVE  ScanInv'
  <1> DEFINE s == scan[c]
             i == Next1(s.left)
  <1> USE ImagesAssumption
  <1>1. /\ at[c] = "analyse" /\ UNCHANGED <<scans, findings, digests, renewer, unclean>>
    BY DEF Analyse
  <1>2. /\ Of(c, findings) = {} /\ s.left \subseteq s.images /\ reply[c] = "none"
        /\ s.status \in {"complete", "failed"} /\ c \notin renewer
        /\ s.status = "complete" => s.found = (s.images \ s.left) \cap Vulnerable
    BY <1>1, AtScan DEF FoundOK, DigestsOK
  <1>3. /\ s.images \subseteq Images /\ s.left \subseteq Images /\ s.found \subseteq Vulnerable
    BY AtScan
  <1>4. UNCHANGED reqVars =>
          /\ at' = [at EXCEPT ![c] = "analyse"] /\ reply' = [reply EXCEPT ![c] = "none"]
          /\ kind' = kind /\ scans' = [scans EXCEPT ![c] = scans[c]]
    <2>1. UNCHANGED scans
      BY <1>1
    <2> QED
      BY <1>1, <1>2, <2>1, MovesTo
  <1>5. CASE s.left = {}
    <2>1. Go(c, "record") /\ UNCHANGED scan
      BY <1>5 DEF Analyse
    <2>2. FoundOK(c, "record", "none", s, scans[c], findings)
      BY <1>2, <1>5 DEF FoundOK, ScanSteps, Looked
    <2>3. Moves(c, "record", "none", s, scans[c], findings)
      BY <1>1, <1>2, <2>1, <2>2, AtScan, MovesTo DEF Moves, Steps, Replies
    <2> QED
      BY <2>3, ScanFrame
  <1>6. CASE s.left # {}
    <2>1. i \in s.left
      BY <1>3, <1>6, NextIsLeft
    <2>2. /\ UNCHANGED reqVars
          /\ \/ scan' = [scan EXCEPT ![c].left = @ \ {i}, ![c].found = @ \cup ({i} \cap Vulnerable)]
             \/ scan' = [scan EXCEPT ![c].left = @ \ {i}, ![c].status = "failed"]
      BY <1>6 DEF Analyse
    <2> HIDE DEF i
    <2>3. CASE scan' = [scan EXCEPT ![c].left = @ \ {i}, ![c].found = @ \cup ({i} \cap Vulnerable)]
      <3> DEFINE u == [s EXCEPT !.left = @ \ {i}, !.found = @ \cup ({i} \cap Vulnerable)]
      <3>1. scan' = [scan EXCEPT ![c] = u]
        BY <2>3
      <3>2. /\ u.images = s.images /\ u.left = s.left \ {i} /\ u.status = s.status
            /\ u.found = s.found \cup ({i} \cap Vulnerable)
        BY AtScan
      <3>3. u \in [images : SUBSET Images, left : SUBSET Images, found : SUBSET Vulnerable,
                   status : {"none", "complete", "failed", "unavailable"}]
        BY AtScan
      <3> HIDE DEF u, s
      <3>4. u.status = "complete" => u.found = (u.images \ u.left) \cap Vulnerable
        BY <1>2, <2>1, <3>2
      <3>5. FoundOK(c, "analyse", "none", u, scans[c], findings)
        BY <1>2, <3>2, <3>4 DEF FoundOK, ScanSteps
      <3>6. Moves(c, "analyse", "none", u, scans[c], findings)
        BY <1>1, <1>2, <1>4, <2>2, <3>1, <3>3, <3>5, AtScan DEF Moves, Steps, Replies
      <3> QED
        BY <3>6, ScanFrame
    <2>4. CASE scan' = [scan EXCEPT ![c].left = @ \ {i}, ![c].status = "failed"]
      <3> DEFINE u == [s EXCEPT !.left = @ \ {i}, !.status = "failed"]
      <3>1. scan' = [scan EXCEPT ![c] = u]
        BY <2>4
      <3>2. /\ u.images = s.images /\ u.left = s.left \ {i} /\ u.status = "failed"
        BY AtScan
      <3>3. u \in [images : SUBSET Images, left : SUBSET Images, found : SUBSET Vulnerable,
                   status : {"none", "complete", "failed", "unavailable"}]
        BY AtScan
      <3> HIDE DEF u, s
      <3>4. FoundOK(c, "analyse", "none", u, scans[c], findings)
        BY <1>2, <3>2 DEF FoundOK, ScanSteps
      <3>5. Moves(c, "analyse", "none", u, scans[c], findings)
        BY <1>1, <1>2, <1>4, <2>2, <3>1, <3>3, <3>4, AtScan DEF Moves, Steps, Replies
      <3> QED
        BY <3>5, ScanFrame
    <2> QED
      BY <2>2, <2>3, <2>4
  <1> QED
    BY <1>5, <1>6

LEMMA RecordStep ==
    ASSUME ScanInv, NEW c \in Conns, Record(c)
    PROVE  ScanInv'
  <1> DEFINE s == scan[c]
  <1> USE ImagesAssumption
  <1>1. /\ at[c] = "record" /\ UNCHANGED <<findings, digests, renewer, unclean>>
    BY DEF Record
  <1>2. /\ Of(c, findings) = {} /\ Looked(s) /\ reply[c] = "none"
        /\ c \in renewer => /\ s.status = "unavailable"
                            /\ c \notin unclean => Of(c, digests) = s.images
    BY <1>1, AtScan DEF FoundOK, DigestsOK
  <1>3. CASE /\ s.status = "unavailable" /\ Answer(c, "unavailable") /\ UNCHANGED scan
             /\ scans' = [scans EXCEPT ![c] = s.status]
    <2>1. FoundOK(c, "ended", "unavailable", s, s.status, findings)
      BY DEF FoundOK, ScanSteps
    <2>2. c \in renewer => DigestsOK(c, "ended", "unavailable", s, digests)
      BY <1>2 DEF DigestsOK
    <2>3. Moves(c, "ended", "unavailable", s, s.status, findings)
      BY <1>1, <1>3, <2>1, <2>2, AtScan, MovesTo DEF Moves, Steps, Replies
    <2> QED
      BY <2>3, ScanFrame
  <1>4. CASE /\ s.status # "unavailable" /\ Go(c, "findings") /\ Set(c, "left", s.found)
             /\ scans' = [scans EXCEPT ![c] = s.status]
    <2> DEFINE u == [s EXCEPT !["left"] = s.found]
    <2>1. scan' = [scan EXCEPT ![c] = u]
      BY <1>4 DEF Set
    <2>2. /\ u.images = s.images /\ u.left = s.found /\ u.status = s.status
          /\ u.found = s.found
      BY AtScan
    <2>3. u \in [images : SUBSET Images, left : SUBSET Images, found : SUBSET Vulnerable,
                 status : {"none", "complete", "failed", "unavailable"}]
      BY AtScan
    <2> HIDE DEF u
    <2>4. FoundOK(c, "findings", "none", u, s.status, findings)
      BY <1>2, <1>4, <2>2 DEF FoundOK, ScanSteps, Looked
    <2>5. c \notin renewer
      BY <1>2, <1>4
    <2>6. /\ at' = [at EXCEPT ![c] = "findings"] /\ reply' = [reply EXCEPT ![c] = "none"]
          /\ kind' = kind
      BY <1>2, <1>4, MovesTo
    <2>7. s.status \in {"none", "complete", "failed", "unavailable"}
      BY AtScan
    <2>8. Moves(c, "findings", "none", u, s.status, findings)
      BY <1>1, <1>4, <2>1, <2>3, <2>4, <2>5, <2>6, <2>7, AtScan DEF Moves, Steps, Replies
    <2> QED
      BY <2>8, ScanFrame
  <1>5. CASE Answer(c, "error") /\ UNCHANGED <<scans, scan>>
    <2>1. FoundOK(c, "ended", "error", s, scans[c], findings)
      BY DEF FoundOK, ScanSteps
    <2>2. c \in renewer => DigestsOK(c, "ended", "error", s, digests)
      BY DEF DigestsOK
    <2>3. Moves(c, "ended", "error", s, scans[c], findings)
      BY <1>1, <1>5, <2>1, <2>2, AtScan, MovesTo DEF Moves, Steps, Replies
    <2> QED
      BY <2>3, ScanFrame
  <1> QED
    BY <1>3, <1>4, <1>5 DEF Record

LEMMA FindingsStep ==
    ASSUME ScanInv, NEW c \in Conns, Findings(c)
    PROVE  ScanInv'
  <1> DEFINE s == scan[c]
             i == Next1(s.left)
  <1> USE ImagesAssumption
  <1>1. /\ at[c] = "findings" /\ UNCHANGED <<scans, digests, renewer, unclean>>
    BY DEF Findings
  <1>2. /\ s.left \subseteq s.found /\ Of(c, findings) = s.found \ s.left
        /\ scans[c] = s.status /\ s.status # "unavailable" /\ Looked(s)
        /\ reply[c] = "none" /\ c \notin renewer
    BY <1>1, AtScan DEF FoundOK, DigestsOK
  <1>3. CASE s.left = {}
    <2>1. Go(c, "clear") /\ UNCHANGED <<findings, scan>>
      BY <1>3 DEF Findings
    <2>2. FoundOK(c, "clear", "none", s, scans[c], findings)
      BY <1>2, <1>3 DEF FoundOK, ScanSteps
    <2>3. Moves(c, "clear", "none", s, scans[c], findings)
      BY <1>1, <1>2, <2>1, <2>2, AtScan, MovesTo DEF Moves, Steps, Replies
    <2> QED
      BY <2>3, ScanFrame
  <1>4. CASE /\ s.left # {} /\ findings' = findings \cup {<<c, i>>}
             /\ Set(c, "left", s.left \ {i}) /\ UNCHANGED reqVars
    <2>1. i \in s.left
      BY <1>4, AtScan, NextIsLeft
    <2>2. i \in Images
      BY <2>1, AtScan
    <2> HIDE DEF i
    <2> DEFINE u == [s EXCEPT !["left"] = s.left \ {i}]
               found == findings \cup {<<c, i>>}
    <2>3. scan' = [scan EXCEPT ![c] = u]
      BY <1>4 DEF Set
    <2>4. /\ u.images = s.images /\ u.left = s.left \ {i} /\ u.status = s.status
          /\ u.found = s.found
      BY AtScan
    <2>5. u \in [images : SUBSET Images, left : SUBSET Images, found : SUBSET Vulnerable,
                 status : {"none", "complete", "failed", "unavailable"}]
      BY AtScan
    <2>6. /\ Of(c, found) = Of(c, findings) \cup {i}
          /\ \A d \in Conns \ {c} : Of(d, found) = Of(d, findings)
      BY <2>2, RowAdded
    <2>7. found \subseteq Conns \X Images
      BY <2>2, AtScan
    <2> HIDE DEF u, found, s
    <2>8. Of(c, found) = u.found \ u.left
      BY <1>2, <2>1, <2>4, <2>6
    <2>9. FoundOK(c, "findings", "none", u, scans[c], found)
      BY <1>2, <2>4, <2>8 DEF FoundOK, ScanSteps, Looked
    <2>10. findings' = found
      BY <1>4 DEF found
    <2>11. /\ at' = [at EXCEPT ![c] = "findings"] /\ reply' = [reply EXCEPT ![c] = "none"]
           /\ kind' = kind /\ scans' = [scans EXCEPT ![c] = scans[c]]
      <3>1. UNCHANGED scans
        BY <1>1
      <3> QED
        BY <1>1, <1>2, <1>4, <3>1, MovesTo
    <2>12. Moves(c, "findings", "none", u, scans[c], found)
      BY <1>1, <1>2, <2>3, <2>5, <2>6, <2>7, <2>9, <2>10, <2>11, AtScan
         DEF Moves, Steps, Replies
    <2> QED
      BY <2>12, ScanFrame
  <1>5. CASE Answer(c, "error") /\ UNCHANGED <<findings, scan>>
    <2>1. FoundOK(c, "ended", "error", s, scans[c], findings)
      BY DEF FoundOK, ScanSteps
    <2>2. Moves(c, "ended", "error", s, scans[c], findings)
      BY <1>1, <1>2, <1>5, <2>1, AtScan, MovesTo DEF Moves, Steps, Replies
    <2> QED
      BY <2>2, ScanFrame
  <1> QED
    BY <1>3, <1>4, <1>5 DEF Findings

LEMMA PackagesStep ==
    ASSUME ScanInv, NEW c \in Conns, Packages(c)
    PROVE  ScanInv'
  <1> DEFINE s == scan[c]
  <1>1. /\ at[c] = "packages" /\ UNCHANGED <<scans, findings, digests, scan, renewer, unclean>>
    BY DEF Packages
  <1>2. /\ IF s.status = "unavailable"
           THEN Of(c, findings) = {}
           ELSE scans[c] = s.status /\ Of(c, findings) = s.found /\ Looked(s)
        /\ reply[c] = "none"
        /\ c \in renewer /\ c \notin unclean => Of(c, digests) = s.images
    BY <1>1, AtScan DEF FoundOK, DigestsOK
  <1>3. CASE s.status = "unavailable"
    <2>1. Go(c, "record")
      BY <1>3 DEF Packages
    <2>2. FoundOK(c, "record", "none", s, scans[c], findings)
      BY <1>2, <1>3 DEF FoundOK, ScanSteps, Looked
    <2>3. c \in renewer => DigestsOK(c, "record", "none", s, digests)
      BY <1>2, <1>3 DEF DigestsOK
    <2>4. Moves(c, "record", "none", s, scans[c], findings)
      BY <1>1, <1>2, <2>1, <2>2, <2>3, AtScan, MovesTo DEF Moves, Steps, Replies
    <2> QED
      BY <2>4, ScanFrame
  <1>4. CASE s.status # "unavailable"
    <2>1. Answer(c, s.status)
      BY <1>4 DEF Packages
    <2>2. FoundOK(c, "ended", s.status, s, scans[c], findings)
      BY <1>2, <1>4 DEF FoundOK, ScanSteps, Looked
    <2>3. c \in renewer => DigestsOK(c, "ended", s.status, s, digests)
      BY <1>2, <1>4 DEF DigestsOK
    <2>4. s.status \in Replies
      BY AtScan DEF Replies
    <2>5. Moves(c, "ended", s.status, s, scans[c], findings)
      BY <1>1, <2>1, <2>2, <2>3, <2>4, AtScan, MovesTo DEF Moves, Steps
    <2> QED
      BY <2>5, ScanFrame
  <1> QED
    BY <1>3, <1>4

(* A step of one scan on the digests.                                        *)
LEMMA DigestFrame ==
    ASSUME ScanInv, NEW c \in Conns, NEW s,
           s \in [images : SUBSET Images, left : SUBSET Images, found : SUBSET Vulnerable,
                  status : {"none", "complete", "failed", "unavailable"}],
           at' = [at EXCEPT ![c] = "digests"], scan' = [scan EXCEPT ![c] = s],
           UNCHANGED <<kind, reply, scans, findings>>,
           digests' \subseteq Conns \X Images, renewer' \subseteq Conns,
           FoundOK(c, "digests", reply[c], s, scans[c], findings),
           Renewed'
    PROVE  ScanInv'
  <1>1. ScanType' /\ (renewer \subseteq Conns)'
    BY DEF ScanInv, ScanType, Steps
  <1>2. ASSUME NEW d \in Conns
        PROVE  FoundOK(d, at[d], reply[d], scan[d], scans[d], findings)'
    <2>1. /\ at'[d] = IF d = c THEN "digests" ELSE at[d]
          /\ scan'[d] = IF d = c THEN s ELSE scan[d]
          /\ reply' = reply /\ scans' = scans /\ findings' = findings
      BY DEF ScanInv, ScanType
    <2>2. CASE d = c
      BY <2>1, <2>2
    <2>3. CASE d # c
      <3>1. FoundOK(d, at[d], reply[d], scan[d], scans[d], findings)
        BY DEF ScanInv
      <3> QED
        BY <2>1, <2>3, <3>1
    <2> QED
      BY <2>2, <2>3
  <1> QED
    BY <1>1, <1>2 DEF ScanInv

LEMMA ClearStep ==
    ASSUME ScanInv, NEW c \in Conns, Clear(c)
    PROVE  ScanInv'
  <1> DEFINE s == scan[c]
             u == [s EXCEPT !["left"] = s.images]
  <1>1. /\ at[c] = "clear" /\ UNCHANGED <<kind, reply, scans, findings>>
        /\ at' = [at EXCEPT ![c] = "digests"] /\ scan' = [scan EXCEPT ![c] = u]
    BY DEF Clear, Go, Set
  <1>2. /\ u.images = s.images /\ u.left = s.images /\ u.status = s.status
        /\ u.found = s.found
    BY AtScan
  <1>3. u \in [images : SUBSET Images, left : SUBSET Images, found : SUBSET Vulnerable,
               status : {"none", "complete", "failed", "unavailable"}]
    BY AtScan
  <1> HIDE DEF u
  <1>4. FoundOK(c, "digests", reply[c], u, scans[c], findings)
    BY <1>1, <1>2, AtScan DEF FoundOK, ScanSteps, Looked
  <1>5. /\ digests \subseteq Conns \X Images /\ renewer \subseteq Conns
        /\ digests' = {} \/ digests' = digests
    BY DEF ScanInv, ScanType, Clear
  <1>6. ASSUME NEW d \in Conns
        PROVE  /\ at'[d] = IF d = c THEN "digests" ELSE at[d]
               /\ scan'[d] = IF d = c THEN u ELSE scan[d]
    BY <1>1 DEF ScanInv, ScanType
  <1>7. CASE digests' = {}
    <2>1. renewer' = {c} /\ unclean' = {d \in Conns : at[d] = "digests"}
      BY <1>7 DEF Clear, Renewing
    <2>2. Of(c, digests') = {}
      BY <1>7 DEF Of
    <2>3. DigestsOK(c, at[c], reply[c], scan[c], digests)'
      <3>1. at'[c] = "digests" /\ scan'[c] = u
        BY <1>6
      <3> QED
        BY <1>1, <1>2, <1>4, <2>2, <3>1 DEF DigestsOK, FoundOK
    <2>4. Renewed'
      BY <1>6, <1>7, <2>1, <2>3 DEF Renewed
    <2>5. renewer' \subseteq Conns /\ digests' \subseteq Conns \X Images
      BY <1>7, <2>1
    <2> QED
      BY <1>1, <1>3, <1>4, <2>4, <2>5, DigestFrame
  <1>8. CASE digests' # {}
    <2>1. digests' = digests /\ renewer' = renewer /\ unclean' = unclean \cup {c}
      BY <1>5, <1>8 DEF Clear
    <2>2. Renewed'
      <3> SUFFICES ASSUME NEW d \in renewer'
                   PROVE  /\ renewer' = {d}
                          /\ DigestsOK(d, at[d], reply[d], scan[d], digests)'
                          /\ \A r \in digests' : r[1] \in unclean' \cup {d}
                          /\ \A e \in Conns : at'[e] = "digests" => e \in unclean' \cup {d}
        BY DEF Renewed
      <3>1. /\ d \in Conns /\ renewer = {d}
            /\ DigestsOK(d, at[d], reply[d], scan[d], digests)
            /\ \A r \in digests : r[1] \in unclean \cup {d}
            /\ \A e \in Conns : at[e] = "digests" => e \in unclean \cup {d}
        BY <1>5, <2>1 DEF ScanInv, Renewed
      <3>2. d # c
        BY <1>1, <3>1 DEF DigestsOK
      <3>3. at'[d] = at[d] /\ scan'[d] = scan[d]
        BY <1>6, <3>1, <3>2
      <3>4. DigestsOK(d, at[d], reply[d], scan[d], digests)'
        BY <1>1, <2>1, <3>1, <3>3 DEF DigestsOK
      <3> QED
        BY <1>6, <2>1, <3>1, <3>4
    <2> QED
      BY <1>1, <1>3, <1>4, <1>5, <2>1, <2>2, DigestFrame
  <1> QED
    BY <1>7, <1>8

LEMMA DigestsStep ==
    ASSUME ScanInv, NEW c \in Conns, Digests(c)
    PROVE  ScanInv'
  <1> DEFINE s == scan[c]
             i == Next1(s.left)
  <1>1. at[c] = "digests" /\ UNCHANGED <<scans, findings, packages, renewer>>
    BY DEF Digests
  <1>2. /\ FoundOK(c, "digests", reply[c], s, scans[c], findings)
        /\ c \in renewer => DigestsOK(c, "digests", reply[c], s, digests)
    BY <1>1, AtScan
  <1>3. CASE s.left = {}
    <2>1. Go(c, "packages") /\ UNCHANGED <<digests, scan, unclean>>
      BY <1>3 DEF Digests
    <2>2. FoundOK(c, "packages", reply[c], s, scans[c], findings)
      BY <1>2 DEF FoundOK, ScanSteps
    <2>3. c \in renewer => DigestsOK(c, "packages", reply[c], s, digests)
      BY <1>2, <1>3 DEF DigestsOK, FoundOK
    <2>4. Moves(c, "packages", reply[c], s, scans[c], findings)
      BY <1>1, <2>1, <2>2, <2>3, AtScan, MovesTo DEF Moves, Steps
    <2> QED
      BY <2>4, ScanFrame
  <1>4. CASE s.left # {}
    <2> DEFINE u == [s EXCEPT !["left"] = s.left \ {i}]
    <2>1. i \in s.left /\ i \in Images
      <3>1. s.left \subseteq Images
        BY AtScan
      <3> QED
        BY <1>4, <3>1, NextIsLeft
    <2>2. /\ \/ digests' = digests \cup {<<c, i>>} /\ unclean' = unclean
             \/ digests' = digests /\ unclean' = unclean \cup {c}
          /\ scan' = [scan EXCEPT ![c] = u] /\ UNCHANGED reqVars
      BY <1>4 DEF Digests, Set
    <2> HIDE DEF i
    <2>3. /\ u.images = s.images /\ u.left = s.left \ {i} /\ u.status = s.status
          /\ u.found = s.found
      BY AtScan
    <2>4. u \in [images : SUBSET Images, left : SUBSET Images, found : SUBSET Vulnerable,
                 status : {"none", "complete", "failed", "unavailable"}]
      BY AtScan
    <2> HIDE DEF u
    <2>5. FoundOK(c, "digests", reply[c], u, scans[c], findings)
      BY <1>2, <2>3 DEF FoundOK, ScanSteps, Looked
    <2>6. /\ digests' \subseteq Conns \X Images /\ renewer' \subseteq Conns
          /\ at' = [at EXCEPT ![c] = "digests"] /\ UNCHANGED <<kind, reply>>
      BY <1>1, <2>1, <2>2 DEF ScanInv, ScanType, reqVars
    <2>7. ASSUME NEW d \in Conns
          PROVE  at'[d] = at[d] /\ scan'[d] = IF d = c THEN u ELSE scan[d]
      BY <2>2 DEF ScanInv, ScanType, reqVars
    <2>8. Renewed'
      <3> SUFFICES ASSUME NEW d \in renewer'
                   PROVE  /\ renewer' = {d}
                          /\ DigestsOK(d, at[d], reply[d], scan[d], digests)'
                          /\ \A r \in digests' : r[1] \in unclean' \cup {d}
                          /\ \A e \in Conns : at'[e] = "digests" => e \in unclean' \cup {d}
        BY DEF Renewed
      <3>1. /\ d \in Conns /\ renewer = {d} /\ renewer' = {d}
            /\ DigestsOK(d, at[d], reply[d], scan[d], digests)
            /\ \A r \in digests : r[1] \in unclean \cup {d}
            /\ \A e \in Conns : at[e] = "digests" => e \in unclean \cup {d}
        BY <1>1, <2>6 DEF ScanInv, Renewed
      <3>2. \A r \in digests' : r[1] \in unclean' \cup {d}
        BY <1>1, <2>2, <3>1
      <3>3. \A e \in Conns : at'[e] = "digests" => e \in unclean' \cup {d}
        BY <2>2, <2>7, <3>1
      <3>4. CASE d = c
        <4>1. c \notin unclean' => /\ digests' = digests \cup {<<c, i>>} /\ c \notin unclean
                                   /\ s.left \subseteq s.images
                                   /\ Of(c, digests) = s.images \ s.left
          BY <1>1, <2>2, <3>1, <3>4 DEF DigestsOK
        <4>2. c \notin unclean' => u.left \subseteq u.images
                                   /\ Of(c, digests') = u.images \ u.left
          <5> SUFFICES ASSUME c \notin unclean'
                       PROVE  u.left \subseteq u.images /\ Of(c, digests') = u.images \ u.left
            OBVIOUS
          <5>1. Of(c, digests') = Of(c, digests) \cup {i}
            BY <2>1, <4>1, RowAdded
          <5> HIDE DEF s
          <5> QED
            BY <2>1, <2>3, <4>1, <5>1
        <4>3. reply[c] = "none"
          BY <1>2 DEF FoundOK
        <4>4. at'[c] = "digests" /\ scan'[c] = u /\ reply'[c] = "none"
          BY <1>1, <2>6, <2>7, <4>3
        <4>5. DigestsOK(c, at[c], reply[c], scan[c], digests)'
          BY <4>2, <4>4 DEF DigestsOK
        <4> QED
          BY <3>1, <3>2, <3>3, <3>4, <4>5
      <3>5. CASE d # c
        <4>1. Of(d, digests') = Of(d, digests)
          <5>1. CASE digests' = digests \cup {<<c, i>>}
            BY <3>5, <5>1 DEF Of
          <5>2. CASE digests' = digests
            BY <5>2 DEF Of
          <5> QED
            BY <2>2, <5>1, <5>2
        <4>2. at'[d] = at[d] /\ scan'[d] = scan[d] /\ reply'[d] = reply[d]
          BY <2>6, <2>7, <3>1, <3>5
        <4>3. d \notin unclean' => d \notin unclean
          BY <2>2
        <4>4. DigestsOK(d, at[d], reply[d], scan[d], digests)'
          BY <3>1, <4>1, <4>2, <4>3 DEF DigestsOK
        <4> QED
          BY <3>1, <3>2, <3>3, <4>4
      <3> QED
        BY <3>4, <3>5
    <2> QED
      BY <1>1, <2>2, <2>4, <2>5, <2>6, <2>8, DigestFrame
  <1> QED
    BY <1>3, <1>4

-----------------------------------------------------------------------------
(* The specification. *)

LEMMA InitScan == Init => ScanInv
  <1> SUFFICES ASSUME Init PROVE ScanInv
    OBVIOUS
  <1>1. ScanType /\ renewer = {}
    BY MixesAssumption DEF Init, ScansInit, ScanType, Steps, Replies
  <1>2. ASSUME NEW c \in Conns
        PROVE  FoundOK(c, at[c], reply[c], scan[c], scans[c], findings)
    <2>1. /\ at[c] = "idle" /\ reply[c] = "none" /\ scan[c] = Blank /\ findings = {}
      BY DEF Init, ScansInit, Blank
    <2> QED
      BY <2>1 DEF FoundOK, Of, ScanSteps
  <1> QED
    BY <1>1, <1>2 DEF ScanInv, Renewed

LEMMA NextScan == ScanInv /\ [Next]_vars => ScanInv'
  <1> SUFFICES ASSUME ScanInv, [Next]_vars PROVE ScanInv'
    OBVIOUS
  <1>1. CASE UNCHANGED vars
    BY <1>1, SameCalm DEF vars, reqVars
  <1>2. ASSUME NEW c \in Conns,
               \/ Connect(c) \/ FirstByte(c) \/ Quiet(c) \/ LateHeader(c) \/ Body(c)
               \/ Written(c) \/ Close(c)
        PROVE  ScanInv'
    BY <1>2, ConnectionStep
  <1>3. ASSUME NEW c \in Conns, Scan(c) PROVE ScanInv'
    BY <1>3, ScannerStep, AnalyseStep, RecordStep, FindingsStep, ClearStep, DigestsStep,
       PackagesStep
       DEF Scan, ScanStep
  <1>4. ASSUME NEW c \in Conns, Serve(c), ~Scan(c) PROVE ScanInv'
    BY <1>4, ConnectionStep, OtherHandlerStep DEF Serve
  <1>5. ASSUME Signal \/ Exit \/ AcceptFails \/ Crash \/ Start \/ Finished PROVE ScanInv'
    BY <1>5, ProcessStep
  <1> QED
    BY <1>1, <1>2, <1>3, <1>4, <1>5 DEF Next

(* ScansStored: whatever statements fail, whoever scans beside it, and       *)
(* however often the process ends, a scan answered as complete has every     *)
(* finding stored, and the last scan to clear the digests has left one row   *)
(* for each of its images.                                                   *)
THEOREM ScansAlwaysStored == Spec => []ScansStored
  <1>1. ScanInv => ScansStored
    <2> SUFFICES ASSUME ScanInv PROVE ScansStored
      OBVIOUS
    <2>1. ASSUME NEW c \in Conns, reply[c] = "complete"
          PROVE  /\ scans[c] = "complete"
                 /\ {i \in Images : <<c, i>> \in findings} = scan[c].images \cap Vulnerable
      BY <2>1, AtScan DEF FoundOK, Of
    <2>2. ASSUME NEW c \in renewer \ unclean,
                 reply[c] \in {"complete", "failed", "unavailable"}
          PROVE  /\ {i \in Images : <<c, i>> \in digests} = scan[c].images
                 /\ \A row \in digests : row[1] \in unclean \cup {c}
      BY <2>2 DEF ScanInv, Renewed, DigestsOK, Of
    <2> QED
      BY <2>1, <2>2 DEF ScansStored
  <1> QED
    BY <1>1, InitScan, NextScan, PTL DEF Spec

-----------------------------------------------------------------------------
(* Types. *)

PutSteps == {"body", "pick", "save", "assign"}
LogSteps == {"expire", "unlink", "prune", "read"}

(* A request is at the steps of its kind, and saves only what it was asked. *)
Task(c) ==
    /\ at[c] \in PutSteps => kind[c] = "put"
    /\ at[c] \in ScanSteps => kind[c] = "scan"
    /\ at[c] \in LogSteps => kind[c] = "history"
    /\ at[c] = "save" => Asked(c)
    /\ at[c] # "ended" => reply[c] = "none"

WebInv == ScanInv /\ TypeOK /\ \A c \in Conns : Task(c)

(* What a step outside its handler does to a connection.                    *)
Passes(c) ==
    \/ at'[c] = at[c] /\ reply'[c] = reply[c]
    \/ /\ at[c] # "ended" /\ at'[c] = "ended"
       /\ reply'[c] \in {"none", "refused", "redirect"}
    \/ /\ at[c] \notin PutSteps \cup LogSteps \cup {"ended"}
       /\ at'[c] \notin {"pick", "save", "assign", "unlink", "prune", "read"}
       /\ at'[c] # "ended" => reply'[c] = "none"
       /\ reply'[c] \notin {"saved", "history"}
       /\ kind[c] = "history" => reply'[c] # "error"
       /\ at'[c] \in ScanSteps => kind[c] = "scan"
       /\ at'[c] = "body" => kind[c] = "put"
       /\ at'[c] = "expire" => kind[c] = "history"

(* A step of other components: settings and logs are left alone.            *)
Aside ==
    /\ UNCHANGED <<setVars, histVars, kind>>
    /\ proc' \in {"down", "serving", "draining"} /\ starts' = starts
    /\ Up' => Up
    /\ packages' \subseteq Conns /\ unclean' \subseteq Conns
    /\ \A c \in Conns : Passes(c)
    /\ \A c \in Conns : Up' /\ at[c] = "assign" => at'[c] = "assign"

(* A step of the handler of c leaves the other connections as they are.     *)
Own(c) ==
    /\ \A d \in Conns \ {c} : at'[d] = at[d] /\ reply'[d] = reply[d]
    /\ kind' = kind

LEMMA GoOwn ==
    ASSUME WebInv, NEW c \in Conns, NEW step, Go(c, step)
    PROVE  Own(c) /\ at'[c] = step /\ reply'[c] = reply[c]
  BY DEF Go, Own, WebInv, TypeOK

LEMMA AnswerOwn ==
    ASSUME WebInv, NEW c \in Conns, NEW r, Answer(c, r)
    PROVE  Own(c) /\ at'[c] = "ended" /\ reply'[c] = r
  BY DEF Answer, Own, WebInv, TypeOK

LEMMA SameOwn ==
    ASSUME NEW c \in Conns, UNCHANGED reqVars
    PROVE  Own(c) /\ at'[c] = at[c] /\ reply'[c] = reply[c]
  BY DEF reqVars, Own

LEMMA ScanPasses ==
    ASSUME WebInv, NEW c \in Conns, ScanStep(c)
    PROVE  /\ \A d \in Conns : Passes(d) /\ (at[d] = "assign" => at'[d] = "assign")
           /\ kind' = kind /\ packages' \subseteq Conns /\ unclean' \subseteq Conns
  <1> USE DEF ScanSteps, PutSteps, LogSteps
  <1>1. packages \subseteq Conns /\ unclean \subseteq Conns
    BY DEF WebInv, TypeOK, ScansTypeOK
  <1>2. at[c] \in ScanSteps => kind[c] = "scan" /\ reply[c] = "none"
    BY DEF WebInv, Task
  <1>3. scan[c].status \in {"none", "complete", "failed", "unavailable"}
    BY DEF WebInv, ScanInv, ScanType
  <1>4. ASSUME Own(c), at[c] \in ScanSteps,
               \/ at'[c] \in ScanSteps /\ reply'[c] = reply[c]
               \/ /\ at'[c] = "ended"
                  /\ reply'[c] \in {"none", "error", "complete", "failed", "unavailable"}
        PROVE  /\ \A d \in Conns : Passes(d) /\ (at[d] = "assign" => at'[d] = "assign")
               /\ kind' = kind
    <2>1. Passes(c)
      BY <1>2, <1>4 DEF Passes
    <2> QED
      BY <1>4, <2>1 DEF Own, Passes
  <1>5. CASE Scanner(c)
    BY <1>1, <1>4, <1>5, GoOwn, AnswerOwn DEF Scanner
  <1>6. CASE Analyse(c)
    <2>1. at[c] = "analyse" /\ (Go(c, "record") \/ UNCHANGED reqVars)
      BY <1>6 DEF Analyse
    <2> QED
      BY <1>1, <1>4, <1>6, <2>1, GoOwn, SameOwn DEF Analyse
  <1>7. CASE Record(c)
    BY <1>1, <1>4, <1>7, GoOwn, AnswerOwn DEF Record
  <1>8. CASE Findings(c)
    BY <1>1, <1>4, <1>8, GoOwn, AnswerOwn, SameOwn DEF Findings
  <1>9. CASE Clear(c)
    BY <1>1, <1>4, <1>9, GoOwn DEF Clear, Renewing
  <1>10. CASE Digests(c)
    <2>1. /\ at[c] = "digests" /\ (Go(c, "packages") \/ UNCHANGED reqVars)
          /\ packages' = packages /\ unclean' \in {unclean, unclean \cup {c}}
      BY <1>10 DEF Digests
    <2> QED
      BY <1>1, <1>4, <2>1, GoOwn, SameOwn
  <1>11. CASE Packages(c)
    <2>1. Go(c, "record") \/ Answer(c, scan[c].status)
      BY <1>11 DEF Packages
    <2> QED
      BY <1>1, <1>3, <1>4, <1>11, <2>1, GoOwn, AnswerOwn DEF Packages
  <1> QED
    BY <1>5, <1>6, <1>7, <1>8, <1>9, <1>10, <1>11 DEF ScanStep

LEMMA ListenerPasses ==
    ASSUME WebInv, NEW c \in Conns,
           \/ Connect(c) \/ MuxAccept(c) \/ FirstByte(c) \/ SniffTimeout(c)
           \/ Deliver(c) \/ Accept(c) \/ HeaderTimeout(c) \/ Redirect(c) \/ Header(c)
           \/ Quiet(c) \/ LateHeader(c) \/ Written(c) \/ Close(c)
           \/ Body(c) /\ ~BeginPut(c)
    PROVE  Aside
  <1> USE DEF ScanSteps, PutSteps, LogSteps
  <1>1. UNCHANGED <<setVars, histVars, scanVars, procVars>>
    BY DEF Connect, MuxAccept, FirstByte, SniffTimeout, Deliver, Accept, HeaderTimeout,
       Redirect, Header, Quiet, LateHeader, Written, Close, Body, others
  <1>2. packages' \subseteq Conns /\ unclean' \subseteq Conns
    BY <1>1 DEF scanVars, WebInv, TypeOK, ScansTypeOK
  <1>3. /\ proc' \in {"down", "serving", "draining"} /\ starts' = starts
        /\ Up' => Up
    BY <1>1 DEF procVars, WebInv, TypeOK, Up
  <1>4. Task(c) /\ kind[c] \in Kinds
    BY DEF WebInv, ScanInv, ScanType
  <1>5. ASSUME Own(c), Passes(c), at[c] # "assign" PROVE Aside
    BY <1>1, <1>2, <1>3, <1>5 DEF Aside, Own, Passes
  <1>6. ASSUME NEW step \in {"backlog", "sniff", "deliver", "queued", "request", "quiet"},
               Go(c, step),
               at[c] \notin PutSteps \cup LogSteps \cup ScanSteps \cup {"ended"}
        PROVE  Aside
    BY <1>4, <1>5, <1>6, GoOwn DEF Passes, Task
  <1>7. ASSUME NEW r \in {"none", "refused", "redirect"}, Answer(c, r),
               at[c] \notin {"assign", "ended"}
        PROVE  Aside
    BY <1>5, <1>7, AnswerOwn DEF Passes
  <1>8. CASE Connect(c) \/ MuxAccept(c) \/ FirstByte(c) \/ Accept(c) \/ Quiet(c)
    BY <1>6, <1>8 DEF Connect, MuxAccept, FirstByte, Accept, Quiet
  <1>9. CASE SniffTimeout(c) \/ HeaderTimeout(c) \/ Redirect(c)
    BY <1>7, <1>9 DEF SniffTimeout, HeaderTimeout, Redirect
  <1>10. CASE Deliver(c)
    BY <1>6, <1>7, <1>10 DEF Deliver
  <1>11. CASE Body(c) /\ ~BeginPut(c)
    BY <1>7, <1>11 DEF Body
  <1>12. ASSUME Handle(c), at[c] \in {"request", "quiet"} PROVE Aside
    <2>1. at[c] \in {"request", "quiet"} /\ kind[c] # "plain"
      BY <1>12 DEF Handle
    <2>2. CASE Answer(c, "refused")
      BY <1>7, <2>1, <2>2
    <2>3. CASE ~Answer(c, "refused")
      <3>1. \/ kind[c] = "put" /\ Go(c, "body")
            \/ kind[c] = "scan" /\ Go(c, "scanner")
            \/ kind[c] = "history" /\ Go(c, "expire")
        BY <1>4, <1>12, <2>1, <2>3 DEF Handle, Kinds
      <3> QED
        BY <1>4, <1>5, <2>1, <3>1, GoOwn DEF Passes, Task
    <2> QED
      BY <2>2, <2>3
  <1>13. CASE Header(c)
    BY <1>12, <1>13 DEF Header
  <1>14. CASE LateHeader(c)
    BY <1>7, <1>12, <1>14 DEF LateHeader
  <1>15. CASE Written(c) \/ Close(c)
    <2>1. UNCHANGED <<kind, at, reply>>
      BY <1>15 DEF Written, Close, GoOn
    <2> QED
      BY <1>1, <1>2, <1>3, <2>1 DEF Aside, Passes
  <1> QED
    BY <1>8, <1>9, <1>10, <1>11, <1>13, <1>14, <1>15

LEMMA ProcessPasses ==
    ASSUME WebInv, Signal \/ Exit \/ AcceptFails \/ Crash \/ UNCHANGED vars
    PROVE  Aside
  <1> USE DEF ScanSteps, PutSteps, LogSteps
  <1>1. UNCHANGED <<setVars, histVars, scanVars, kind, reply, starts>>
    BY DEF Signal, Exit, AcceptFails, Crash, Down, vars, reqVars, procVars
  <1>2. packages' \subseteq Conns /\ unclean' \subseteq Conns
    BY <1>1 DEF scanVars, WebInv, TypeOK, ScansTypeOK
  <1>3. /\ proc' \in {"down", "serving", "draining"}
        /\ Up' => Up
    BY DEF Signal, Exit, AcceptFails, Crash, Down, vars, procVars, WebInv, TypeOK, Up
  <1>4. ASSUME NEW c \in Conns PROVE Passes(c)
    <2>1. at'[c] = at[c] \/ at'[c] = "ended"
      BY DEF Signal, Exit, AcceptFails, Crash, Down, vars, reqVars
    <2> QED
      BY <1>1, <2>1 DEF Passes, WebInv, Task
  <1>5. ASSUME NEW c \in Conns, Up', at[c] = "assign" PROVE at'[c] = "assign"
    BY <1>5 DEF Signal, Exit, AcceptFails, Crash, Down, vars, reqVars, Up
  <1> QED
    BY <1>1, <1>2, <1>3, <1>4, <1>5 DEF Aside

(* The steps there are. *)
LEMMA Steps4 ==
    ASSUME WebInv, [Next]_vars
    PROVE  \/ Aside
           \/ Start
           \/ \E c \in Conns : Settle(c) \/ History(c) \/ (Body(c) /\ BeginPut(c))
  <1>1. CASE UNCHANGED vars \/ Signal \/ Exit \/ AcceptFails \/ Crash \/ Finished
    BY <1>1, ProcessPasses DEF Finished
  <1>2. ASSUME NEW c \in Conns, Scan(c) PROVE Aside
    <2>1. /\ \A d \in Conns : Passes(d) /\ (at[d] = "assign" => at'[d] = "assign")
          /\ kind' = kind /\ packages' \subseteq Conns /\ unclean' \subseteq Conns
      BY <1>2, ScanPasses DEF Scan
    <2>2. UNCHANGED <<setVars, histVars, procVars>>
      BY <1>2 DEF Scan
    <2> QED
      BY <2>1, <2>2 DEF Aside, procVars, Up, WebInv, TypeOK
  <1>3. ASSUME NEW c \in Conns,
               \/ Connect(c) \/ FirstByte(c) \/ Quiet(c) \/ LateHeader(c) \/ Body(c)
               \/ Written(c) \/ Close(c) \/ Serve(c)
        PROVE  \/ Aside
               \/ Settle(c) \/ History(c) \/ (Body(c) /\ BeginPut(c))
    BY <1>2, <1>3, ListenerPasses DEF Serve
  <1> QED
    BY <1>1, <1>3 DEF Next

-----------------------------------------------------------------------------
(* Values. *)

LEMMA WrapValue == ASSUME NEW n \in Int PROVE Wrap(n) \in Values
  <1> DEFINE p == 2^(Width - 1)
             q == 2^Width
  <1>1. p \in Nat \ {0} /\ q = 2 * p
    BY SettingsAssumption
  <1>2. Wrap(n) = ((n + p) % q) - p /\ Values = (-p)..(p - 1)
    BY DEF Wrap, Values
  <1> HIDE DEF p, q
  <1>3. (n + p) % q \in 0..(q - 1)
    BY <1>1
  <1> QED
    BY <1>1, <1>2, <1>3

LEMMA QuotientValue == ASSUME NEW n \in Values PROVE Quotient(n) \in Values
  <1> DEFINE p == 2^(Width - 1)
  <1>1. p \in Nat \ {0} /\ Hour \in Nat \ {0}
    BY SettingsAssumption
  <1>2. Values = (-p)..(p - 1)
    BY DEF Values
  <1> HIDE DEF p
  <1>3. ASSUME NEW m \in Nat PROVE m \div Hour \in Nat /\ m \div Hour <= m
    <2>1. PICK k \in Nat, r \in Nat : m = k * Hour + r /\ m \div Hour = k
      <3>1. /\ m \div Hour \in Int /\ m % Hour \in 0..(Hour - 1)
            /\ m = Hour * (m \div Hour) + (m % Hour)
        BY <1>1, <1>3
      <3>2. m \div Hour >= 0
        BY <1>1, <1>3
      <3> QED
        BY <1>1, <3>1, <3>2
    <2>2. k * Hour >= k
      BY <1>1
    <2> QED
      BY <1>1, <2>1, <2>2
  <1>4. n \in Int
    BY <1>1, <1>2
  <1>5. CASE n >= 0
    BY <1>1, <1>2, <1>3, <1>4, <1>5 DEF Quotient
  <1>6. CASE ~(n >= 0)
    <2>1. -n \in Nat /\ -n <= p
      BY <1>1, <1>2, <1>4, <1>6
    <2>2. (-n) \div Hour \in Nat /\ (-n) \div Hour <= -n
      BY <1>3, <2>1
    <2> QED
      BY <1>1, <1>2, <1>4, <1>6, <2>1, <2>2 DEF Quotient
  <1> QED
    BY <1>5, <1>6

LEMMA InForceValue == ASSUME NEW w, NEW v \in Values PROVE InForce(w, v) \in Values
  <1>1. v \in Int /\ Hour \in Nat
    BY SettingsAssumption DEF Values
  <1>2. v * Hour \in Int
    BY <1>1
  <1> QED
    BY <1>2, WrapValue DEF InForce

LEMMA SectionWords == ASSUME NEW s \in Sections PROVE WordsOf[s] \subseteq Words
  BY DEF Words

LEMMA ShownValue ==
    ASSUME SettingsTypeOK, NEW w \in Words
    PROVE  Shown(w) \in Values
  BY QuotientValue DEF SettingsTypeOK, Shown

(* The locals of a settings request, and what the handler does to them.      *)
PutValues == (UNION {[WordsOf[s] -> Values] : s \in Sections}) \cup {<<>>}
Puts == [given : Payloads \cup {<<>>}, next : 1..(Len(Order) + 1),
         value : PutValues, words : SUBSET Words]

LEMMA PutValue ==
    ASSUME NEW s \in Sections, NEW v \in [WordsOf[s] -> Values]
    PROVE  v \in PutValues
  BY DEF PutValues

LEMMA PutUpdates ==
    ASSUME NEW p \in [Conns -> Puts], NEW c \in Conns
    PROVE  /\ \A g \in Payloads : [p EXCEPT ![c].given = g] \in [Conns -> Puts]
           /\ \A n \in 1..(Len(Order) + 1) : [p EXCEPT ![c].next = n] \in [Conns -> Puts]
           /\ \A v \in PutValues : [p EXCEPT ![c].value = v] \in [Conns -> Puts]
           /\ \A W \in SUBSET Words : [p EXCEPT ![c].words = W] \in [Conns -> Puts]
  <1>1. \A g \in Payloads : [p[c] EXCEPT !.given = g] \in Puts
    BY DEF Puts
  <1>2. \A n \in 1..(Len(Order) + 1) : [p[c] EXCEPT !.next = n] \in Puts
    BY DEF Puts
  <1>3. \A v \in PutValues : [p[c] EXCEPT !.value = v] \in Puts
    BY DEF Puts
  <1>4. \A W \in SUBSET Words : [p[c] EXCEPT !.words = W] \in Puts
    BY DEF Puts
  <1> QED
    BY <1>1, <1>2, <1>3, <1>4

LEMMA PutFields ==
    ASSUME NEW r \in Puts
    PROVE  /\ r.given \in Payloads \cup {<<>>} /\ r.next \in 1..(Len(Order) + 1)
           /\ r.value \in PutValues /\ r.words \subseteq Words
  BY DEF Puts

LEMMA PutType == SettingsTypeOK => put \in [Conns -> Puts]
  BY DEF SettingsTypeOK, Puts, PutValues

LEMMA SettingsParts ==
    ASSUME put' \in [Conns -> Puts],
           \A s \in Sections : table'[s] # NoRow => table'[s] \in [WordsOf[s] -> Values],
           DOMAIN table' = Sections,
           memory' \in [Words -> Values],
           \A c \in Conns :
            /\ at'[c] \in {"save", "assign"} =>
                /\ put'[c].next <= Len(Order)
                /\ put'[c].value \in [WordsOf[Section(c)'] -> Values]
            /\ at'[c] = "assign" =>
                put'[c].words # {} /\ put'[c].words \subseteq WordsOf[Section(c)'],
           mixed' \subseteq Sections,
           author' \in [Sections -> Conns \cup {NoRow}]
    PROVE  SettingsTypeOK'
  BY DEF SettingsTypeOK, Puts, PutValues

(* The file that comes first, and the oldest, are of the listing.           *)
LEMMA LeastIn ==
    ASSUME NEW S, S \subseteq Nat, S # {}
    PROVE  \E i \in S : \A j \in S : i <= j
  <1>1. PICK i \in S : \A j \in S : <<j, i>> \notin OpToRel(<, Nat)
    <2> DEFINE Less == OpToRel(<, Nat)
    <2>1. IsWellFoundedOn(Less, Nat)
      BY NatLessThanWellFounded
    <2> HIDE DEF Less
    <2>2. \E i \in S : \A j \in S : ~(<<j, i>> \in Less)
      BY <2>1, WFMin
    <2> QED
      BY <2>2 DEF Less
  <1>2. ASSUME NEW j \in S PROVE i <= j
    <2>1. ~(j < i)
      BY <1>1 DEF OpToRel
    <2> QED
      BY <2>1
  <1> QED
    BY <1>2

LEMMA FirstIn ==
    ASSUME NEW S, S \subseteq Files, S # {}
    PROVE  First(S) \in S
  <1>1. \E f \in S : \A g \in S : f <= g
    BY LeastIn, AgeAssumption
  <1> QED
    BY <1>1 DEF First

LEMMA OldestIn ==
    ASSUME NEW S, S \subseteq Files, S # {}
    PROVE  Oldest(S) \in S /\ \A g \in S : Age[Oldest(S)] >= Age[g]
  <1> DEFINE Older(f) == {g \in S : Age[g] > Age[f]}
             Ranks == {Cardinality(Older(f)) : f \in S}
  <1>1. IsFiniteSet(S)
    BY AgeAssumption, FS_Subset
  <1>2. ASSUME NEW f \in S PROVE IsFiniteSet(Older(f)) /\ Cardinality(Older(f)) \in Nat
    <2>1. Older(f) \in SUBSET S
      OBVIOUS
    <2>2. IsFiniteSet(Older(f))
      BY <1>1, <2>1, FS_Subset
    <2> QED
      BY <2>2, FS_CardinalityType
  <1>3. Ranks \subseteq Nat /\ Ranks # {}
    BY <1>2
  <1>4. PICK n \in Ranks : \A m \in Ranks : n <= m
    BY <1>3, LeastIn
  <1>5. PICK f \in S : n = Cardinality(Older(f))
    OBVIOUS
  <1>6. ASSUME NEW h \in S, Age[h] > Age[f] PROVE FALSE
    <2>1. Age[h] \in Nat /\ Age[f] \in Nat
      BY AgeAssumption
    <2>2. Older(h) \in SUBSET Older(f)
      <3> SUFFICES ASSUME NEW g \in S, Age[g] > Age[h] PROVE Age[g] > Age[f]
        OBVIOUS
      <3>1. Age[g] \in Nat
        BY AgeAssumption
      <3> QED
        BY <1>6, <2>1, <3>1
    <2>3. h \in Older(f) /\ h \notin Older(h)
      BY <1>6, <2>1
    <2> HIDE DEF Older, Ranks
    <2>4. /\ Cardinality(Older(h)) <= Cardinality(Older(f))
          /\ Cardinality(Older(f)) = Cardinality(Older(h)) => Older(f) = Older(h)
      BY <1>2, <2>2, FS_Subset
    <2>5. Cardinality(Older(f)) <= Cardinality(Older(h))
      BY <1>4, <1>5 DEF Ranks
    <2> QED
      BY <1>2, <2>3, <2>4, <2>5
  <1>7. \A g \in S : Age[f] >= Age[g]
    <2> SUFFICES ASSUME NEW g \in S PROVE Age[f] >= Age[g]
      OBVIOUS
    <2>1. Age[g] \in Nat /\ Age[f] \in Nat
      BY AgeAssumption
    <2> QED
      BY <1>6, <2>1
  <1>8. \E o \in S : \A g \in S : Age[o] >= Age[g]
    BY <1>7
  <1> QED
    BY <1>8 DEF Oldest

-----------------------------------------------------------------------------
(* TypeOK. *)

WireType == wire \in [Conns -> {"none", "writing", "kept"}]

(* What a step of the request of c can do to its connection.                *)
LEMMA WireMoves ==
    ASSUME WireType, NEW c \in Conns
    PROVE  /\ \A step : Go(c, step) => WireType'
           /\ \A r : Answer(c, r) => WireType'
           /\ \A w \in {"none", "kept"} : GoOn(c, w) => WireType'
           /\ UNCHANGED reqVars => WireType'
  BY DEF WireType, Go, Answer, GoOn, reqVars

LEMMA HandlerWires ==
    ASSUME WireType, NEW c \in Conns, ScanStep(c) \/ PutStep(c) \/ HistoryStep(c)
    PROVE  WireType'
  <1>1. CASE ScanStep(c)
    <2>1. CASE Scanner(c)
      BY <2>1, WireMoves DEF Scanner
    <2>2. CASE Analyse(c)
      BY <2>2, WireMoves DEF Analyse
    <2>3. CASE Record(c)
      BY <2>3, WireMoves DEF Record
    <2>4. CASE Findings(c)
      BY <2>4, WireMoves DEF Findings
    <2>5. CASE Clear(c)
      BY <2>5, WireMoves DEF Clear
    <2>6. CASE Digests(c)
      BY <2>6, WireMoves DEF Digests
    <2>7. CASE Packages(c)
      BY <2>7, WireMoves DEF Packages
    <2> QED
      BY <1>1, <2>1, <2>2, <2>3, <2>4, <2>5, <2>6, <2>7 DEF ScanStep
  <1>2. CASE PutStep(c)
    <2>1. CASE Skip(c)
      BY <2>1, WireMoves DEF Skip
    <2>2. CASE Pick(c)
      BY <2>2, WireMoves DEF Pick
    <2>3. CASE Save(c)
      BY <2>3, WireMoves DEF Save
    <2>4. CASE Assign(c)
      BY <2>4, WireMoves DEF Assign
    <2>5. CASE Applied(c)
      BY <2>5, WireMoves DEF Applied
    <2> QED
      BY <1>2, <2>1, <2>2, <2>3, <2>4, <2>5 DEF PutStep
  <1>3. CASE HistoryStep(c)
    <2>1. CASE Expire(c)
      BY <2>1, WireMoves DEF Expire
    <2>2. CASE Unlink(c)
      BY <2>2, WireMoves DEF Unlink
    <2>3. CASE Prune(c)
      BY <2>3, WireMoves DEF Prune
    <2>4. CASE Read(c)
      BY <2>4, WireMoves DEF Read
    <2> QED
      BY <1>3, <2>1, <2>2, <2>3, <2>4 DEF HistoryStep
  <1> QED
    BY <1>1, <1>2, <1>3

LEMMA NextWires == ASSUME WireType, [Next]_vars PROVE WireType'
  <1>1. CASE UNCHANGED vars \/ Signal \/ Start \/ Finished
    BY <1>1 DEF WireType, vars, reqVars, Signal, Start, Finished
  <1>2. CASE Exit \/ AcceptFails \/ Crash
    BY <1>2 DEF WireType, Exit, AcceptFails, Crash, Down
  <1>3. ASSUME NEW c \in Conns, Scan(c) \/ Settle(c) \/ History(c) PROVE WireType'
    BY <1>3, HandlerWires DEF Scan, Settle, History
  <1>4. ASSUME NEW c \in Conns,
               \/ Connect(c) \/ MuxAccept(c) \/ FirstByte(c) \/ SniffTimeout(c)
               \/ Deliver(c) \/ Accept(c) \/ HeaderTimeout(c) \/ Redirect(c)
               \/ Written(c) \/ Close(c) \/ Body(c) \/ Quiet(c)
        PROVE  WireType'
    BY <1>4, WireMoves
    DEF Connect, MuxAccept, FirstByte, SniffTimeout, Deliver, Accept, HeaderTimeout,
        Redirect, Written, Close, Body, Quiet
  <1>5. ASSUME NEW c \in Conns, Header(c) \/ LateHeader(c) PROVE WireType'
    BY <1>5, WireMoves DEF Header, LateHeader, Handle
  <1> QED
    BY <1>1, <1>2, <1>3, <1>4, <1>5 DEF Next, Serve

Rest ==
    /\ kind' = kind
    /\ packages' \subseteq Conns /\ unclean' \subseteq Conns
    /\ proc' \in {"down", "serving", "draining"} /\ starts' \in 0..MaxStarts

LEMMA WebFrame ==
    ASSUME WebInv, [Next]_vars, Rest, SettingsTypeOK', HistoryTypeOK',
           \A c \in Conns : Task(c)'
    PROVE  WebInv'
  <1>1. ScanInv'
    BY NextScan DEF WebInv
  <1>2. ScansTypeOK' /\ at' \in [Conns -> Steps] /\ reply' \in [Conns -> Replies]
    BY <1>1 DEF ScanInv, ScanType, ScansTypeOK, Rest
  <1>3. WireType'
    BY NextWires DEF WireType, WebInv, TypeOK
  <1> QED
    BY <1>1, <1>2, <1>3 DEF WebInv, TypeOK, Rest, WireType

LEMMA SettingsQuiet ==
    ASSUME SettingsTypeOK, UNCHANGED setVars,
           \A c \in Conns : at'[c] \in {"save", "assign"} => at'[c] = at[c]
    PROVE  SettingsTypeOK'
  BY DEF SettingsTypeOK, setVars, Section

LEMMA HistoryQuiet ==
    ASSUME HistoryTypeOK, UNCHANGED <<files, hist, mingled>>, held' \subseteq Files
    PROVE  HistoryTypeOK'
  BY DEF HistoryTypeOK

LEMMA AsideTypes == ASSUME WebInv, [Next]_vars, Aside PROVE WebInv'
  <1> USE DEF PutSteps, LogSteps, ScanSteps
  <1>1. SettingsTypeOK'
    BY SettingsQuiet DEF WebInv, TypeOK, Aside, Passes
  <1>2. HistoryTypeOK'
    BY DEF WebInv, TypeOK, Aside, HistoryTypeOK, histVars
  <1>3. ASSUME NEW c \in Conns PROVE Task(c)'
    <2>1. Task(c) /\ Passes(c) /\ put' = put /\ kind' = kind
      BY DEF WebInv, Aside, setVars
    <2> QED
      BY <2>1 DEF Task, Passes, Asked, Section
  <1> QED
    BY <1>1, <1>2, <1>3, WebFrame DEF Aside, Rest, WebInv, TypeOK

LEMMA StartTypes == ASSUME WebInv, [Next]_vars, Start PROVE WebInv'
  <1>1. /\ UNCHANGED <<reqVars, scanVars, files, hist, mingled, table, put, mixed, author>>
        /\ proc' = "serving" /\ starts' = starts + 1 /\ starts < MaxStarts
        /\ held' \subseteq Files
        /\ memory' = [w \in Words |-> Loaded(CHOOSE s \in Sections : w \in WordsOf[s], w)]
    BY DEF Start, Load, Hold, WebInv, TypeOK, HistoryTypeOK
  <1>2. ASSUME NEW w \in Words
        PROVE  Loaded(CHOOSE s \in Sections : w \in WordsOf[s], w) \in Values
    <2>1. PICK s \in Sections : /\ s = (CHOOSE t \in Sections : w \in WordsOf[t])
                                /\ w \in WordsOf[s]
      BY DEF Words
    <2>2. Default[w] \in Values
      BY SettingsAssumption
    <2>3. table[s] # NoRow => table[s][w] \in Values
      BY <2>1 DEF WebInv, TypeOK, SettingsTypeOK
    <2> QED
      BY <2>1, <2>2, <2>3, InForceValue DEF Loaded
  <1>3. memory' \in [Words -> Values]
    BY <1>1, <1>2
  <1>4. SettingsTypeOK'
    BY <1>1, <1>3 DEF WebInv, TypeOK, SettingsTypeOK, reqVars, Section
  <1>5. HistoryTypeOK'
    BY <1>1, HistoryQuiet DEF WebInv, TypeOK
  <1>6. ASSUME NEW c \in Conns PROVE Task(c)'
    BY <1>1 DEF WebInv, Task, reqVars, Asked, Section
  <1>7. Rest
    BY <1>1, WebAssumption DEF Rest, reqVars, scanVars, WebInv, TypeOK, ScansTypeOK
  <1> QED
    BY <1>4, <1>5, <1>6, <1>7, WebFrame

LEMMA BodyTypes ==
    ASSUME WebInv, [Next]_vars, NEW c \in Conns, Body(c), BeginPut(c)
    PROVE  WebInv'
  <1> USE DEF PutSteps, LogSteps, ScanSteps
  <1>1. PICK payload \in Payloads : put' = [put EXCEPT ![c].given = payload]
    BY DEF BeginPut
  <1>2. /\ at[c] = "body" /\ UNCHANGED <<table, memory, mixed, author>>
        /\ UNCHANGED <<scanVars, histVars, procVars>>
        /\ Own(c)
        /\ \/ at'[c] = "pick" /\ reply'[c] = reply[c]
           \/ at'[c] = "ended"
    <2>1. Go(c, "pick") \/ Answer(c, "refused")
      BY DEF Body
    <2>2. /\ Own(c)
          /\ \/ at'[c] = "pick" /\ reply'[c] = reply[c]
             \/ at'[c] = "ended"
      BY <2>1, GoOwn, AnswerOwn
    <2> QED
      BY <2>2 DEF Body, BeginPut
  <1>3. SettingsTypeOK'
    <2>1. put' \in [Conns -> Puts]
      BY <1>1, PutUpdates, PutType DEF WebInv, TypeOK
    <2>2. \A d \in Conns : at'[d] \in {"save", "assign"} => at'[d] = at[d] /\ d # c
      BY <1>2 DEF Own
    <2>3. \A d \in Conns \ {c} : put'[d] = put[d]
      BY <1>1 DEF WebInv, TypeOK, SettingsTypeOK
    <2>4. \A d \in Conns :
            /\ at'[d] \in {"save", "assign"} =>
                /\ put'[d].next <= Len(Order)
                /\ put'[d].value \in [WordsOf[Section(d)'] -> Values]
            /\ at'[d] = "assign" =>
                put'[d].words # {} /\ put'[d].words \subseteq WordsOf[Section(d)']
      BY <2>2, <2>3 DEF WebInv, TypeOK, SettingsTypeOK, Section
    <2> QED
      BY <1>2, <2>1, <2>4, SettingsParts DEF WebInv, TypeOK, SettingsTypeOK
  <1>4. HistoryTypeOK'
    BY <1>2 DEF WebInv, TypeOK, HistoryTypeOK, histVars
  <1>5. ASSUME NEW d \in Conns PROVE Task(d)'
    <2>1. Task(d) /\ kind' = kind
      BY <1>2 DEF WebInv, Own
    <2>2. CASE d = c
      BY <1>2, <2>1, <2>2 DEF Task
    <2>3. CASE d # c
      <3>1. put'[d] = put[d]
        BY <1>1, <2>3 DEF WebInv, TypeOK, SettingsTypeOK
      <3> QED
        BY <1>2, <2>1, <2>3, <3>1 DEF Own, Task, Asked, Section
    <2> QED
      BY <2>2, <2>3
  <1>6. Rest
    BY <1>2 DEF Rest, Own, scanVars, procVars, WebInv, TypeOK, ScansTypeOK
  <1> QED
    BY <1>3, <1>4, <1>5, <1>6, WebFrame

(* The parts of a settings step.                                            *)
LEMMA SettleParts ==
    ASSUME WebInv, NEW c \in Conns, Settle(c)
    PROVE  /\ Rest /\ UNCHANGED <<files, hist, mingled, scanVars>>
           /\ held' \subseteq Files /\ HistoryTypeOK'
           /\ Skip(c) \/ Pick(c) \/ Save(c) \/ Assign(c) \/ Applied(c)
           /\ Own(c) /\ kind[c] = "put" /\ at[c] \in {"pick", "save", "assign"}
           /\ proc' = proc /\ Up
  <1>1. Skip(c) \/ Pick(c) \/ Save(c) \/ Assign(c) \/ Applied(c)
    BY DEF Settle, PutStep
  <1>2. /\ UNCHANGED <<files, hist, mingled, scanVars, procVars>>
        /\ held' \subseteq Files
    BY DEF Settle, Hold, WebInv, TypeOK, HistoryTypeOK
  <1>3. Own(c)
    BY <1>1, GoOwn, AnswerOwn, SameOwn DEF Skip, Pick, Save, Assign, Applied
  <1>4. at[c] \in {"pick", "save", "assign"}
    BY <1>1 DEF Skip, Pick, Save, Assign, Applied
  <1>5. kind[c] = "put"
    BY <1>4 DEF WebInv, Task, PutSteps
  <1>6. Rest
    BY <1>2, <1>3 DEF Rest, Own, scanVars, procVars, WebInv, TypeOK, ScansTypeOK
  <1>7. HistoryTypeOK'
    BY <1>2, HistoryQuiet DEF WebInv, TypeOK
  <1> QED
    BY <1>1, <1>2, <1>3, <1>4, <1>5, <1>6, <1>7 DEF procVars, Settle

LEMMA SkipTypes ==
    ASSUME WebInv, NEW c \in Conns, Skip(c)
    PROVE  /\ SettingsTypeOK'
           /\ \A d \in Conns : Task(d)'
  <1> USE DEF PutSteps, LogSteps, ScanSteps
  <1>1. /\ at[c] = "pick" /\ put[c].next <= Len(Order)
        /\ put' = [put EXCEPT ![c].next = @ + 1]
        /\ UNCHANGED <<kind, at, reply, table, memory, mixed, author>>
    BY DEF Skip, reqVars
  <1>2. put[c].next + 1 \in 1..(Len(Order) + 1)
    BY <1>1, SettingsAssumption DEF WebInv, TypeOK, SettingsTypeOK
  <1>3. \A d \in Conns \ {c} : put'[d] = put[d]
    BY <1>1 DEF WebInv, TypeOK, SettingsTypeOK
  <1>4. SettingsTypeOK'
    <2>1. put' \in [Conns -> Puts]
      BY <1>1, <1>2, PutUpdates, PutType DEF WebInv, TypeOK
    <2>2. \A d \in Conns :
            /\ at'[d] \in {"save", "assign"} =>
                /\ put'[d].next <= Len(Order)
                /\ put'[d].value \in [WordsOf[Section(d)'] -> Values]
            /\ at'[d] = "assign" =>
                put'[d].words # {} /\ put'[d].words \subseteq WordsOf[Section(d)']
      BY <1>1, <1>3 DEF WebInv, TypeOK, SettingsTypeOK, Section
    <2> QED
      BY <1>1, <2>1, <2>2, SettingsParts DEF WebInv, TypeOK, SettingsTypeOK
  <1> QED
    BY <1>1, <1>3, <1>4 DEF WebInv, Task, Asked, Section

LEMMA PickTypes ==
    ASSUME WebInv, NEW c \in Conns, Pick(c)
    PROVE  /\ SettingsTypeOK'
           /\ \A d \in Conns : Task(d)'
  <1> USE DEF PutSteps, LogSteps, ScanSteps
  <1> DEFINE s == Section(c)
             value == [w \in WordsOf[s] |->
                          IF Accepted(put[c].given, w) THEN put[c].given[w] ELSE Shown(w)]
  <1>1. /\ at[c] = "pick" /\ put[c].next <= Len(Order) /\ Asked(c)
        /\ put' = [put EXCEPT ![c].value = value]
        /\ mixed' \in {mixed, mixed \cup {s}}
        /\ author' = [author EXCEPT ![s] = c]
        /\ Go(c, "save")
        /\ UNCHANGED <<table, memory>>
    BY DEF Pick
  <1>2. s \in Sections
    BY <1>1, SettingsAssumption DEF WebInv, TypeOK, SettingsTypeOK, Section, Sections
  <1>3. value \in [WordsOf[s] -> Values]
    <2> SUFFICES ASSUME NEW w \in WordsOf[s]
                 PROVE  (IF Accepted(put[c].given, w) THEN put[c].given[w] ELSE Shown(w)) \in Values
      OBVIOUS
    <2>1. Shown(w) \in Values
      BY <1>2, SectionWords, ShownValue DEF WebInv, TypeOK
    <2>2. put[c].given \in Payloads \cup {<<>>}
      BY DEF WebInv, TypeOK, SettingsTypeOK
    <2>3. w \in DOMAIN put[c].given => put[c].given \in Payloads
      BY <2>2
    <2> QED
      BY <2>1, <2>3, SettingsAssumption DEF Accepted
  <1> HIDE DEF value
  <1>4. Own(c) /\ at'[c] = "save" /\ reply'[c] = reply[c]
    BY <1>1, GoOwn
  <1>5. \A d \in Conns \ {c} : put'[d] = put[d]
    BY <1>1 DEF WebInv, TypeOK, SettingsTypeOK
  <1>6. /\ put'[c].value = value /\ put'[c].next = put[c].next
        /\ put'[c].given = put[c].given
    BY <1>1 DEF WebInv, TypeOK, SettingsTypeOK
  <1>7. Section(c)' = s /\ Asked(c)'
    BY <1>1, <1>6 DEF Section, Asked
  <1>8. SettingsTypeOK'
    <2>1. \A d \in Conns : at'[d] \in {"save", "assign"} =>
                /\ put'[d].next <= Len(Order)
                /\ put'[d].value \in [WordsOf[Section(d)'] -> Values]
      <3> SUFFICES ASSUME NEW d \in Conns, at'[d] \in {"save", "assign"}
                   PROVE  /\ put'[d].next <= Len(Order)
                          /\ put'[d].value \in [WordsOf[Section(d)'] -> Values]
        OBVIOUS
      <3>1. CASE d = c
        BY <1>1, <1>3, <1>6, <1>7, <3>1
      <3>2. CASE d # c
        BY <1>4, <1>5, <3>2 DEF Own, WebInv, TypeOK, SettingsTypeOK, Section
      <3> QED
        BY <3>1, <3>2
    <2>2. put' \in [Conns -> Puts]
      BY <1>1, <1>2, <1>3, PutValue, PutUpdates, PutType DEF WebInv, TypeOK
    <2>3. \A d \in Conns : at'[d] = "assign" =>
                put'[d].words # {} /\ put'[d].words \subseteq WordsOf[Section(d)']
      BY <1>4, <1>5 DEF Own, WebInv, TypeOK, SettingsTypeOK, Section
    <2>4. mixed' \subseteq Sections /\ author' \in [Sections -> Conns \cup {NoRow}]
      BY <1>1, <1>2 DEF WebInv, TypeOK, SettingsTypeOK
    <2> QED
      BY <1>1, <2>1, <2>2, <2>3, <2>4, SettingsParts DEF WebInv, TypeOK, SettingsTypeOK
  <1>9. ASSUME NEW d \in Conns PROVE Task(d)'
    <2>1. kind' = kind
      BY <1>4 DEF Own
    <2>2. CASE d = c
      BY <1>1, <1>4, <1>7, <2>1, <2>2 DEF WebInv, Task
    <2>3. CASE d # c
      BY <1>4, <1>5, <2>1, <2>3 DEF WebInv, Task, Own, Asked, Section
    <2> QED
      BY <2>2, <2>3
  <1> QED
    BY <1>8, <1>9

LEMMA SaveTypes ==
    ASSUME WebInv, NEW c \in Conns, Save(c)
    PROVE  /\ SettingsTypeOK'
           /\ \A d \in Conns : Task(d)'
  <1> USE DEF PutSteps, LogSteps, ScanSteps
  <1> DEFINE s == Section(c)
  <1>1. /\ at[c] = "save" /\ Asked(c)
        /\ put[c].next <= Len(Order) /\ put[c].value \in [WordsOf[s] -> Values]
        /\ UNCHANGED <<memory, mixed, author>>
    BY DEF Save, WebInv, Task, TypeOK, SettingsTypeOK
  <1>2. s \in Sections
    BY <1>1, SettingsAssumption DEF WebInv, TypeOK, SettingsTypeOK, Section, Sections
  <1>3. CASE Answer(c, "error") /\ UNCHANGED <<table, put>>
    <2>1. Own(c) /\ at'[c] = "ended"
      BY <1>3, AnswerOwn
    <2>2. SettingsTypeOK'
      BY <1>1, <1>3, <2>1, SettingsQuiet DEF Own, setVars, WebInv, TypeOK
    <2> QED
      BY <1>3, <2>1, <2>2 DEF WebInv, Task, Own, Asked, Section
  <1>4. CASE /\ table' = [table EXCEPT ![s] = put[c].value]
             /\ put' = [put EXCEPT ![c].words = WordsOf[s]]
             /\ Go(c, "assign")
    <2>1. Own(c) /\ at'[c] = "assign" /\ reply'[c] = reply[c]
      BY <1>4, GoOwn
    <2>2. WordsOf[s] # {} /\ WordsOf[s] \subseteq Words
      BY <1>1, <1>2, SectionWords DEF Asked
    <2>3. \A d \in Conns \ {c} : put'[d] = put[d]
      BY <1>4 DEF WebInv, TypeOK, SettingsTypeOK
    <2>4. /\ put'[c].value = put[c].value /\ put'[c].next = put[c].next
          /\ put'[c].words = WordsOf[s] /\ put'[c].given = put[c].given
      BY <1>4, <2>2 DEF WebInv, TypeOK, SettingsTypeOK
    <2>5. Section(c)' = s
      BY <2>4 DEF Section
    <2>6. put' \in [Conns -> Puts]
      BY <1>4, <2>2, PutUpdates, PutType DEF WebInv, TypeOK
    <2>7. \A d \in Conns :
            /\ at'[d] \in {"save", "assign"} =>
                /\ put'[d].next <= Len(Order)
                /\ put'[d].value \in [WordsOf[Section(d)'] -> Values]
            /\ at'[d] = "assign" =>
                put'[d].words # {} /\ put'[d].words \subseteq WordsOf[Section(d)']
      <3> TAKE d \in Conns
      <3>1. CASE d = c
        BY <1>1, <2>2, <2>4, <2>5, <3>1
      <3>2. CASE d # c
        BY <2>1, <2>3, <3>2 DEF Own, WebInv, TypeOK, SettingsTypeOK, Section
      <3> QED
        BY <3>1, <3>2
    <2>8. /\ DOMAIN table' = Sections
          /\ \A t \in Sections : table'[t] # NoRow => table'[t] \in [WordsOf[t] -> Values]
      BY <1>1, <1>2, <1>4 DEF WebInv, TypeOK, SettingsTypeOK
    <2>9. SettingsTypeOK'
      BY <1>1, <2>6, <2>7, <2>8, SettingsParts DEF WebInv, TypeOK, SettingsTypeOK
    <2>10. ASSUME NEW d \in Conns PROVE Task(d)'
      <3>1. kind' = kind
        BY <2>1 DEF Own
      <3>2. CASE d = c
        BY <1>1, <2>1, <3>1, <3>2 DEF WebInv, Task
      <3>3. CASE d # c
        BY <2>1, <2>3, <3>1, <3>3 DEF WebInv, Task, Own, Asked, Section
      <3> QED
        BY <3>2, <3>3
    <2> QED
      BY <2>9, <2>10
  <1> QED
    BY <1>3, <1>4 DEF Save

LEMMA AssignTypes ==
    ASSUME WebInv, NEW c \in Conns, Assign(c)
    PROVE  /\ SettingsTypeOK'
           /\ \A d \in Conns : Task(d)'
  <1> USE DEF PutSteps, LogSteps, ScanSteps
  <1> DEFINE s == Section(c)
  <1>1. PICK w \in put[c].words :
            /\ memory' = [memory EXCEPT ![w] = InForce(w, put[c].value[w])]
            /\ IF put[c].words = {w}
               THEN /\ put' = [put EXCEPT ![c].words = {}, ![c].value = <<>>,
                                          ![c].next = @ + 1]
                    /\ Go(c, "pick")
               ELSE /\ put' = [put EXCEPT ![c].words = @ \ {w}]
                    /\ UNCHANGED reqVars
    BY DEF Assign
  <1>2. /\ at[c] = "assign" /\ put[c].next <= Len(Order)
        /\ put[c].value \in [WordsOf[s] -> Values]
        /\ put[c].words \subseteq WordsOf[s] /\ put[c].words # {}
        /\ UNCHANGED <<table, mixed, author>>
    BY DEF Assign, WebInv, TypeOK, SettingsTypeOK
  <1>3. s \in Sections
    BY <1>2, SettingsAssumption DEF WebInv, TypeOK, SettingsTypeOK, Section, Sections
  <1>4. InForce(w, put[c].value[w]) \in Values
    BY <1>1, <1>2, InForceValue
  <1>5. memory' \in [Words -> Values]
    BY <1>1, <1>4 DEF WebInv, TypeOK, SettingsTypeOK
  <1>6. put[c].next + 1 \in 1..(Len(Order) + 1)
    BY <1>2, SettingsAssumption DEF WebInv, TypeOK, SettingsTypeOK
  <1>7. \A d \in Conns \ {c} : put'[d] = put[d]
    BY <1>1 DEF WebInv, TypeOK, SettingsTypeOK
  <1>8. /\ Own(c) /\ reply'[c] = reply[c]
        /\ \/ at'[c] = "pick"
           \/ /\ at'[c] = "assign"
              /\ put' = [put EXCEPT ![c].words = @ \ {w}]
              /\ put[c].words # {w}
    BY <1>1, <1>2, GoOwn, SameOwn
  <1>9. put' \in [Conns -> Puts]
    <2>1. put \in [Conns -> Puts] /\ put[c].words \ {w} \subseteq Words
      BY PutType, PutFields DEF WebInv, TypeOK
    <2>2. CASE put' = [put EXCEPT ![c].words = @ \ {w}]
      BY <2>1, <2>2, PutUpdates
    <2>3. CASE put' = [put EXCEPT ![c].words = {}, ![c].value = <<>>, ![c].next = @ + 1]
      <3>0. {} \in SUBSET Words /\ <<>> \in PutValues
        BY DEF PutValues
      <3>1. [put EXCEPT ![c].words = {}] \in [Conns -> Puts]
        BY <2>1, <3>0, PutUpdates
      <3>2. [[put EXCEPT ![c].words = {}] EXCEPT ![c].value = <<>>] \in [Conns -> Puts]
        BY <3>0, <3>1, PutUpdates
      <3>3. [[[put EXCEPT ![c].words = {}] EXCEPT ![c].value = <<>>]
                EXCEPT ![c].next = put[c].next + 1] \in [Conns -> Puts]
        BY <1>6, <3>2, PutUpdates
      <3>4. put' = [[[put EXCEPT ![c].words = {}] EXCEPT ![c].value = <<>>]
                        EXCEPT ![c].next = put[c].next + 1]
        BY <2>1, <2>3 DEF Puts
      <3> QED
        BY <3>3, <3>4
    <2> QED
      BY <1>1, <2>2, <2>3
  <1>10. ASSUME NEW d \in Conns
         PROVE  /\ at'[d] \in {"save", "assign"} =>
                    /\ put'[d].next <= Len(Order)
                    /\ put'[d].value \in [WordsOf[Section(d)'] -> Values]
                /\ at'[d] = "assign" =>
                    put'[d].words # {} /\ put'[d].words \subseteq WordsOf[Section(d)']
    <2>1. CASE d = c /\ at'[c] = "pick"
      BY <2>1
    <2>2. CASE d = c /\ at'[c] # "pick"
      <3>1. /\ at'[c] = "assign"
            /\ put' = [put EXCEPT ![c].words = @ \ {w}]
            /\ put[c].words # {w}
        BY <1>8, <2>2
      <3>2. /\ put'[c].next = put[c].next /\ put'[c].value = put[c].value
            /\ put'[c].words = put[c].words \ {w}
        BY <3>1 DEF WebInv, TypeOK, SettingsTypeOK
      <3> QED
        BY <1>1, <1>2, <2>2, <3>1, <3>2 DEF Section
    <2>3. CASE d # c
      BY <1>7, <1>8, <2>3 DEF Own, WebInv, TypeOK, SettingsTypeOK, Section
    <2> QED
      BY <2>1, <2>2, <2>3
  <1>11. SettingsTypeOK'
    BY <1>2, <1>5, <1>9, <1>10, SettingsParts DEF WebInv, TypeOK, SettingsTypeOK
  <1>12. ASSUME NEW d \in Conns PROVE Task(d)'
    <2>1. kind' = kind
      BY <1>8 DEF Own
    <2>2. CASE d = c
      BY <1>2, <1>8, <2>1, <2>2 DEF WebInv, Task
    <2>3. CASE d # c
      BY <1>7, <1>8, <2>1, <2>3 DEF WebInv, Task, Own, Asked, Section
    <2> QED
      BY <2>2, <2>3
  <1> QED
    BY <1>11, <1>12

LEMMA SettleTypes ==
    ASSUME WebInv, [Next]_vars, NEW c \in Conns, Settle(c)
    PROVE  WebInv'
  <1>1. /\ Rest /\ HistoryTypeOK'
        /\ Skip(c) \/ Pick(c) \/ Save(c) \/ Assign(c) \/ Applied(c)
    BY SettleParts
  <1>2. ASSUME Applied(c)
        PROVE  SettingsTypeOK' /\ \A d \in Conns : Task(d)'
    <2>1. Answer(c, "saved") /\ UNCHANGED setVars
      BY <1>2 DEF Applied
    <2>2. Own(c) /\ at'[c] = "ended"
      BY <2>1, AnswerOwn
    <2>3. SettingsTypeOK'
      BY <2>1, <2>2, SettingsQuiet DEF Own, WebInv, TypeOK
    <2> QED
      BY <2>1, <2>2, <2>3 DEF WebInv, Task, Own, Asked, Section, setVars,
         PutSteps, LogSteps, ScanSteps
  <1>3. SettingsTypeOK' /\ \A d \in Conns : Task(d)'
    BY <1>1, <1>2, SkipTypes, PickTypes, SaveTypes, AssignTypes
  <1> QED
    BY <1>1, <1>3, WebFrame

(* The locals of a history request, and what the handler does to them.       *)
Hists == [list : SUBSET Files, limit : Int, shown : SUBSET Files]

LEMMA HistUpdates ==
    ASSUME NEW h \in [Conns -> Hists], NEW c \in Conns
    PROVE  /\ \A L \in SUBSET Files : [h EXCEPT ![c].list = L] \in [Conns -> Hists]
           /\ \A n \in Int : [h EXCEPT ![c].limit = n] \in [Conns -> Hists]
           /\ \A L \in SUBSET Files : [h EXCEPT ![c].shown = L] \in [Conns -> Hists]
  <1>1. \A L \in SUBSET Files : [h[c] EXCEPT !.list = L] \in Hists
    BY DEF Hists
  <1>2. \A n \in Int : [h[c] EXCEPT !.limit = n] \in Hists
    BY DEF Hists
  <1>3. \A L \in SUBSET Files : [h[c] EXCEPT !.shown = L] \in Hists
    BY DEF Hists
  <1> QED
    BY <1>1, <1>2, <1>3

LEMMA HistType == HistoryTypeOK <=> /\ hist \in [Conns -> Hists] /\ files \subseteq Files
                                    /\ held \subseteq Files /\ mingled \subseteq Conns
  BY DEF HistoryTypeOK, Hists

(* The files a history request lists are files of the directory.            *)
LEMMA ListingFiles ==
    ASSUME HistoryTypeOK, NEW c, NEW listing \in Listings(c)
    PROVE  listing \subseteq files /\ listing \in SUBSET Files
  BY DEF Listings, HistoryTypeOK

LEMMA LimitNumber == WebInv => Limit \in Int /\ memory["retention"] \in Int
  <1> SUFFICES ASSUME WebInv PROVE Limit \in Int /\ memory["retention"] \in Int
    OBVIOUS
  <1>1. memory["retention"] \in Values /\ memory["limit"] \in Values
    BY AgeAssumption DEF WebInv, TypeOK, SettingsTypeOK
  <1>2. Values \subseteq Int
    BY SettingsAssumption DEF Values
  <1>3. DefaultLimit \in Int
    BY AgeAssumption
  <1>4. memory["retention"] \in Int /\ memory["limit"] \in Int
    BY <1>1, <1>2
  <1>5. Limit \in {memory["limit"], DefaultLimit}
    BY DEF Limit
  <1> QED
    BY <1>3, <1>4, <1>5

(* What a step of a history handler does, its other locals being typed.      *)
LEMMA HistoryParts ==
    ASSUME WebInv, NEW c \in Conns, History(c)
    PROVE  /\ Rest /\ UNCHANGED <<setVars, held>>
           /\ HistoryTypeOK'
           /\ Own(c) /\ kind[c] = "history" /\ at[c] \in LogSteps
           /\ at'[c] \in LogSteps \cup {"ended"}
           /\ reply'[c] \in {reply[c], "error", "history"}
           /\ at'[c] # "ended" => reply'[c] = reply[c]
           /\ \A d \in Conns \ {c} : hist'[d] = hist[d]
  <1> USE DEF LogSteps
  <1>1. Expire(c) \/ Unlink(c) \/ Prune(c) \/ Read(c)
    BY DEF History, HistoryStep
  <1>2. UNCHANGED <<setVars, scanVars, procVars, held>> /\ at[c] \in LogSteps
    BY <1>1 DEF History, Expire, Unlink, Prune, Read
  <1>3. kind[c] = "history"
    BY <1>2 DEF WebInv, Task
  <1>4. /\ hist \in [Conns -> Hists] /\ hist[c] \in Hists
        /\ files \subseteq Files /\ held \subseteq Files /\ mingled \subseteq Conns
        /\ hist[c].list \subseteq Files /\ hist[c].shown \subseteq Files
    BY HistType DEF WebInv, TypeOK, Hists
  <1>5. Limit \in Int
    BY LimitNumber
  <1>6. ASSUME Own(c),
               \/ at'[c] \in LogSteps /\ reply'[c] = reply[c]
               \/ at'[c] = "ended" /\ reply'[c] \in {"error", "history"},
               hist' \in [Conns -> Hists],
               \A d \in Conns \ {c} : hist'[d] = hist[d],
               files' \subseteq Files, mingled' \subseteq Conns
        PROVE  /\ Rest /\ HistoryTypeOK' /\ at'[c] \in LogSteps \cup {"ended"}
               /\ reply'[c] \in {reply[c], "error", "history"}
               /\ at'[c] # "ended" => reply'[c] = reply[c]
               /\ Own(c) /\ \A d \in Conns \ {c} : hist'[d] = hist[d]
    <2>1. Rest
      BY <1>2, <1>6 DEF Rest, Own, scanVars, procVars, WebInv, TypeOK, ScansTypeOK
    <2>2. HistoryTypeOK'
      BY <1>2, <1>4, <1>6 DEF HistoryTypeOK, Hists
    <2> QED
      BY <1>6, <2>1, <2>2
  <1>7. CASE Expire(c)
    <2>1. mingled' \subseteq Conns /\ files' = files
      BY <1>4, <1>7 DEF Expire, Reading
    <2>2. CASE memory["retention"] <= 0
      BY <1>2, <1>3, <1>4, <1>6, <1>7, <2>1, <2>2, AnswerOwn DEF Expire
    <2>3. CASE ~(memory["retention"] <= 0)
      <3>1. PICK listing \in Listings(c) :
                hist' = [hist EXCEPT ![c].list = {f \in listing : Age[f] > memory["retention"]}]
        BY <1>7, <2>3 DEF Expire
      <3>2. {f \in listing : Age[f] > memory["retention"]} \in SUBSET Files
        BY ListingFiles DEF WebInv, TypeOK
      <3>3. hist' \in [Conns -> Hists] /\ \A d \in Conns \ {c} : hist'[d] = hist[d]
        BY <1>4, <3>1, <3>2, HistUpdates
      <3>4. Go(c, "unlink")
        BY <1>7, <2>3 DEF Expire
      <3> QED
        BY <1>2, <1>3, <1>4, <1>6, <2>1, <3>3, <3>4, GoOwn
    <2> QED
      BY <2>2, <2>3
  <1>8. CASE Unlink(c)
    <2>1. mingled' = mingled
      BY <1>8 DEF Unlink
    <2>2. CASE hist[c].list = {}
      <3>1. PICK listing \in Listings(c) :
                hist' = [hist EXCEPT ![c].list = listing, ![c].limit = Limit]
        BY <1>8, <2>2 DEF Unlink
      <3>2. Go(c, "prune") /\ files' = files
        BY <1>8, <2>2 DEF Unlink
      <3>3. [hist EXCEPT ![c].list = listing] \in [Conns -> Hists]
        BY <1>4, ListingFiles, HistUpdates DEF WebInv, TypeOK
      <3>4. [[hist EXCEPT ![c].list = listing] EXCEPT ![c].limit = Limit] \in [Conns -> Hists]
        BY <1>5, <3>3, HistUpdates
      <3>5. hist' = [[hist EXCEPT ![c].list = listing] EXCEPT ![c].limit = Limit]
        BY <1>4, <3>1 DEF Hists
      <3>6. \A d \in Conns \ {c} : hist'[d] = hist[d]
        BY <1>4, <3>1
      <3>7. hist' \in [Conns -> Hists]
        BY <3>4, <3>5
      <3> QED
        BY <1>2, <1>3, <1>4, <1>6, <2>1, <3>2, <3>6, <3>7, GoOwn
    <2>3. CASE hist[c].list # {}
      <3>1. /\ files' = files \ {First(hist[c].list)}
            /\ hist' = [hist EXCEPT ![c].list = @ \ {First(hist[c].list)}]
            /\ UNCHANGED reqVars \/ Answer(c, "error")
        BY <1>8, <2>3 DEF Unlink
      <3>2. hist' \in [Conns -> Hists] /\ \A d \in Conns \ {c} : hist'[d] = hist[d]
        BY <1>4, <3>1, HistUpdates
      <3>3. at[c] = "unlink"
        BY <1>8 DEF Unlink
      <3> QED
        BY <1>2, <1>3, <1>4, <1>6, <2>1, <3>1, <3>2, <3>3, SameOwn, AnswerOwn
    <2> QED
      BY <2>2, <2>3
  <1>9. CASE Prune(c)
    <2>1. mingled' = mingled
      BY <1>9 DEF Prune
    <2>2. CASE Cardinality(hist[c].list) <= hist[c].limit
      <3>1. hist' = [hist EXCEPT ![c].list = files] /\ Go(c, "read") /\ files' = files
        BY <1>9, <2>2 DEF Prune
      <3>2. hist' \in [Conns -> Hists] /\ \A d \in Conns \ {c} : hist'[d] = hist[d]
        BY <1>4, <3>1, HistUpdates
      <3> QED
        BY <1>2, <1>3, <1>4, <1>6, <2>1, <3>1, <3>2, GoOwn
    <2>3. CASE ~(Cardinality(hist[c].list) <= hist[c].limit)
      <3>1. /\ files' = files \ {Oldest(hist[c].list)}
            /\ hist' = [hist EXCEPT ![c].list = @ \ {Oldest(hist[c].list)}]
            /\ UNCHANGED reqVars \/ Answer(c, "error")
        BY <1>9, <2>3 DEF Prune
      <3>2. hist' \in [Conns -> Hists] /\ \A d \in Conns \ {c} : hist'[d] = hist[d]
        BY <1>4, <3>1, HistUpdates
      <3>3. at[c] = "prune"
        BY <1>9 DEF Prune
      <3> QED
        BY <1>2, <1>3, <1>4, <1>6, <2>1, <3>1, <3>2, <3>3, SameOwn, AnswerOwn
    <2> QED
      BY <2>2, <2>3
  <1>10. CASE Read(c)
    <2>1. mingled' = mingled /\ files' = files /\ at[c] = "read"
      BY <1>10 DEF Read
    <2>2. CASE hist[c].list = {}
      <3>1. Answer(c, "history") /\ hist' = hist
        BY <1>10, <2>2 DEF Read
      <3> QED
        BY <1>2, <1>3, <1>4, <1>6, <2>1, <3>1, AnswerOwn
    <2>3. CASE hist[c].list # {}
      <3> DEFINE f == First(hist[c].list)
                 L == IF f \in files THEN hist[c].list \ {f} ELSE {}
                 S == hist[c].shown \cup ({f} \cap files)
      <3>1. hist' = [hist EXCEPT ![c].list = L, ![c].shown = S] /\ UNCHANGED reqVars
        BY <1>10, <2>3 DEF Read
      <3>2. L \in SUBSET Files /\ S \in SUBSET Files
        BY <1>4
      <3> HIDE DEF L, S
      <3>3. [hist EXCEPT ![c].list = L] \in [Conns -> Hists]
        BY <1>4, <3>2, HistUpdates
      <3>4. [[hist EXCEPT ![c].list = L] EXCEPT ![c].shown = S] \in [Conns -> Hists]
        BY <3>2, <3>3, HistUpdates
      <3>5. hist' = [[hist EXCEPT ![c].list = L] EXCEPT ![c].shown = S]
        BY <1>4, <3>1 DEF Hists
      <3>6. \A d \in Conns \ {c} : hist'[d] = hist[d]
        BY <1>4, <3>1
      <3>7. hist' \in [Conns -> Hists]
        BY <3>4, <3>5
      <3> QED
        BY <1>2, <1>3, <1>4, <1>6, <2>1, <3>1, <3>6, <3>7, SameOwn
    <2> QED
      BY <2>2, <2>3
  <1> QED
    BY <1>1, <1>7, <1>8, <1>9, <1>10

LEMMA HistoryTypes ==
    ASSUME WebInv, [Next]_vars, NEW c \in Conns, History(c)
    PROVE  WebInv'
  <1> USE DEF PutSteps, LogSteps, ScanSteps
  <1>1. /\ Rest /\ UNCHANGED <<setVars, held>> /\ HistoryTypeOK'
        /\ Own(c) /\ kind[c] = "history" /\ at[c] \in LogSteps
        /\ at'[c] \in LogSteps \cup {"ended"}
        /\ at'[c] # "ended" => reply'[c] = reply[c]
    BY HistoryParts
  <1>2. SettingsTypeOK'
    BY <1>1, SettingsQuiet DEF Own, WebInv, TypeOK
  <1>3. ASSUME NEW d \in Conns PROVE Task(d)'
    <2>1. kind' = kind /\ put' = put
      BY <1>1 DEF Own, setVars
    <2>2. CASE d = c
      BY <1>1, <2>1, <2>2 DEF WebInv, Task
    <2>3. CASE d # c
      BY <1>1, <2>1, <2>3 DEF WebInv, Task, Own, Asked, Section
    <2> QED
      BY <2>2, <2>3
  <1> QED
    BY <1>1, <1>2, <1>3, WebFrame

LEMMA WebInit == ASSUME Init PROVE WebInv
  <1>1. ScanInv
    BY InitScan
  <1>2. ASSUME NEW w \in Words PROVE InForce(w, Default[w]) \in Values
    BY SettingsAssumption, InForceValue
  <1>3. SettingsTypeOK
    <2>1. 1 \in 1..(Len(Order) + 1)
      BY SettingsAssumption
    <2>2. put \in [Conns -> Puts]
      <3>1. NoPut \in Puts
        BY <2>1 DEF NoPut, Puts, PutValues
      <3> QED
        BY <3>1 DEF Init, SettingsInit
    <2> QED
      BY <1>2, <2>2 DEF Init, SettingsInit, SettingsTypeOK, Puts, PutValues
  <1>4. HistoryTypeOK
    BY AgeAssumption DEF Init, HistoryInit, HistoryTypeOK, Kept
  <1>5. TypeOK
    BY <1>1, <1>3, <1>4, WebAssumption
    DEF Init, TypeOK, ScanInv, ScanType, ScansTypeOK, ScansInit, Steps, Replies
  <1> QED
    BY <1>1, <1>5 DEF WebInv, Init, Task, PutSteps, LogSteps, ScanSteps

LEMMA NextWeb == WebInv /\ [Next]_vars => WebInv'
  BY Steps4, AsideTypes, StartTypes, BodyTypes, SettleTypes, HistoryTypes

(* The variables of the web process keep their types: no handler is at a    *)
(* step of another, no value leaves its width, and requests save sections   *)
(* whose words they have (applySettingsPayload, rotation.go, main.go).      *)
THEOREM TypeCorrect == Spec => []TypeOK
  <1>1. WebInv => TypeOK
    BY DEF WebInv
  <1> QED
    BY WebInit, NextWeb, <1>1, PTL DEF Spec

-----------------------------------------------------------------------------
(* LogsKept. *)

(* The files that are newer than f. *)
Newer(f) == {g \in Files : Age[g] < Age[f]}

(* What the handler of c has listed spares the files that are held, and is   *)
(* the directory itself when no other request works on it.                   *)
Spares(c) ==
    /\ at[c] = "unlink" => hist[c].list \cap held = {}
    /\ at[c] = "prune" => \A f \in held : Cardinality(Newer(f)) < hist[c].limit
    /\ c \in Reading \ mingled =>
        /\ Reading = {c}
        /\ at[c] = "unlink" => hist[c].list \subseteq files
        /\ at[c] = "prune" => hist[c].list = files
        /\ at[c] = "read" => /\ hist[c].list \subseteq files
                              /\ held \subseteq hist[c].list \cup hist[c].shown
    /\ c \notin mingled =>
        /\ reply[c] = "history" => held \subseteq hist[c].shown
        /\ kind[c] = "history" /\ reply[c] = "error" => held = {}

LogInv ==
    /\ held \subseteq files
    /\ \A f \in held : /\ Age[f] <= memory["retention"]
                       /\ Cardinality(Newer(f)) < Limit
    /\ \A c \in Conns : Spares(c)

(* Steps that list and remove nothing; files may be held no longer.          *)
LEMMA LogsQuiet ==
    ASSUME WebInv, LogInv, UNCHANGED <<files, hist, mingled, kind>>,
           held' \subseteq held,
           \A f \in held' : /\ Age[f] <= memory'["retention"]
                           /\ Cardinality(Newer(f)) < Limit',
           \A c \in Conns :
            \/ at'[c] = at[c] /\ reply'[c] = reply[c]
            \/ /\ at'[c] \notin {"unlink", "prune", "read"}
               /\ reply'[c] # "history"
               /\ kind[c] = "history" => reply'[c] # "error"
    PROVE  LogInv'
  <1>1. Reading' \subseteq Reading
    BY DEF Reading
  <1>2. ASSUME NEW c \in Conns PROVE Spares(c)'
    <2>1. Spares(c)
      BY DEF LogInv
    <2>2. CASE at'[c] = at[c] /\ reply'[c] = reply[c]
      <3>1. c \in Reading' => c \in Reading
        BY <1>1
      <3> QED
        BY <1>1, <2>1, <2>2, <3>1 DEF Spares
    <2>3. CASE /\ at'[c] \notin {"unlink", "prune", "read"}
               /\ reply'[c] # "history"
               /\ kind[c] = "history" => reply'[c] # "error"
      <3>1. c \notin Reading'
        BY <2>3 DEF Reading
      <3> QED
        BY <2>3, <3>1 DEF Spares
    <2> QED
      BY <2>2, <2>3
  <1> QED
    BY <1>2 DEF LogInv

LEMMA LogFrame ==
    ASSUME WebInv, LogInv, NEW c \in Conns, UNCHANGED <<held, memory, kind>>,
           held \subseteq files',
           \A d \in Conns \ {c} : /\ at'[d] = at[d] /\ reply'[d] = reply[d]
                                   /\ hist'[d] = hist[d],
           \/ mingled' = mingled /\ c \in Reading
           \/ mingled' = mingled /\ files' = files /\ Reading' \subseteq Reading
           \/ Reading \cup {c} \subseteq mingled' /\ mingled \subseteq mingled'
           \/ Reading = {} /\ mingled' = mingled,
           Spares(c)'
    PROVE  LogInv'
  <1>1. ASSUME NEW d \in Conns PROVE Spares(d)'
    <2>1. CASE d = c
      BY <2>1
    <2>2. CASE d # c
      <3>1. Spares(d) /\ at'[d] = at[d] /\ reply'[d] = reply[d] /\ hist'[d] = hist[d]
        BY <2>2 DEF LogInv
      <3>2. mingled \subseteq mingled'
        OBVIOUS
      <3>3. d \in Reading' <=> d \in Reading
        BY <3>1 DEF Reading
      <3>4. CASE d \in Reading' \ mingled'
        <4>1. Reading = {d}
          BY <3>1, <3>2, <3>3, <3>4 DEF Spares
        <4>2. mingled' = mingled /\ files' = files /\ Reading' \subseteq Reading
          BY <2>2, <3>3, <3>4, <4>1
        <4> QED
          BY <3>1, <3>2, <3>3, <3>4, <4>1, <4>2 DEF Spares
      <3>5. CASE d \notin Reading' \ mingled'
        BY <3>1, <3>2, <3>5 DEF Spares
      <3> QED
        BY <3>4, <3>5
    <2> QED
      BY <2>1, <2>2
  <1>2. Limit' = Limit
    BY DEF Limit
  <1> QED
    BY <1>1, <1>2 DEF LogInv

(* A request that met no other listed the directory as it is.                *)
LEMMA ListingAlone ==
    ASSUME NEW c, Reading \subseteq {c}, NEW listing \in Listings(c)
    PROVE  listing = files
  BY DEF Listings, Reading, Removing

LEMMA ExpireLogs ==
    ASSUME WebInv, LogInv, NEW c \in Conns, History(c), Expire(c)
    PROVE  LogInv'
  <1>1. /\ Own(c) /\ kind[c] = "history" /\ held' = held /\ memory' = memory
        /\ \A d \in Conns \ {c} : hist'[d] = hist[d]
    BY HistoryParts DEF setVars
  <1>2. at[c] = "expire" /\ files' = files /\ c \notin Reading
    BY DEF Expire, Reading
  <1>3. \/ Reading \cup {c} \subseteq mingled' /\ mingled \subseteq mingled'
        \/ Reading = {} /\ mingled' = mingled
    BY DEF Expire
  <1>4. hist[c] \in Hists /\ hist \in [Conns -> Hists]
    BY HistType DEF WebInv, TypeOK
  <1>5. memory["retention"] \in Int /\ \A f \in Files : Age[f] \in Nat \ {0}
    BY LimitNumber, AgeAssumption
  <1>6. held \subseteq Files
    BY DEF WebInv, TypeOK, HistoryTypeOK
  <1>7. Spares(c)'
    <2>1. CASE memory["retention"] <= 0
      <3>1. held = {}
        BY <1>5, <1>6, <2>1 DEF LogInv
      <3>2. Answer(c, "error")
        BY <2>1 DEF Expire
      <3>3. at'[c] = "ended" /\ reply'[c] = "error"
        BY <3>2, AnswerOwn
      <3> QED
        BY <1>1, <3>1, <3>3 DEF Spares, Reading
    <2>2. CASE ~(memory["retention"] <= 0)
      <3>1. PICK listing \in Listings(c) :
                hist' = [hist EXCEPT ![c].list = {f \in listing : Age[f] > memory["retention"]}]
        BY <2>2 DEF Expire
      <3>2. Go(c, "unlink")
        BY <2>2 DEF Expire
      <3>3. at'[c] = "unlink" /\ reply'[c] = reply[c] /\ reply[c] = "none"
        BY <1>2, <3>2, GoOwn DEF WebInv, Task
      <3>4. hist'[c].list = {f \in listing : Age[f] > memory["retention"]}
        BY <1>4, <3>1 DEF Hists
      <3>5. hist'[c].list \cap held = {}
        BY <1>5, <1>6, <3>4 DEF LogInv
      <3>6. c \notin mingled' => Reading = {} /\ Reading' = {c}
        BY <1>1, <1>3, <3>3 DEF Own, Reading
      <3>7. c \notin mingled' => hist'[c].list \subseteq files
        BY <3>4, <3>6, ListingAlone
      <3> QED
        BY <1>1, <1>2, <3>3, <3>5, <3>6, <3>7 DEF Spares
    <2> QED
      BY <2>1, <2>2
  <1> QED
    BY <1>1, <1>2, <1>3, <1>7, LogFrame DEF Own, LogInv

LEMMA UnlinkLogs ==
    ASSUME WebInv, LogInv, NEW c \in Conns, History(c), Unlink(c)
    PROVE  LogInv'
  <1>1. /\ Own(c) /\ kind[c] = "history" /\ held' = held /\ memory' = memory
        /\ \A d \in Conns \ {c} : hist'[d] = hist[d]
    BY HistoryParts DEF setVars
  <1>2. at[c] = "unlink" /\ mingled' = mingled /\ c \in Reading
    BY DEF Unlink, Reading
  <1>3. hist[c] \in Hists /\ hist \in [Conns -> Hists]
    BY HistType DEF WebInv, TypeOK
  <1>4. Spares(c) /\ reply[c] = "none" /\ held \subseteq files
    BY <1>2 DEF LogInv, WebInv, Task
  <1>5. c \notin mingled => Reading = {c} /\ Reading' \subseteq {c} /\ hist[c].list \subseteq files
    BY <1>1, <1>2, <1>4 DEF Spares, Own, Reading
  <1>6. held \subseteq files' /\ Spares(c)'
    <2>1. CASE hist[c].list = {}
      <3>1. PICK listing \in Listings(c) :
                hist' = [hist EXCEPT ![c].list = listing, ![c].limit = Limit]
        BY <2>1 DEF Unlink
      <3>2. Go(c, "prune") /\ files' = files
        BY <2>1 DEF Unlink
      <3>3. at'[c] = "prune" /\ reply'[c] = reply[c]
        BY <3>2, GoOwn
      <3>4. hist'[c].list = listing /\ hist'[c].limit = Limit
        BY <1>3, <3>1 DEF Hists
      <3>5. c \notin mingled => hist'[c].list = files
        BY <1>5, <3>4, ListingAlone
      <3>6. c \in Reading'
        BY <3>3 DEF Reading
      <3> QED
        BY <1>1, <1>2, <1>4, <1>5, <3>2, <3>3, <3>4, <3>5, <3>6 DEF Spares, LogInv
    <2>2. CASE hist[c].list # {}
      <3> DEFINE f == First(hist[c].list)
      <3>1. f \in hist[c].list
        BY <1>3, <2>2, FirstIn DEF Hists
      <3>2. /\ files' = files \ {f}
            /\ hist' = [hist EXCEPT ![c].list = @ \ {f}]
            /\ IF f \in files THEN UNCHANGED reqVars ELSE Answer(c, "error")
        BY <2>2 DEF Unlink
      <3>3. f \notin held
        BY <1>2, <1>4, <3>1 DEF Spares
      <3> HIDE DEF f
      <3>4. hist'[c].list = hist[c].list \ {f}
        BY <1>3, <3>2 DEF Hists
      <3>5. CASE f \in files
        <4>1. at'[c] = "unlink" /\ reply'[c] = "none"
          BY <1>2, <1>4, <3>2, <3>5 DEF reqVars
        <4>2. c \in Reading'
          BY <4>1 DEF Reading
        <4> QED
          BY <1>1, <1>2, <1>4, <1>5, <3>2, <3>3, <3>4, <4>1, <4>2 DEF Spares
      <3>6. CASE f \notin files
        <4>1. c \in mingled
          BY <1>5, <3>1, <3>6
        <4>2. at'[c] = "ended"
          BY <3>2, <3>6, AnswerOwn
        <4> QED
          BY <1>1, <1>2, <1>4, <3>2, <3>3, <4>1, <4>2 DEF Spares
      <3> QED
        BY <3>5, <3>6
    <2> QED
      BY <2>1, <2>2
  <1> QED
    BY <1>1, <1>2, <1>6, LogFrame DEF Own

(* The oldest file of a listing over the limit is not held.                  *)
LEMMA OldestNotHeld ==
    ASSUME WebInv, NEW S, S \subseteq Files, NEW n \in Int,
           ~(Cardinality(S) <= n),
           \A f \in held : Cardinality(Newer(f)) < n,
           held \subseteq Files, S # {}
    PROVE  Oldest(S) \notin held
  <1> DEFINE f == Oldest(S)
  <1>1. f \in S /\ \A g \in S : Age[f] >= Age[g]
    BY OldestIn
  <1> HIDE DEF f
  <1>2. SUFFICES ASSUME f \in held PROVE FALSE
    BY DEF f
  <1>3. IsFiniteSet(S) /\ IsFiniteSet(Newer(f))
    <2>1. S \in SUBSET Files /\ Newer(f) \in SUBSET Files
      BY DEF Newer
    <2> QED
      BY <2>1, AgeAssumption, FS_Subset
  <1>4. S \ {f} \subseteq Newer(f)
    <2> SUFFICES ASSUME NEW g \in S, g # f PROVE Age[g] < Age[f]
      BY DEF Newer
    <2>1. f \in Files /\ g \in Files
      BY <1>1
    <2>2. Age[f] \in Nat /\ Age[g] \in Nat /\ Age[g] # Age[f]
      BY <2>1, AgeAssumption
    <2>3. Age[f] >= Age[g]
      BY <1>1
    <2> QED
      BY <2>2, <2>3
  <1>5. /\ Cardinality(S \ {f}) = Cardinality(S) - 1
        /\ Cardinality(S) \in Nat /\ Cardinality(Newer(f)) \in Nat
    BY <1>1, <1>3, FS_RemoveElement, FS_CardinalityType
  <1>6. Cardinality(S \ {f}) <= Cardinality(Newer(f))
    <2>1. S \ {f} \in SUBSET Newer(f)
      BY <1>4
    <2> QED
      BY <1>3, <2>1, FS_Subset
  <1> QED
    BY <1>2, <1>5, <1>6

LEMMA PruneLogs ==
    ASSUME WebInv, LogInv, NEW c \in Conns, History(c), Prune(c)
    PROVE  LogInv'
  <1>1. /\ Own(c) /\ kind[c] = "history" /\ held' = held /\ memory' = memory
        /\ \A d \in Conns \ {c} : hist'[d] = hist[d]
    BY HistoryParts DEF setVars
  <1>2. at[c] = "prune" /\ mingled' = mingled /\ c \in Reading
    BY DEF Prune, Reading
  <1>3. hist[c] \in Hists /\ hist \in [Conns -> Hists] /\ held \subseteq Files
    BY HistType DEF WebInv, TypeOK
  <1>4. Spares(c) /\ reply[c] = "none" /\ held \subseteq files
    BY <1>2 DEF LogInv, WebInv, Task
  <1>5. c \notin mingled => Reading = {c} /\ Reading' \subseteq {c} /\ hist[c].list = files
    BY <1>1, <1>2, <1>4 DEF Spares, Own, Reading
  <1>6. held \subseteq files' /\ Spares(c)'
    <2>1. CASE Cardinality(hist[c].list) <= hist[c].limit
      <3>1. hist' = [hist EXCEPT ![c].list = files] /\ files' = files /\ Go(c, "read")
        BY <2>1 DEF Prune
      <3>2. at'[c] = "read" /\ reply'[c] = reply[c]
        BY <3>1, GoOwn
      <3>3. hist'[c].list = files
        BY <1>3, <3>1 DEF Hists
      <3>4. c \in Reading'
        BY <3>2 DEF Reading
      <3> QED
        BY <1>1, <1>2, <1>4, <1>5, <3>1, <3>2, <3>3, <3>4 DEF Spares
    <2>2. CASE ~(Cardinality(hist[c].list) <= hist[c].limit)
      <3> DEFINE f == Oldest(hist[c].list)
      <3>1. /\ files' = files \ {f}
            /\ hist' = [hist EXCEPT ![c].list = @ \ {f}]
            /\ IF f \in files THEN UNCHANGED reqVars ELSE Answer(c, "error")
        BY <2>2 DEF Prune
      <3>2. hist[c].list \subseteq Files /\ hist[c].limit \in Int
        BY <1>3 DEF Hists
      <3>3. CASE hist[c].list = {}
        <4>1. Cardinality(hist[c].list) = 0
          BY <3>3, FS_EmptySet
        <4>2. hist[c].limit < 0
          BY <2>2, <3>2, <4>1
        <4>3. held = {}
          <5> SUFFICES ASSUME NEW g \in held PROVE FALSE
            OBVIOUS
          <5>1. Cardinality(Newer(g)) < hist[c].limit
            BY <1>2, <1>4 DEF Spares
          <5>2. Newer(g) \in SUBSET Files
            BY DEF Newer
          <5>3. Cardinality(Newer(g)) \in Nat
            BY <5>2, AgeAssumption, FS_Subset, FS_CardinalityType
          <5> QED
            BY <3>2, <4>2, <5>1, <5>3
        <4> HIDE DEF f
        <4>4. hist'[c].list = {}
          BY <1>3, <3>1, <3>3 DEF Hists
        <4>5. c \notin mingled => files' = {} /\ files = {}
          BY <1>5, <3>1, <3>3
        <4>6. /\ at'[c] \in {"prune", "ended"} /\ reply'[c] \in {"none", "error"}
              /\ hist'[c].limit = hist[c].limit
          BY <1>2, <1>3, <1>4, <3>1, AnswerOwn DEF reqVars, Hists
        <4> QED
          BY <1>1, <1>2, <1>4, <1>5, <4>3, <4>4, <4>5, <4>6 DEF Spares
      <3>4. CASE hist[c].list # {}
        <4>1. f \in hist[c].list
          BY <3>2, <3>4, OldestIn
        <4>2. f \notin held
          BY <1>2, <1>3, <1>4, <2>2, <3>2, <3>4, OldestNotHeld DEF Spares
        <4> HIDE DEF f
        <4>3. hist'[c].list = hist[c].list \ {f} /\ hist'[c].limit = hist[c].limit
          BY <1>3, <3>1 DEF Hists
        <4>4. CASE f \in files
          <5>1. at'[c] = "prune" /\ reply'[c] = "none"
            BY <1>2, <1>4, <3>1, <4>4 DEF reqVars
          <5>2. c \in Reading'
            BY <5>1 DEF Reading
          <5> QED
            BY <1>1, <1>2, <1>4, <1>5, <3>1, <4>2, <4>3, <5>1, <5>2 DEF Spares
        <4>5. CASE f \notin files
          <5>1. c \in mingled
            BY <1>5, <4>1, <4>5
          <5>2. at'[c] = "ended"
            BY <3>1, <4>5, AnswerOwn
          <5> QED
            BY <1>1, <1>2, <1>4, <3>1, <4>2, <5>1, <5>2 DEF Spares
        <4> QED
          BY <4>4, <4>5
      <3> QED
        BY <3>3, <3>4
    <2> QED
      BY <2>1, <2>2
  <1> QED
    BY <1>1, <1>2, <1>6, LogFrame DEF Own

LEMMA ReadLogs ==
    ASSUME WebInv, LogInv, NEW c \in Conns, History(c), Read(c)
    PROVE  LogInv'
  <1>1. /\ Own(c) /\ kind[c] = "history" /\ held' = held /\ memory' = memory
        /\ \A d \in Conns \ {c} : hist'[d] = hist[d]
    BY HistoryParts DEF setVars
  <1>2. at[c] = "read" /\ mingled' = mingled /\ files' = files /\ c \in Reading
    BY DEF Read, Reading
  <1>3. hist[c] \in Hists /\ hist \in [Conns -> Hists] /\ held \subseteq Files
    BY HistType DEF WebInv, TypeOK
  <1>4. Spares(c) /\ reply[c] = "none" /\ held \subseteq files
    BY <1>2 DEF LogInv, WebInv, Task
  <1>5. c \notin mingled => /\ Reading = {c} /\ Reading' \subseteq {c}
                            /\ hist[c].list \subseteq files
                            /\ held \subseteq hist[c].list \cup hist[c].shown
    BY <1>1, <1>2, <1>4 DEF Spares, Own, Reading
  <1>6. Spares(c)'
    <2>1. CASE hist[c].list = {}
      <3>1. Answer(c, "history") /\ hist' = hist
        BY <2>1 DEF Read
      <3>2. at'[c] = "ended" /\ reply'[c] = "history"
        BY <3>1, AnswerOwn
      <3>3. c \notin Reading'
        BY <3>2 DEF Reading
      <3> QED
        BY <1>1, <1>2, <1>5, <2>1, <3>1, <3>2, <3>3 DEF Spares
    <2>2. CASE hist[c].list # {}
      <3> DEFINE f == First(hist[c].list)
      <3>1. f \in hist[c].list
        BY <1>3, <2>2, FirstIn DEF Hists
      <3>2. /\ hist' = [hist EXCEPT ![c].list = IF f \in files THEN @ \ {f} ELSE {},
                                    ![c].shown = @ \cup ({f} \cap files)]
            /\ UNCHANGED reqVars
        BY <2>2 DEF Read
      <3> HIDE DEF f
      <3>3. /\ hist'[c].list = IF f \in files THEN hist[c].list \ {f} ELSE {}
            /\ hist'[c].shown = hist[c].shown \cup ({f} \cap files)
        BY <1>3, <3>2 DEF Hists
      <3>4. at'[c] = "read" /\ reply'[c] = "none"
        BY <1>2, <1>4, <3>2 DEF reqVars
      <3>5. c \notin mingled => f \in files
        BY <1>5, <3>1
      <3>6. c \in Reading'
        BY <3>4 DEF Reading
      <3> QED
        BY <1>1, <1>2, <1>5, <3>3, <3>4, <3>5, <3>6 DEF Spares
    <2> QED
      BY <2>1, <2>2
  <1> QED
    BY <1>1, <1>2, <1>4, <1>6, LogFrame DEF Own

(* A change of the configuration holds what it still keeps.                  *)
LEMMA HoldLogs ==
    ASSUME WebInv, LogInv, Hold
    PROVE  /\ held' \subseteq held
           /\ \A f \in held' : /\ Age[f] <= memory'["retention"]
                               /\ Cardinality(Newer(f)) < Limit'
  BY DEF Hold, Kept, Newer

LEMMA NextLogs == ASSUME WebInv, LogInv, [Next]_vars PROVE LogInv'
  <1> USE DEF PutSteps, LogSteps, ScanSteps
  <1>1. CASE Aside
    <2>1. UNCHANGED <<memory, files, hist, held, mingled, kind>>
      BY <1>1 DEF Aside, setVars, histVars
    <2>2. Limit' = Limit
      BY <2>1 DEF Limit
    <2>3. \A c \in Conns :
            \/ at'[c] = at[c] /\ reply'[c] = reply[c]
            \/ /\ at'[c] \notin {"unlink", "prune", "read"}
               /\ reply'[c] # "history"
               /\ kind[c] = "history" => reply'[c] # "error"
      BY <1>1 DEF Aside, Passes
    <2> QED
      BY <2>1, <2>2, <2>3, LogsQuiet DEF LogInv
  <1>2. CASE Start
    <2>1. UNCHANGED <<files, hist, mingled, kind, at, reply>> /\ Hold
      BY <1>2 DEF Start, reqVars
    <2> QED
      BY <2>1, HoldLogs, LogsQuiet
  <1>3. ASSUME NEW c \in Conns, Settle(c) PROVE LogInv'
    <2>1. /\ UNCHANGED <<files, hist, mingled>> /\ Own(c) /\ kind[c] = "put"
          /\ Skip(c) \/ Pick(c) \/ Save(c) \/ Assign(c) \/ Applied(c)
      BY <1>3, SettleParts
    <2>2. at'[c] \in {"pick", "save", "assign", "ended"} /\ reply'[c] # "history"
      <3>1. at[c] \in {"pick", "save", "assign"} /\ reply[c] = "none"
        BY <1>3, SettleParts DEF WebInv, Task
      <3> QED
        BY <2>1, <3>1, GoOwn, AnswerOwn, SameOwn DEF Skip, Pick, Save, Assign, Applied
    <2>3. Hold
      BY <1>3 DEF Settle
    <2>4. \A d \in Conns :
            \/ at'[d] = at[d] /\ reply'[d] = reply[d]
            \/ /\ at'[d] \notin {"unlink", "prune", "read"}
               /\ reply'[d] # "history"
               /\ kind[d] = "history" => reply'[d] # "error"
      BY <2>1, <2>2 DEF Own
    <2> QED
      BY <2>1, <2>3, <2>4, HoldLogs, LogsQuiet DEF Own
  <1>4. ASSUME NEW c \in Conns, History(c) PROVE LogInv'
    BY <1>4, ExpireLogs, UnlinkLogs, PruneLogs, ReadLogs DEF History, HistoryStep
  <1>5. ASSUME NEW c \in Conns, Body(c), BeginPut(c) PROVE LogInv'
    <2>1. UNCHANGED <<memory, files, hist, held, mingled>> /\ at[c] = "body"
      BY <1>5 DEF Body, BeginPut, histVars
    <2>2. Go(c, "pick") \/ Answer(c, "refused")
      BY <1>5 DEF Body
    <2>3. /\ Own(c) /\ at'[c] \in {"pick", "ended"} /\ reply'[c] \in {"none", "refused"}
      BY <2>1, <2>2, GoOwn, AnswerOwn DEF WebInv, Task
    <2>4. Limit' = Limit
      BY <2>1 DEF Limit
    <2>5. \A d \in Conns :
            \/ at'[d] = at[d] /\ reply'[d] = reply[d]
            \/ /\ at'[d] \notin {"unlink", "prune", "read"}
               /\ reply'[d] # "history"
               /\ kind[d] = "history" => reply'[d] # "error"
      BY <2>3 DEF Own
    <2> QED
      BY <2>1, <2>3, <2>4, <2>5, LogsQuiet DEF LogInv, Own
  <1> QED
    BY <1>1, <1>2, <1>3, <1>4, <1>5, Steps4

(* No log is removed that every configuration in force would have kept, in   *)
(* any interleaving of history requests with each other and with changes of  *)
(* the settings, and a request that met no other shows every log             *)
(* (RemoveExpired, PruneToTotalLimit, readHistoricalLogs).                   *)
THEOREM LogsAlwaysKept == Spec => []LogsKept
  <1>1. Init => LogInv
    <2> SUFFICES ASSUME Init PROVE LogInv
      OBVIOUS
    <2>1. /\ held \subseteq files
          /\ \A f \in held : Age[f] <= memory["retention"] /\ Cardinality(Newer(f)) < Limit
      BY DEF Init, HistoryInit, Kept, Newer
    <2>2. ASSUME NEW c \in Conns PROVE Spares(c)
      BY DEF Init, Spares, Reading
    <2> QED
      BY <2>1, <2>2 DEF LogInv
  <1>2. WebInv /\ LogInv /\ [Next]_vars => (WebInv /\ LogInv)'
    BY NextWeb, NextLogs
  <1>3. LogInv => LogsKept
    BY DEF LogInv, Spares, LogsKept
  <1> QED
    BY WebInit, <1>1, <1>2, <1>3, PTL DEF Spec

-----------------------------------------------------------------------------
(* SettingsAgree. *)

Working == {"pick", "save", "assign"}

(* What the request asked for is in what it built, and in the table.         *)
Picked(c, s) ==
    \A w \in WordsOf[s] : Accepted(put[c].given, w) => put[c].value[w] = put[c].given[w]
Stored(c, s) ==
    \A w \in WordsOf[s] : Accepted(put[c].given, w) => table[s][w] = put[c].given[w]

Told(c, s) ==
    /\ at[c] \in Working \cup {"ended"}
    /\ at[c] = "save" /\ Section(c) = s => Picked(c, s)
    /\ \/ at[c] \in {"pick", "assign"}
       \/ at[c] = "save" /\ Section(c) # s
       \/ reply[c] = "saved"
       => Stored(c, s)

Awaits(c, s, w) == at[c] = "assign" /\ Section(c) = s /\ w \in put[c].words

Agrees(s) ==
    /\ \A c \in Conns : InSection(c, s) => author[s] = c
    /\ \A c \in Conns : at[c] = "assign" /\ Section(c) = s => table[s] = put[c].value
    /\ Up /\ (table[s] # NoRow => Fits(s)) =>
        \A w \in WordsOf[s] :
            memory[w] = Loaded(s, w) \/ \E c \in Conns : Awaits(c, s, w)
    /\ author[s] # NoRow => Told(author[s], s)

(* A limit in memory that is not positive is the default.                    *)
Sane(w, v) == w \in Limits \ Durations => v > 0 \/ v = Default[w]

SaneInv ==
    /\ \A w \in Words : Sane(w, memory[w])
    /\ \A c \in Conns : at[c] \in {"save", "assign"} =>
            \A w \in WordsOf[Section(c)] : Sane(w, put[c].value[w])

SectionInv == SaneInv /\ \A s \in Sections \ mixed : Agrees(s)

(* Steps outside the handler of settings.                                    *)
LEMMA SectionQuiet ==
    ASSUME WebInv, SectionInv, UNCHANGED setVars, Up' => Up,
           \A c \in Conns :
            \/ at'[c] = at[c] /\ reply'[c] = reply[c]
            \/ /\ at'[c] \notin Working /\ reply'[c] # "saved"
               /\ at[c] \in Working \cup {"ended"} => at'[c] = "ended"
               /\ at[c] = "assign" => ~Up'
    PROVE  SectionInv'
  <1> USE DEF Working
  <1>1. UNCHANGED <<table, memory, put, mixed, author>>
    BY DEF setVars
  <1>2. \A c \in Conns : Section(c)' = Section(c)
    BY <1>1 DEF Section
  <1>3. \A c \in Conns : at'[c] \in Working => at'[c] = at[c] /\ reply'[c] = reply[c]
    OBVIOUS
  <1>4. SaneInv'
    BY <1>1, <1>2, <1>3 DEF SectionInv, SaneInv
  <1>5. ASSUME NEW s \in Sections \ mixed PROVE Agrees(s)'
    <2>1. Agrees(s)
      BY DEF SectionInv
    <2>2. \A c \in Conns : InSection(c, s)' => InSection(c, s)
      BY <1>2, <1>3 DEF InSection
    <2>3. \A w \in WordsOf[s] : Loaded(s, w)' = Loaded(s, w)
      BY <1>1 DEF Loaded
    <2>4. Fits(s)' <=> Fits(s)
      BY <1>1 DEF Fits
    <2>5. ASSUME Up' PROVE \A w \in WordsOf[s], c \in Conns : Awaits(c, s, w) => Awaits(c, s, w)'
      BY <1>1, <1>2, <2>5 DEF Awaits
    <2>6. ASSUME author[s] # NoRow PROVE Told(author[s], s)'
      <3>1. PICK a \in Conns : a = author[s]
        BY <2>6 DEF WebInv, TypeOK, SettingsTypeOK
      <3>2. Told(a, s)
        BY <2>1, <2>6, <3>1 DEF Agrees
      <3>3. /\ Picked(a, s)' <=> Picked(a, s)
            /\ Stored(a, s)' <=> Stored(a, s)
        BY <1>1 DEF Picked, Stored
      <3>4. Told(a, s)'
        BY <1>2, <1>3, <3>2, <3>3 DEF Told
      <3>5. author'[s] = a
        BY <1>1, <3>1
      <3> QED
        BY <3>4, <3>5 DEF Told, Picked, Stored, Section
    <2> QED
      BY <1>1, <1>2, <1>3, <2>1, <2>2, <2>3, <2>4, <2>5, <2>6 DEF Agrees
  <1> QED
    BY <1>1, <1>4, <1>5 DEF SectionInv

(* A step of a settings request seen from a section it is not at.            *)
LEMMA Elsewhere ==
    ASSUME WebInv, NEW c \in Conns, NEW s \in Sections, Agrees(s), Own(c),
           \A d \in Conns \ {c} : put'[d] = put[d],
           put'[c].given = put[c].given,
           table'[s] = table[s], author'[s] = author[s], proc' = proc,
           \A w \in WordsOf[s] : memory'[w] = memory[w],
           at[c] \in Working, at'[c] \in Working \cup {"ended"},
           ~InSection(c, s), ~(InSection(c, s)')
    PROVE  Agrees(s)'
  <1> USE DEF Working
  <1>1. \A d \in Conns \ {c} : /\ Section(d)' = Section(d) /\ put'[d] = put[d]
                                /\ at'[d] = at[d] /\ reply'[d] = reply[d]
    BY DEF Own, Section
  <1>2. \A d \in Conns : InSection(d, s)' => InSection(d, s) /\ d # c
    BY <1>1 DEF InSection
  <1>3. \A w \in WordsOf[s] : Loaded(s, w)' = Loaded(s, w)
    BY DEF Loaded
  <1>4. Fits(s)' <=> Fits(s)
    BY DEF Fits
  <1>5. \A w \in WordsOf[s], d \in Conns : Awaits(d, s, w) => Awaits(d, s, w)'
    <2> SUFFICES ASSUME NEW w \in WordsOf[s], NEW d \in Conns, Awaits(d, s, w)
                 PROVE  Awaits(d, s, w)'
      OBVIOUS
    <2>1. d # c
      BY DEF Awaits, InSection
    <2> QED
      BY <1>1, <2>1 DEF Awaits
  <1>6. ASSUME author[s] # NoRow PROVE Told(author[s], s)'
    <2>1. author[s] \in Conns /\ Told(author[s], s)
      BY <1>6 DEF Agrees, WebInv, TypeOK, SettingsTypeOK
    <2>2. \A d \in Conns : Stored(d, s)' <=> Stored(d, s)
      BY <1>1 DEF Stored
    <2>3. CASE author[s] = c
      <3>1. Stored(c, s)
        BY <2>1, <2>3 DEF Told, InSection
      <3> QED
        BY <2>1, <2>2, <2>3, <3>1 DEF Told, InSection
    <2>4. CASE author[s] # c
      <3>1. Picked(author[s], s)' <=> Picked(author[s], s)
        BY <1>1, <2>1, <2>4 DEF Picked
      <3> QED
        BY <1>1, <2>1, <2>2, <2>4, <3>1 DEF Told
    <2> QED
      BY <2>3, <2>4
  <1>7. \A d \in Conns : at'[d] = "assign" /\ Section(d)' = s => table'[s] = put'[d].value
    BY <1>1, <1>2 DEF Agrees, InSection
  <1>8. Up' /\ (table'[s] # NoRow => Fits(s)') =>
            \A w \in WordsOf[s] :
                memory'[w] = Loaded(s, w)' \/ \E d \in Conns : Awaits(d, s, w)'
    BY <1>3, <1>4, <1>5 DEF Agrees, Up
  <1> QED
    BY <1>2, <1>6, <1>7, <1>8 DEF Agrees

LEMMA SkipSection ==
    ASSUME WebInv, SectionInv, NEW c \in Conns, Settle(c), Skip(c)
    PROVE  SectionInv'
  <1>1. /\ at[c] = "pick" /\ Own(c) /\ proc' = proc /\ at' = at
        /\ put' = [put EXCEPT ![c].next = @ + 1]
        /\ UNCHANGED <<table, memory, mixed, author>>
    BY SettleParts DEF Skip, reqVars
  <1>2. \A d \in Conns \ {c} : put'[d] = put[d]
    BY <1>1 DEF WebInv, TypeOK, SettingsTypeOK
  <1>3. put'[c].given = put[c].given
    BY <1>1, PutType DEF WebInv, TypeOK, Puts
  <1>4. ASSUME NEW s \in Sections \ mixed PROVE Agrees(s)'
    <2>1. ~InSection(c, s) /\ ~(InSection(c, s)')
      BY <1>1 DEF InSection
    <2> QED
      BY <1>1, <1>2, <1>3, <2>1, Elsewhere DEF SectionInv, Working
  <1>5. SaneInv'
    BY <1>1, <1>2 DEF SectionInv, SaneInv, Section
  <1> QED
    BY <1>1, <1>4, <1>5 DEF SectionInv

LEMMA AppliedSection ==
    ASSUME WebInv, SectionInv, NEW c \in Conns, Settle(c), Applied(c)
    PROVE  SectionInv'
  <1>1. /\ at[c] = "pick" /\ Own(c) /\ proc' = proc /\ at'[c] = "ended"
        /\ UNCHANGED <<table, memory, put, mixed, author>>
    BY SettleParts, AnswerOwn DEF Applied, setVars
  <1>2. ASSUME NEW s \in Sections \ mixed PROVE Agrees(s)'
    <2>1. ~InSection(c, s) /\ ~(InSection(c, s)')
      BY <1>1 DEF InSection
    <2> QED
      BY <1>1, <2>1, Elsewhere DEF SectionInv, Working
  <1>3. SaneInv'
    BY <1>1 DEF SectionInv, SaneInv, Section, Own
  <1> QED
    BY <1>1, <1>2, <1>3 DEF SectionInv

LEMMA PickSection ==
    ASSUME WebInv, SectionInv, NEW c \in Conns, Settle(c), Pick(c)
    PROVE  SectionInv'
  <1>0. PICK s \in Sections : s = Section(c)
    <2>1. Section(c) \in Sections
      BY SettingsAssumption DEF Pick, WebInv, TypeOK, SettingsTypeOK, Section, Sections
    <2> QED
      BY <2>1
  <1> DEFINE value == [w \in WordsOf[s] |->
                            IF Accepted(put[c].given, w) THEN put[c].given[w] ELSE Shown(w)]
  <1>1. /\ at[c] = "pick" /\ put[c].next <= Len(Order)
        /\ put' = [put EXCEPT ![c].value = value]
        /\ mixed' = IF \E d \in Conns \ {c} : InSection(d, s)
                    THEN mixed \cup {s} ELSE mixed
        /\ author' = [author EXCEPT ![s] = c]
        /\ Go(c, "save")
        /\ UNCHANGED <<table, memory>>
    BY <1>0 DEF Pick
  <1>3. Own(c) /\ at'[c] = "save" /\ reply'[c] = reply[c] /\ proc' = proc
    BY <1>1, GoOwn, SettleParts
  <1>4. \A d \in Conns \ {c} : put'[d] = put[d]
    BY <1>1 DEF WebInv, TypeOK, SettingsTypeOK
  <1>5. /\ put'[c].value = value /\ put'[c].next = put[c].next
        /\ put'[c].given = put[c].given
    BY <1>1, PutType DEF WebInv, TypeOK, Puts
  <1>6. Section(c)' = s
    BY <1>0, <1>5 DEF Section
  <1>7. reply[c] = "none"
    BY <1>1 DEF WebInv, Task
  <1>8. \A w \in WordsOf[s] : /\ Accepted(put[c].given, w) => value[w] = put[c].given[w]
                              /\ Sane(w, value[w])
    <2> SUFFICES ASSUME NEW w \in WordsOf[s]
                 PROVE  /\ Accepted(put[c].given, w) => value[w] = put[c].given[w]
                        /\ Sane(w, value[w])
      OBVIOUS
    <2>1. w \in Words
      BY SectionWords
    <2>2. CASE Accepted(put[c].given, w)
      BY <2>2 DEF Sane, Accepted
    <2>3. CASE ~Accepted(put[c].given, w)
      <3>1. value[w] = Shown(w) /\ Sane(w, memory[w])
        BY <2>1, <2>3 DEF SectionInv, SaneInv
      <3> QED
        BY <2>3, <3>1 DEF Sane, Shown
    <2> QED
      BY <2>2, <2>3
  <1> HIDE DEF value
  <1>9. SaneInv'
    <2>1. ASSUME NEW d \in Conns, at'[d] \in {"save", "assign"}
          PROVE  \A w \in WordsOf[Section(d)'] : Sane(w, put'[d].value[w])
      <3>1. CASE d = c
        BY <1>5, <1>6, <1>8, <3>1
      <3>2. CASE d # c
        BY <1>3, <1>4, <2>1, <3>2 DEF SectionInv, SaneInv, Own, Section
      <3> QED
        BY <3>1, <3>2
    <2> QED
      BY <1>1, <2>1 DEF SectionInv, SaneInv, Sane
  <1>10. ASSUME NEW t \in Sections \ mixed' PROVE Agrees(t)'
    <2>1. t \notin mixed /\ Agrees(t)
      BY <1>1 DEF SectionInv
    <2>2. CASE t # s
      <3>1. ~InSection(c, t) /\ ~(InSection(c, t)')
        BY <1>1, <1>6, <2>2 DEF InSection
      <3>2. author'[t] = author[t]
        BY <1>1, <2>2 DEF WebInv, TypeOK, SettingsTypeOK
      <3> QED
        BY <1>1, <1>3, <1>4, <1>5, <2>1, <3>1, <3>2, Elsewhere DEF Working
    <2>3. CASE t = s
      <3>1. \A d \in Conns \ {c} : ~InSection(d, s)
        BY <1>1, <2>3
      <3>2. \A d \in Conns \ {c} : ~(InSection(d, s)')
        BY <1>3, <1>4, <3>1 DEF InSection, Own, Section
      <3>3. author'[s] = c
        BY <1>1 DEF WebInv, TypeOK, SettingsTypeOK
      <3>4. \A d \in Conns : at'[d] = "assign" => Section(d)' # s
        BY <1>3, <3>2 DEF InSection
      <3>5. \A w \in WordsOf[s] : Loaded(s, w)' = Loaded(s, w) /\ memory'[w] = memory[w]
        BY <1>1 DEF Loaded
      <3>6. (Fits(s)' <=> Fits(s)) /\ table' = table /\ (Up' <=> Up)
        BY <1>1, <1>3 DEF Fits, Up
      <3>7. \A d \in Conns, w \in WordsOf[s] : ~Awaits(d, s, w)
        BY <1>1, <3>1 DEF Awaits, InSection
      <3>8. Told(c, s)'
        <4>1. Picked(c, s)'
          BY <1>5, <1>8 DEF Picked
        <4> QED
          BY <1>3, <1>6, <1>7, <4>1 DEF Told, Working
      <3>9. author'[s] # NoRow /\ Told(author[s], s)'
        BY <3>3, <3>8, SettingsAssumption DEF Told, Picked, Stored, Section
      <3>10. \A d \in Conns : InSection(d, s)' => author'[s] = d
        BY <3>2, <3>3
      <3> QED
        BY <2>1, <2>3, <3>4, <3>5, <3>6, <3>7, <3>9, <3>10 DEF Agrees
    <2> QED
      BY <2>2, <2>3
  <1> QED
    BY <1>9, <1>10 DEF SectionInv

(* A request at a section: which one, and what it built for it.              *)
LEMMA AtSection ==
    ASSUME WebInv, NEW c \in Conns, at[c] \in {"save", "assign"}
    PROVE  /\ \E s \in Sections : s = Section(c)
           /\ put[c].value \in [WordsOf[Section(c)] -> Values]
           /\ put[c].words \subseteq Words
           /\ reply[c] = "none"
  <1>1. Section(c) \in Sections
    BY SettingsAssumption DEF WebInv, TypeOK, SettingsTypeOK, Section, Sections
  <1>2. put[c].value \in [WordsOf[Section(c)] -> Values] /\ put[c].words \subseteq Words
    BY DEF WebInv, TypeOK, SettingsTypeOK
  <1> QED
    BY <1>1, <1>2 DEF WebInv, Task

LEMMA SaveSection ==
    ASSUME WebInv, SectionInv, NEW c \in Conns, Settle(c), Save(c)
    PROVE  SectionInv'
  <1>0. at[c] = "save" /\ UNCHANGED <<memory, mixed, author>> /\ proc' = proc
    BY SettleParts DEF Save
  <1>1. PICK s \in Sections : s = Section(c)
    BY <1>0, AtSection
  <1>2. put[c].value \in [WordsOf[s] -> Values] /\ reply[c] = "none"
    BY <1>0, <1>1, AtSection
  <1>3. InSection(c, s) /\ \A t \in Sections \ {s} : ~InSection(c, t)
    BY <1>0, <1>1 DEF InSection
  <1>4. CASE Answer(c, "error") /\ UNCHANGED <<table, put>>
    <2>1. Own(c) /\ at'[c] = "ended" /\ reply'[c] = "error"
      BY <1>4, AnswerOwn
    <2>2. \A d \in Conns :
            \/ at'[d] = at[d] /\ reply'[d] = reply[d]
            \/ /\ at'[d] \notin Working /\ reply'[d] # "saved"
               /\ at[d] \in Working \cup {"ended"} => at'[d] = "ended"
               /\ at[d] = "assign" => ~Up'
      BY <1>0, <2>1 DEF Own, Working
    <2>3. UNCHANGED setVars /\ (Up' => Up)
      BY <1>0, <1>4 DEF setVars, Up
    <2> QED
      BY <2>2, <2>3, SectionQuiet
  <1>5. CASE /\ table' = [table EXCEPT ![s] = put[c].value]
             /\ put' = [put EXCEPT ![c].words = WordsOf[s]]
             /\ Go(c, "assign")
    <2>1. Own(c) /\ at'[c] = "assign" /\ reply'[c] = "none"
      BY <1>2, <1>5, GoOwn
    <2>2. \A d \in Conns \ {c} : put'[d] = put[d]
      BY <1>5 DEF WebInv, TypeOK, SettingsTypeOK
    <2>3. /\ put'[c].value = put[c].value /\ put'[c].next = put[c].next
          /\ put'[c].given = put[c].given /\ put'[c].words = WordsOf[s]
      BY <1>5, PutType DEF WebInv, TypeOK, Puts
    <2>4. Section(c)' = s
      BY <1>1, <2>3 DEF Section
    <2>5. SaneInv'
      <3>1. ASSUME NEW d \in Conns, at'[d] \in {"save", "assign"}
            PROVE  \A w \in WordsOf[Section(d)'] : Sane(w, put'[d].value[w])
        <4>1. CASE d = c
          BY <1>0, <1>1, <2>3, <2>4, <4>1 DEF SectionInv, SaneInv
        <4>2. CASE d # c
          BY <2>1, <2>2, <3>1, <4>2 DEF SectionInv, SaneInv, Own, Section
        <4> QED
          BY <4>1, <4>2
      <3> QED
        BY <1>0, <3>1 DEF SectionInv, SaneInv, Sane
    <2>6. ASSUME NEW t \in Sections \ mixed PROVE Agrees(t)'
      <3>1. Agrees(t)
        BY DEF SectionInv
      <3>2. CASE t # s
        <4>1. ~InSection(c, t) /\ ~(InSection(c, t)')
          BY <1>3, <2>4, <3>2 DEF InSection
        <4>2. table'[t] = table[t] /\ author'[t] = author[t]
          BY <1>0, <1>5, <3>2 DEF WebInv, TypeOK, SettingsTypeOK
        <4> QED
          BY <1>0, <2>1, <2>2, <2>3, <3>1, <4>1, <4>2, Elsewhere DEF Working
      <3>3. CASE t = s
        <4>1. author[s] = c /\ \A d \in Conns \ {c} : ~InSection(d, s)
          BY <1>3, <3>1, <3>3 DEF Agrees
        <4>2. \A d \in Conns \ {c} : ~(InSection(d, s)')
          BY <2>1, <2>2, <4>1 DEF InSection, Own, Section
        <4>3. table'[s] = put'[c].value
          BY <1>5, <2>3 DEF WebInv, TypeOK, SettingsTypeOK
        <4>4. \A w \in WordsOf[s] : Awaits(c, s, w)'
          BY <2>1, <2>3, <2>4 DEF Awaits
        <4>5. Stored(c, s)'
          <5>1. Picked(c, s)
            BY <1>0, <1>1, <3>1, <3>3, <4>1, SettingsAssumption DEF Agrees, Told
          <5> QED
            BY <2>3, <4>3, <5>1 DEF Picked, Stored
        <4>6. Told(c, s)'
          BY <2>1, <4>5 DEF Told, Working
        <4>7. author'[s] = c
          BY <1>0, <4>1
        <4>8. Told(author[s], s)'
          BY <4>6, <4>7 DEF Told, Picked, Stored, Section
        <4>9. \A d \in Conns : InSection(d, s)' => author'[s] = d
          BY <4>2, <4>7
        <4>10. \A d \in Conns : at'[d] = "assign" /\ Section(d)' = s => table'[s] = put'[d].value
          BY <4>2, <4>3 DEF InSection
        <4> QED
          BY <3>3, <4>4, <4>8, <4>9, <4>10 DEF Agrees
      <3> QED
        BY <3>2, <3>3
    <2> QED
      BY <1>0, <2>5, <2>6 DEF SectionInv
  <1> QED
    BY <1>1, <1>4, <1>5 DEF Save

LEMMA AssignSection ==
    ASSUME WebInv, SectionInv, NEW c \in Conns, Settle(c), Assign(c)
    PROVE  SectionInv'
  <1>0. at[c] = "assign" /\ UNCHANGED <<table, mixed, author>> /\ proc' = proc
    BY SettleParts DEF Assign
  <1>1. PICK s \in Sections : s = Section(c)
    BY <1>0, AtSection
  <1>2. /\ put[c].value \in [WordsOf[s] -> Values] /\ reply[c] = "none"
        /\ put[c].words \subseteq WordsOf[s]
    BY <1>0, <1>1, AtSection DEF WebInv, TypeOK, SettingsTypeOK
  <1>3. InSection(c, s) /\ \A t \in Sections \ {s} : ~InSection(c, t)
    BY <1>0, <1>1 DEF InSection
  <1>4. PICK w \in put[c].words :
            /\ memory' = [memory EXCEPT ![w] = InForce(w, put[c].value[w])]
            /\ IF put[c].words = {w}
               THEN /\ put' = [put EXCEPT ![c].words = {}, ![c].value = <<>>,
                                          ![c].next = @ + 1]
                    /\ Go(c, "pick")
               ELSE /\ put' = [put EXCEPT ![c].words = @ \ {w}]
                    /\ UNCHANGED reqVars
    BY DEF Assign
  <1>5. \A d \in Conns \ {c} : put'[d] = put[d]
    BY <1>4 DEF WebInv, TypeOK, SettingsTypeOK
  <1>6. put'[c].given = put[c].given
    BY <1>4, PutType DEF WebInv, TypeOK, Puts
  <1>7. /\ Own(c) /\ reply'[c] = "none"
        /\ \/ at'[c] = "pick" /\ put[c].words = {w}
           \/ /\ at'[c] = "assign" /\ Section(c)' = s
              /\ put'[c].value = put[c].value
              /\ put'[c].words = put[c].words \ {w}
    <2>1. CASE put[c].words = {w}
      BY <1>2, <1>4, <2>1, GoOwn
    <2>2. CASE put[c].words # {w}
      <3>1. put' = [put EXCEPT ![c].words = @ \ {w}] /\ UNCHANGED reqVars
        BY <1>4, <2>2
      <3>2. /\ put'[c].value = put[c].value /\ put'[c].next = put[c].next
            /\ put'[c].words = put[c].words \ {w}
        BY <3>1, PutType DEF WebInv, TypeOK, Puts
      <3>3. Section(c)' = s
        BY <1>1, <3>2 DEF Section
      <3> QED
        BY <1>0, <1>2, <3>1, <3>2, <3>3, SameOwn
    <2> QED
      BY <2>1, <2>2
  <1>8. \A v \in Words \ {w} : memory'[v] = memory[v]
    BY <1>4 DEF WebInv, TypeOK, SettingsTypeOK
  <1>9. w \in WordsOf[s] /\ w \in Words /\ memory'[w] = InForce(w, put[c].value[w])
    BY <1>2, <1>4, SectionWords DEF WebInv, TypeOK, SettingsTypeOK
  <1>10. Sane(w, put[c].value[w])
    BY <1>0, <1>1, <1>9 DEF SectionInv, SaneInv
  <1>11. SaneInv'
    <2>1. ASSUME NEW v \in Words PROVE Sane(v, memory'[v])
      <3>1. CASE v = w
        BY <1>9, <1>10, <3>1 DEF Sane, InForce
      <3>2. CASE v # w
        BY <1>8, <3>2 DEF SectionInv, SaneInv
      <3> QED
        BY <3>1, <3>2
    <2>2. ASSUME NEW d \in Conns, at'[d] \in {"save", "assign"}
          PROVE  \A v \in WordsOf[Section(d)'] : Sane(v, put'[d].value[v])
      <3>1. CASE d = c
        BY <1>0, <1>1, <1>7, <2>2, <3>1 DEF SectionInv, SaneInv
      <3>2. CASE d # c
        BY <1>5, <1>7, <2>2, <3>2 DEF SectionInv, SaneInv, Own, Section
      <3> QED
        BY <3>1, <3>2
    <2> QED
      BY <2>1, <2>2 DEF SaneInv, Sane
  <1>12. ASSUME NEW t \in Sections \ mixed PROVE Agrees(t)'
    <2>1. Agrees(t)
      BY DEF SectionInv
    <2>2. CASE t # s
      <3>1. ~InSection(c, t) /\ ~(InSection(c, t)')
        BY <1>3, <1>7, <2>2 DEF InSection
      <3>2. \A v \in WordsOf[t] : v # w /\ v \in Words
        BY <1>9, <2>2, SectionWords, SettingsAssumption
      <3>3. \A v \in WordsOf[t] : memory'[v] = memory[v]
        BY <1>8, <3>2
      <3> QED
        BY <1>0, <1>5, <1>6, <1>7, <2>1, <3>1, <3>3, Elsewhere DEF Working
    <2>3. CASE t = s
      <3>1. author[s] = c /\ \A d \in Conns \ {c} : ~InSection(d, s)
        BY <1>3, <2>1, <2>3 DEF Agrees
      <3>2. \A d \in Conns \ {c} : ~(InSection(d, s)')
        BY <1>5, <1>7, <3>1 DEF InSection, Own, Section
      <3>3. table[s] = put[c].value
        BY <1>0, <1>1, <2>1, <2>3 DEF Agrees
      <3>4. table[s] # NoRow
        BY <1>2, <3>3, SettingsAssumption
      <3>5. (Fits(s)' <=> Fits(s)) /\ table' = table /\ (Up' <=> Up)
        BY <1>0 DEF Fits, Up
      <3>6. \A v \in WordsOf[s] : Loaded(s, v)' = Loaded(s, v)
        BY <1>0 DEF Loaded
      <3>7. ASSUME Fits(s), Up, NEW v \in WordsOf[s]
            PROVE  memory'[v] = Loaded(s, v) \/ \E d \in Conns : Awaits(d, s, v)'
        <4>1. CASE v = w
          <5>1. w \in Limits /\ table[s][w] <= 0 => w \in Limits \ Durations
            <6>1. table[s][w] \in Int
              BY <1>2, <1>9, <3>3, SettingsAssumption DEF Values
            <6>2. w \in Durations => table[s][w] > 0
              BY <1>9, <3>7 DEF Fits
            <6> QED
              BY <6>1, <6>2
          <5>2. w \in Limits /\ table[s][w] <= 0 => table[s][w] = Default[w]
            <6>1. table[s][w] \in Int
              BY <1>2, <1>9, <3>3, SettingsAssumption DEF Values
            <6> QED
              BY <1>10, <3>3, <5>1, <6>1 DEF Sane
          <5>3. Loaded(s, w) = InForce(w, table[s][w])
            <6>1. CASE w \in Limits /\ table[s][w] <= 0
              BY <5>2, <6>1 DEF Loaded
            <6>2. CASE ~(w \in Limits /\ table[s][w] <= 0)
              BY <3>4, <6>2 DEF Loaded
            <6> QED
              BY <6>1, <6>2
          <5> QED
            BY <1>9, <3>3, <4>1, <5>3
        <4>2. CASE v # w
          <5>1. memory'[v] = memory[v]
            BY <1>8, <4>2, SectionWords
          <5>2. memory[v] = Loaded(s, v) \/ \E d \in Conns : Awaits(d, s, v)
            BY <2>1, <2>3, <3>7 DEF Agrees
          <5>3. ASSUME NEW d \in Conns, Awaits(d, s, v) PROVE Awaits(c, s, v)'
            <6>1. d = c
              BY <3>1, <5>3 DEF Awaits, InSection
            <6>2. v \in put[c].words
              BY <5>3, <6>1 DEF Awaits
            <6> QED
              BY <1>7, <4>2, <6>2 DEF Awaits
          <5> QED
            BY <5>1, <5>2, <5>3
        <4> QED
          BY <4>1, <4>2
      <3>8. Told(c, s)'
        <4>1. Stored(c, s)
          BY <1>0, <2>1, <2>3, <3>1, SettingsAssumption DEF Agrees, Told
        <4>2. Stored(c, s)'
          BY <1>0, <1>6, <4>1 DEF Stored
        <4> QED
          BY <1>7, <4>2 DEF Told, Working
      <3>9. author'[s] = c
        BY <1>0, <3>1
      <3>10. Told(author[s], s)'
        BY <3>8, <3>9 DEF Told, Picked, Stored, Section
      <3>11. \A d \in Conns : InSection(d, s)' => author'[s] = d
        BY <3>2, <3>9
      <3>12. \A d \in Conns : at'[d] = "assign" /\ Section(d)' = s => table'[s] = put'[d].value
        BY <1>0, <1>7, <3>2, <3>3 DEF InSection
      <3>13. Up' /\ (table'[s] # NoRow => Fits(s)') =>
                \A v \in WordsOf[s] :
                    memory'[v] = Loaded(s, v)' \/ \E d \in Conns : Awaits(d, s, v)'
        BY <3>4, <3>5, <3>6, <3>7
      <3> QED
        BY <2>3, <3>10, <3>11, <3>12, <3>13 DEF Agrees
    <2> QED
      BY <2>2, <2>3
  <1> QED
    BY <1>0, <1>11, <1>12 DEF SectionInv

LEMMA BodySection ==
    ASSUME WebInv, SectionInv, NEW c \in Conns, Body(c), BeginPut(c)
    PROVE  SectionInv'
  <1>1. PICK payload \in Payloads : put' = [put EXCEPT ![c].given = payload]
    BY DEF BeginPut
  <1>2. at[c] = "body" /\ UNCHANGED <<table, memory, mixed, author>> /\ (Up' <=> Up)
    BY DEF Body, BeginPut, procVars, Up
  <1>3. Own(c) /\ at'[c] \in {"pick", "ended"}
    <2>1. Go(c, "pick") \/ Answer(c, "refused")
      BY DEF Body
    <2> QED
      BY <2>1, GoOwn, AnswerOwn
  <1>4. \A d \in Conns \ {c} : /\ put'[d] = put[d] /\ at'[d] = at[d] /\ reply'[d] = reply[d]
                                /\ Section(d)' = Section(d)
    BY <1>1, <1>3 DEF WebInv, TypeOK, SettingsTypeOK, Own, Section
  <1>5. SaneInv'
    BY <1>2, <1>3, <1>4 DEF SectionInv, SaneInv
  <1>6. ASSUME NEW s \in Sections \ mixed PROVE Agrees(s)'
    <2>1. Agrees(s)
      BY DEF SectionInv
    <2>2. \A d \in Conns : InSection(d, s)' => InSection(d, s) /\ d # c
      BY <1>3, <1>4 DEF InSection
    <2>3. \A w \in WordsOf[s] : Loaded(s, w)' = Loaded(s, w)
      BY <1>2 DEF Loaded
    <2>4. Fits(s)' <=> Fits(s)
      BY <1>2 DEF Fits
    <2>5. \A d \in Conns, w \in WordsOf[s] : Awaits(d, s, w) => Awaits(d, s, w)'
      <3> SUFFICES ASSUME NEW d \in Conns, NEW w \in WordsOf[s], Awaits(d, s, w)
                   PROVE  Awaits(d, s, w)'
        OBVIOUS
      <3>1. d # c
        BY <1>2 DEF Awaits
      <3> QED
        BY <1>4, <3>1 DEF Awaits
    <2>6. ASSUME author[s] # NoRow PROVE Told(author[s], s)'
      <3>1. PICK a \in Conns : a = author[s]
        BY <2>6 DEF WebInv, TypeOK, SettingsTypeOK
      <3>2. Told(a, s) /\ a # c
        BY <1>2, <2>1, <2>6, <3>1 DEF Agrees, Told, Working
      <3>3. (Picked(a, s)' <=> Picked(a, s)) /\ (Stored(a, s)' <=> Stored(a, s))
        BY <1>2, <1>4, <3>2 DEF Picked, Stored
      <3>4. Told(a, s)'
        BY <1>4, <3>2, <3>3 DEF Told
      <3>5. author'[s] = a
        BY <1>2, <3>1
      <3> QED
        BY <3>4, <3>5 DEF Told, Picked, Stored, Section
    <2>7. \A d \in Conns : at'[d] = "assign" /\ Section(d)' = s => table'[s] = put'[d].value
      BY <1>2, <1>4, <2>1, <2>2 DEF Agrees, InSection
    <2>8. Up' /\ (table'[s] # NoRow => Fits(s)') =>
            \A w \in WordsOf[s] :
                memory'[w] = Loaded(s, w)' \/ \E d \in Conns : Awaits(d, s, w)'
      BY <1>2, <2>1, <2>3, <2>4, <2>5 DEF Agrees
    <2> QED
      BY <1>2, <2>1, <2>2, <2>6, <2>7, <2>8 DEF Agrees
  <1> QED
    BY <1>2, <1>5, <1>6 DEF SectionInv

LEMMA StartSection ==
    ASSUME WebInv, SectionInv, Start
    PROVE  SectionInv'
  <1>1. /\ UNCHANGED <<at, reply, table, put, mixed, author>>
        /\ memory' = [w \in Words |-> Loaded(CHOOSE s \in Sections : w \in WordsOf[s], w)]
    BY DEF Start, Load, reqVars
  <1>2. ASSUME NEW s \in Sections, NEW w \in WordsOf[s]
        PROVE  memory'[w] = Loaded(s, w)
    <2>1. w \in Words
      BY SectionWords
    <2>2. PICK t \in Sections : t = (CHOOSE r \in Sections : w \in WordsOf[r]) /\ w \in WordsOf[t]
      BY <1>2
    <2>3. t = s
      BY <2>2, SettingsAssumption
    <2> QED
      BY <1>1, <2>1, <2>2, <2>3
  <1>3. SaneInv'
    <2>1. ASSUME NEW w \in Words PROVE Sane(w, memory'[w])
      <3>1. PICK s \in Sections : w \in WordsOf[s]
        BY DEF Words
      <3>2. memory'[w] = Loaded(s, w)
        BY <1>2, <3>1
      <3>3. table[s] # NoRow => table[s][w] \in Int
        BY <3>1, SettingsAssumption DEF WebInv, TypeOK, SettingsTypeOK, Values
      <3> QED
        BY <3>2, <3>3 DEF Sane, Loaded, InForce
    <2> QED
      BY <1>1, <2>1 DEF SectionInv, SaneInv, Sane, Section
  <1>4. ASSUME NEW s \in Sections \ mixed PROVE Agrees(s)'
    <2>1. Agrees(s)
      BY DEF SectionInv
    <2>2. \A w \in WordsOf[s] : memory'[w] = Loaded(s, w)'
      BY <1>1, <1>2 DEF Loaded
    <2>3. \A c \in Conns : Section(c)' = Section(c) /\ (InSection(c, s)' <=> InSection(c, s))
      BY <1>1 DEF Section, InSection
    <2>4. ASSUME author[s] # NoRow PROVE Told(author[s], s)'
      BY <1>1, <2>1, <2>4 DEF Agrees, Told, Picked, Stored, Section
    <2> QED
      BY <1>1, <2>1, <2>2, <2>3, <2>4 DEF Agrees
  <1> QED
    BY <1>1, <1>3, <1>4 DEF SectionInv

LEMMA NextSections == ASSUME WebInv, SectionInv, [Next]_vars PROVE SectionInv'
  <1> USE DEF PutSteps, LogSteps, ScanSteps, Working
  <1>1. CASE Aside
    <2>1. UNCHANGED setVars /\ (Up' => Up)
      BY <1>1 DEF Aside
    <2>2. \A c \in Conns :
            \/ at'[c] = at[c] /\ reply'[c] = reply[c]
            \/ /\ at'[c] \notin Working /\ reply'[c] # "saved"
               /\ at[c] \in Working \cup {"ended"} => at'[c] = "ended"
               /\ at[c] = "assign" => ~Up'
      BY <1>1 DEF Aside, Passes
    <2> QED
      BY <2>1, <2>2, SectionQuiet
  <1>2. ASSUME NEW c \in Conns, Settle(c) PROVE SectionInv'
    BY <1>2, SettleParts, SkipSection, PickSection, SaveSection, AssignSection, AppliedSection
  <1>3. ASSUME NEW c \in Conns, History(c) PROVE SectionInv'
    <2>1. /\ UNCHANGED setVars /\ Own(c) /\ at[c] \in LogSteps
          /\ at'[c] \in LogSteps \cup {"ended"} /\ reply'[c] \in {reply[c], "error", "history"}
      BY <1>3, HistoryParts
    <2>2. reply[c] = "none"
      BY <2>1 DEF WebInv, Task
    <2>3. Up' => Up
      BY <1>3 DEF History, procVars, Up
    <2>4. \A d \in Conns :
            \/ at'[d] = at[d] /\ reply'[d] = reply[d]
            \/ /\ at'[d] \notin Working /\ reply'[d] # "saved"
               /\ at[d] \in Working \cup {"ended"} => at'[d] = "ended"
               /\ at[d] = "assign" => ~Up'
      BY <2>1, <2>2 DEF Own
    <2> QED
      BY <2>1, <2>3, <2>4, SectionQuiet
  <1> QED
    BY <1>1, <1>2, <1>3, BodySection, StartSection, Steps4

(* The configuration in memory is the one a restart would load, in every     *)
(* section no two requests worked on at once, and an answer "saved" means    *)
(* the values are in the table until another request takes the section       *)
(* (applySettingsPayload, applyPersistedSettingsToConfig).                   *)
THEOREM SettingsAlwaysAgree == Spec => []SettingsAgree
  <1>1. Init => SectionInv
    <2> SUFFICES ASSUME Init PROVE SectionInv
      OBVIOUS
    <2>1. SaneInv
      BY DEF Init, SettingsInit, SaneInv, Sane, InForce
    <2>2. ASSUME NEW s \in Sections PROVE Agrees(s)
      BY DEF Init, SettingsInit, Agrees, InSection, Up
    <2> QED
      BY <2>1, <2>2 DEF SectionInv
  <1>2. WebInv /\ SectionInv /\ [Next]_vars => (WebInv /\ SectionInv)'
    BY NextWeb, NextSections
  <1>3. WebInv /\ SectionInv => SettingsAgree
    <2> SUFFICES ASSUME WebInv, SectionInv, NEW s \in Sections \ mixed
                 PROVE  /\ Up /\ ~(\E c \in Conns : at[c] = "assign" /\ InSection(c, s))
                              /\ (table[s] # NoRow => Fits(s))
                            => \A w \in WordsOf[s] : memory[w] = Loaded(s, w)
                        /\ author[s] # NoRow /\ reply[author[s]] = "saved"
                            => Stored(author[s], s)
      BY DEF SettingsAgree, Stored
    <2>1. Agrees(s)
      BY DEF SectionInv
    <2>2. \A c \in Conns, w \in WordsOf[s] :
            Awaits(c, s, w) => at[c] = "assign" /\ InSection(c, s)
      BY DEF Awaits, InSection
    <2> QED
      BY <2>1, <2>2 DEF Agrees, Told
  <1> QED
    BY WebInit, <1>1, <1>2, <1>3, PTL DEF Spec

=============================================================================
