-------------------------- MODULE AgentCallsProofs --------------------------
(***************************************************************************)
(* Safety of a call to an agent, for any calls, mixes of kinds, files and  *)
(* containers: types, what an answer means, what is done twice, whole      *)
(* bundles, and the goroutines a call leaves behind.                       *)
(***************************************************************************)
EXTENDS AgentCalls, TLAPS

-----------------------------------------------------------------------------
(* The inductive invariant. *)

(* What was answered as done was done, or is a build whose failure nobody   *)
(* read.                                                                   *)
Done(r) ==
    r.kind \in Effects /\ r.runs = 0 =>
      r.kind = "build" /\ r.socket = "streamed" /\ r.cli = "none"

(* What a listing shows of the moments of its call.                        *)
Shows(r, moments) ==
    /\ r.kind = "list" => \E m \in moments : r.seen = {m}
    /\ r.kind = "containers" => r.seen # {} /\ r.seen \subseteq moments

(* How far a call is, what it left with Podman, and what it answers.       *)
CallOK(r) ==
    /\ r.pc = "idle" => r.runs = 0 /\ r.socket = "none" /\ r.client = "idle"
    /\ r.pc \in {"idle", "preferred", "socket", "inspect", "fallback", "files"} =>
          r.cli = "none"
    /\ r.pc = "inspect" => r.kind = "containers"
    /\ r.socket = "streamed" => r.kind = "build"
    /\ r.pc = "preferred" => r.socket = "none"
    /\ r.kind \in CliOnly => r.socket = "none" /\ r.pc # "socket"
    /\ r.cli = "running" => r.pc = "cli"
    /\ r.pc = "drain" => r.kind \in LogKinds
    /\ r.pc = "respond" => r.result # "none"
    /\ r.pc \notin {"respond", "done"} => r.result = "none"
    /\ r.runs <= (IF r.socket = "done" THEN 1 ELSE 0)
                 + (IF r.cli \in {"done", "ended"} THEN 1 ELSE 0)
    /\ r.kind \notin Effects => r.runs = 0
    /\ r.kind \in Effects /\ (r.socket = "done" \/ r.cli = "done") => r.runs > 0
    /\ r.result = "ok" => Done(r)
    /\ r.client = "ok" => r.pc = "done" /\ r.result = "ok"
    /\ r.pc # "idle" => r.client # "idle"

(* A listing that counts was read during the call.                         *)
SeenOK(r, moments, now) ==
    /\ r.pc \notin {"idle", "done"} => now \in moments
    /\ (r.pc = "socket" /\ r.socket = "done") \/ r.pc = "inspect" \/ r.cli = "done"
         \/ r.result = "ok"
       => Shows(r, moments)

(* A deployment's written files are its own until its "up" reads them,     *)
(* unless another one has rewritten a file.                                *)
BundleOK(c, r, files, rewritten) ==
    r.kind = "deploy" =>
      /\ r.pc \in {"preferred", "fallback"} => r.todo = Files
      /\ r.cli # "none" => r.todo = {}
      /\ r.pc = "files" \/ r.cli \in {"running", "orphan"} =>
            \A f \in Files \ r.todo : files[f] = c \/ rewritten
      /\ r.runs > 0 /\ ~rewritten => r.up = [f \in Files |-> c]

(* The goroutine of one container never has more lines than the handler    *)
(* still takes.                                                            *)
LogOK(r, l) ==
    /\ r.pc \notin {"drain", "respond", "done"} => l = NoLog
    /\ r.kind # "podLogs" =>
          /\ l.via # "pod"
          /\ l.feed + l.buf + l.taken <= Last
          /\ r.pc \in {"respond", "done"} => l.feed = 0

(* What is true of a call if r stands for it.                              *)
Sound(c, r) ==
    /\ CallOK(r)
    /\ SeenOK(r, during[c], host)
    /\ BundleOK(c, r, dir, mixed[c])
    /\ LogOK(r, log[c])

IInv == TypeOK /\ \A c \in Calls : Sound(c, call[c])

-----------------------------------------------------------------------------
(* Steps that change one call and nothing else. *)

LEMMA NoCallType == NoCall \in Call
  BY DEF NoCall, Call, Requested, Kinds, Steps, Results

LEMMA NoLogType == NoLog \in Log
  BY DEF NoLog, Log

(* A record of the right type that is sound may take a call's place.       *)
LEMMA PutStep ==
    ASSUME IInv, NEW c \in Calls, NEW r \in Call,
           Put(c, r), UNCHANGED logAndHistory, Sound(c, r)
    PROVE  IInv'
  <1>1. TypeOK'
    BY DEF IInv, TypeOK, Put, logAndHistory
  <1>2. ASSUME NEW d \in Calls PROVE Sound(d, call[d])'
    <2>1. call'[d] = IF d = c THEN r ELSE call[d]
      BY DEF IInv, TypeOK, Put
    <2>2. Sound(d, call'[d])
      BY <2>1 DEF IInv
    <2> QED
      BY <2>2 DEF Sound, logAndHistory
  <1> QED
    BY <1>1, <1>2 DEF IInv

(* The caller: it leaves, its connection is closed, it is answered.        *)
LEMMA CallerStep ==
    ASSUME IInv, NEW c \in Calls, Leave(c) \/ Cancelled(c) \/ Respond(c)
    PROVE  IInv'
  <1> DEFINE r == call[c]
  <1>1. r \in Call /\ Sound(c, r)
    BY DEF IInv, TypeOK
  <1>2. CASE Leave(c)
    <2> DEFINE s == [r EXCEPT !.client = "gone"]
    <2>1. s \in Call
      BY <1>1 DEF Call
    <2>2. Sound(c, s)
      BY <1>1, <1>2 DEF Leave, Sound, CallOK, Done, SeenOK, Shows, BundleOK, LogOK, Call
    <2> QED
      BY <1>2, <2>1, <2>2, PutStep DEF Leave
  <1>3. CASE Cancelled(c)
    <2> DEFINE s == [r EXCEPT !.cancelled = TRUE]
    <2>1. s \in Call
      BY <1>1 DEF Call
    <2>2. Sound(c, s)
      BY <1>1 DEF Sound, CallOK, Done, SeenOK, Shows, BundleOK, LogOK, Call
    <2> QED
      BY <1>3, <2>1, <2>2, PutStep DEF Cancelled
  <1>4. CASE Respond(c)
    <2> DEFINE s == [r EXCEPT !.pc = "done",
                       !.client = IF @ = "waiting" THEN r.result ELSE @]
    <2>1. r.pc = "respond"
      BY <1>4 DEF Respond
    <2>2. s \in Call
      BY <1>1, <2>1 DEF Sound, CallOK, Done, Call, Steps, Results
    <2>3. CallOK(s)
      BY <1>1, <2>1 DEF Sound, CallOK, Done, Call, Results
    <2>4. SeenOK(s, during[c], host) /\ BundleOK(c, s, dir, mixed[c]) /\ LogOK(s, log[c])
      BY <1>1, <2>1 DEF Sound, CallOK, Done, SeenOK, Shows, BundleOK, LogOK, Call
    <2> QED
      BY <1>4, <2>2, <2>3, <2>4, PutStep DEF Respond, Sound
  <1> QED
    BY <1>2, <1>3, <1>4

(* What the host does without anyone's notice, and what fails on it.       *)
LEMMA HostQuietStep ==
    ASSUME IInv, NEW c \in Calls,
           \/ SocketReads(c) \/ SocketStreams(c) \/ SocketFails(c)
           \/ CliReads(c) \/ CliFails(c)
    PROVE  IInv'
  <1> DEFINE r == call[c]
  <1>1. r \in Call /\ Sound(c, r)
    BY DEF IInv, TypeOK
  <1>2. host \in Calls \cup {None}
    BY DEF IInv, TypeOK
  <1>3. CASE SocketReads(c)
    <2> DEFINE s == [[r EXCEPT !.socket = "done"]
                       EXCEPT !.seen = IF r.pc = "socket" THEN {host} ELSE @]
    <2>1. s \in Call
      BY <1>1, <1>2 DEF Call, Requested
    <2>2. r.socket = "pending" /\ r.kind \notin Effects
      BY <1>3 DEF SocketReads, Reads
    <2>3. CallOK(s)
      BY <1>1, <2>2 DEF Sound, CallOK, Done, Call, Effects
    <2>4. SeenOK(s, during[c], host)
      BY <1>1, <2>2 DEF Sound, CallOK, Done, SeenOK, Shows, Call
    <2>5. BundleOK(c, s, dir, mixed[c]) /\ LogOK(s, log[c])
      BY <1>1, <2>2 DEF Sound, BundleOK, LogOK, Call
    <2> QED
      BY <1>3, <2>1, <2>3, <2>4, <2>5, PutStep DEF SocketReads, Reads, Sound
  <1>4. CASE CliReads(c)
    <2> DEFINE s == [[r EXCEPT !.cli = "done"] EXCEPT !.seen = IF TRUE THEN {host} ELSE @]
    <2>1. s \in Call
      BY <1>1, <1>2 DEF Call
    <2>2. r.cli = "running" /\ r.kind \notin Effects
      BY <1>4 DEF CliReads, Reads
    <2>3. CallOK(s)
      BY <1>1, <2>2 DEF Sound, CallOK, Done, Call, Effects
    <2>4. SeenOK(s, during[c], host)
      BY <1>1, <2>2 DEF Sound, CallOK, Done, SeenOK, Shows, Call
    <2>5. BundleOK(c, s, dir, mixed[c]) /\ LogOK(s, log[c])
      BY <1>1, <2>2 DEF Sound, BundleOK, LogOK, Call, Effects, CliOnly
    <2> QED
      BY <1>4, <2>1, <2>3, <2>4, <2>5, PutStep DEF CliReads, Reads, Sound
  <1>5. CASE SocketFails(c)
    <2> DEFINE s == [r EXCEPT !.socket = "failed"]
    <2>1. s \in Call
      BY <1>1 DEF Call, Requested
    <2>2. r.socket = "pending"
      BY <1>5 DEF SocketFails
    <2>3. CallOK(s)
      BY <1>1, <2>2 DEF Sound, CallOK, Done, Call
    <2>4. SeenOK(s, during[c], host) /\ BundleOK(c, s, dir, mixed[c]) /\ LogOK(s, log[c])
      BY <1>1, <2>2 DEF Sound, SeenOK, Shows, BundleOK, LogOK, Call
    <2> QED
      BY <1>5, <2>1, <2>3, <2>4, PutStep DEF SocketFails, Sound
  <1>6. CASE CliFails(c)
    <2> DEFINE s == [r EXCEPT !.cli = "failed"]
    <2>1. s \in Call
      BY <1>1 DEF Call
    <2>2. r.cli = "running"
      BY <1>6 DEF CliFails
    <2>3. CallOK(s)
      BY <1>1, <2>2 DEF Sound, CallOK, Done, Call
    <2>4. SeenOK(s, during[c], host) /\ BundleOK(c, s, dir, mixed[c]) /\ LogOK(s, log[c])
      BY <1>1, <2>2 DEF Sound, SeenOK, Shows, BundleOK, LogOK, Call
    <2> QED
      BY <1>6, <2>1, <2>3, <2>4, PutStep DEF CliFails, Sound
  <1>7. CASE SocketStreams(c)
    <2> DEFINE s == [r EXCEPT !.socket = "streamed"]
    <2>1. s \in Call
      BY <1>1 DEF Call, Requested
    <2>2. r.socket = "pending" /\ r.kind = "build"
      BY <1>7 DEF SocketStreams
    <2>3. CallOK(s)
      BY <1>1, <2>2 DEF Sound, CallOK, Done, Call
    <2>4. SeenOK(s, during[c], host) /\ BundleOK(c, s, dir, mixed[c]) /\ LogOK(s, log[c])
      BY <1>1, <2>2 DEF Sound, SeenOK, Shows, BundleOK, LogOK, Call
    <2> QED
      BY <1>7, <2>1, <2>3, <2>4, PutStep DEF SocketStreams, Sound
  <1> QED
    BY <1>3, <1>4, <1>5, <1>6, <1>7

(* A step of the handler to a point where nothing is left with Podman yet. *)
LEMMA ToFallbackStep ==
    ASSUME IInv, NEW c \in Calls, call[c].pc \in {"preferred", "socket"}, ToFallback(c)
    PROVE  IInv'
  <1> DEFINE r == call[c]
             s == [r EXCEPT !.pc = "fallback"]
  <1>1. r \in Call /\ Sound(c, r)
    BY DEF IInv, TypeOK
  <1>2. s \in Call
    BY <1>1 DEF Call, Steps
  <1>3. CallOK(s)
    BY <1>1 DEF Sound, CallOK, Done, Call
  <1>4. SeenOK(s, during[c], host) /\ BundleOK(c, s, dir, mixed[c]) /\ LogOK(s, log[c])
    BY <1>1 DEF Sound, CallOK, Done, SeenOK, Shows, BundleOK, LogOK, Call, CliOnly
  <1> QED
    BY <1>2, <1>3, <1>4, PutStep DEF ToFallback, Sound

(* A call is answered: whatever is reported as done has been done.         *)
LEMMA AnswerStep ==
    ASSUME IInv, NEW c \in Calls, NEW t \in Results \ {"none"},
           call[c].pc \notin {"idle", "respond", "done"},
           t = "ok" => Done(call[c]) /\ Shows(call[c], during[c]),
           call[c].cli # "running",
           call[c].kind # "podLogs" => log[c].feed = 0,
           Put(c, Answered(c, t)), UNCHANGED logAndHistory
    PROVE  IInv'
  <1> DEFINE r == call[c]
             s == [r EXCEPT !.pc = "respond", !.result = t]
  <1>1. r \in Call /\ Sound(c, r)
    BY DEF IInv, TypeOK
  <1>2. s \in Call
    BY <1>1 DEF Call, Steps
  <1>3. CallOK(s)
    BY <1>1 DEF Sound, CallOK, Done, Call
  <1>4. SeenOK(s, during[c], host) /\ BundleOK(c, s, dir, mixed[c])
    BY <1>1 DEF Sound, CallOK, Done, SeenOK, Shows, BundleOK, Call
  <1>5. LogOK(s, log[c])
    BY <1>1 DEF Sound, LogOK, Call
  <1> QED
    BY <1>2, <1>3, <1>4, <1>5, PutStep DEF Answered, Sound

(* Before it drains a log, the handler has no goroutine.                   *)
LEMMA NoFeed ==
    ASSUME IInv, NEW c \in Calls, call[c].pc \notin {"drain", "respond", "done"}
    PROVE  log[c].feed = 0
  BY DEF IInv, Sound, LogOK, NoLog

(* The runtime's choice: refused, sent, given up, passed to the CLI.       *)
LEMMA RuntimeStep ==
    ASSUME IInv, NEW c \in Calls,
           Reject(c) \/ Preferred(c) \/ SocketGivesUp(c) \/ Fallback(c)
    PROVE  IInv'
  <1> DEFINE r == call[c]
  <1>1. r \in Call /\ Sound(c, r)
    BY DEF IInv, TypeOK
  <1>2. CASE Reject(c)
    <2>1. r.pc = "preferred" /\ Put(c, Answered(c, "error")) /\ UNCHANGED logAndHistory
      BY <1>2 DEF Reject
    <2>2. r.cli # "running"
      BY <1>1, <2>1 DEF Sound, CallOK, Done
    <2>3. log[c].feed = 0
      BY <2>1, NoFeed
    <2> QED
      BY <2>1, <2>2, <2>3, AnswerStep DEF Results
  <1>3. CASE Preferred(c)
    <2>1. CASE ToFallback(c)
      BY <1>3, <2>1, ToFallbackStep DEF Preferred
    <2>2. CASE ~ToFallback(c)
      <3> DEFINE s == [r EXCEPT !.pc = "socket", !.socket = "pending"]
      <3>1. /\ r.pc = "preferred" /\ r.kind \notin CliOnly
            /\ Put(c, s) /\ UNCHANGED logAndHistory
        BY <1>3, <2>2 DEF Preferred
      <3>2. s \in Call
        BY <1>1 DEF Call, Requested, Steps
      <3>3. CallOK(s)
        BY <1>1, <3>1 DEF Sound, CallOK, Done, Call
      <3>4. SeenOK(s, during[c], host) /\ BundleOK(c, s, dir, mixed[c]) /\ LogOK(s, log[c])
        BY <1>1, <3>1 DEF Sound, CallOK, Done, SeenOK, Shows, BundleOK, LogOK, Call, CliOnly
      <3> QED
        BY <3>1, <3>2, <3>3, <3>4, PutStep DEF Sound
    <2> QED
      BY <2>1, <2>2
  <1>4. CASE SocketGivesUp(c)
    BY <1>4, ToFallbackStep DEF SocketGivesUp
  <1>5. CASE Fallback(c)
    <2>1. r.pc = "fallback" /\ UNCHANGED logAndHistory
      BY <1>5 DEF Fallback
    <2>2. r.cli = "none"
      BY <1>1, <2>1 DEF Sound, CallOK, Done
    <2>3. CASE r.kind # "deploy" /\ Put(c, Start(c))
      <3> DEFINE s == [r EXCEPT !.pc = "cli", !.cli = "running"]
      <3>1. s \in Call
        BY <1>1 DEF Call, Steps
      <3>2. CallOK(s)
        BY <1>1, <2>1, <2>2 DEF Sound, CallOK, Done, Call
      <3>3. SeenOK(s, during[c], host) /\ BundleOK(c, s, dir, mixed[c]) /\ LogOK(s, log[c])
        BY <1>1, <2>1, <2>2, <2>3 DEF Sound, CallOK, Done, SeenOK, Shows, BundleOK, LogOK, Call
      <3> QED
        BY <2>1, <2>3, <3>1, <3>2, <3>3, PutStep DEF Start, Sound
    <2>4. CASE r.kind = "deploy" /\ Put(c, [r EXCEPT !.pc = "files"])
      <3> DEFINE s == [r EXCEPT !.pc = "files"]
      <3>1. s \in Call
        BY <1>1 DEF Call, Steps
      <3>2. CallOK(s)
        BY <1>1, <2>1, <2>2 DEF Sound, CallOK, Done, Call
      <3>3. SeenOK(s, during[c], host) /\ LogOK(s, log[c])
        BY <1>1, <2>1, <2>2, <2>4 DEF Sound, CallOK, Done, SeenOK, Shows, LogOK, Call
      <3>4. BundleOK(c, s, dir, mixed[c])
        BY <1>1, <2>1, <2>2, <2>4 DEF Sound, BundleOK, Call
      <3> QED
        BY <2>1, <2>4, <3>1, <3>2, <3>3, <3>4, PutStep DEF Sound
    <2>5. CASE Put(c, Answered(c, "error"))
      <3>1. log[c].feed = 0
        BY <2>1, NoFeed
      <3> QED
        BY <2>1, <2>2, <2>5, <3>1, AnswerStep DEF Results
    <2> QED
      BY <1>5, <2>3, <2>4, <2>5 DEF Fallback
  <1> QED
    BY <1>2, <1>3, <1>4, <1>5

(* The handler opens a log: as many lines as it will take, or a pod's.     *)
LEMMA OpenLogStep ==
    ASSUME IInv, NEW c \in Calls, NEW l \in Log,
           call[c].pc \in {"socket", "cli"}, call[c].kind \in LogKinds,
           call[c].cli # "running",
           call[c].kind # "podLogs" => l.via # "pod" /\ l.feed + l.buf + l.taken <= Last,
           OpenLog(c, l)
    PROVE  IInv'
  <1> DEFINE r == call[c]
             s == [r EXCEPT !.pc = "drain"]
  <1>1. r \in Call /\ Sound(c, r)
    BY DEF IInv, TypeOK
  <1>2. s \in Call
    BY <1>1 DEF Call, Steps
  <1>3. CallOK(s)
    BY <1>1 DEF Sound, CallOK, Done, Call
  <1>4. SeenOK(s, during[c], host) /\ BundleOK(c, s, dir, mixed[c])
    BY <1>1 DEF Sound, CallOK, Done, SeenOK, Shows, BundleOK, Call, LogKinds
  <1>5. LogOK(s, l)
    BY <1>1 DEF LogOK, Call
  <1>6. TypeOK'
    BY <1>2 DEF IInv, TypeOK, OpenLog, Put
  <1>7. ASSUME NEW d \in Calls PROVE Sound(d, call[d])'
    <2>1. /\ call'[d] = IF d = c THEN s ELSE call[d]
          /\ log'[d] = IF d = c THEN l ELSE log[d]
      BY DEF IInv, TypeOK, OpenLog, Put
    <2>2. UNCHANGED <<host, dir, during, mixed>>
      BY DEF OpenLog
    <2>3. CASE d = c
      BY <1>3, <1>4, <1>5, <2>1, <2>2, <2>3 DEF Sound
    <2>4. CASE d # c
      BY <2>1, <2>2, <2>4 DEF Sound, IInv
    <2> QED
      BY <2>3, <2>4
  <1> QED
    BY <1>6, <1>7 DEF IInv

(* A log that was just opened has its lines before it.                     *)
LEMMA OpenedType ==
    ASSUME NEW n \in Nat
    PROVE  /\ [NoLog EXCEPT !.via = "pod", !.more = n] \in Log
           /\ \A via \in {"one", "cli"} :
                 LET l == [NoLog EXCEPT !.via = via, !.feed = n]
                 IN l \in Log /\ l.via # "pod" /\ l.feed + l.buf + l.taken = n
  <1>1. NoLog.feed = 0 /\ NoLog.buf = 0 /\ NoLog.taken = 0
    BY DEF NoLog
  <1>2. [NoLog EXCEPT !.via = "pod", !.more = n] \in Log
    BY NoLogType DEF Log
  <1>3. ASSUME NEW via \in {"one", "cli"}
        PROVE  LET l == [NoLog EXCEPT !.via = via, !.feed = n]
               IN l \in Log /\ l.via # "pod" /\ l.feed + l.buf + l.taken = n
    <2> DEFINE l == [NoLog EXCEPT !.via = via, !.feed = n]
    <2>1. l \in Log
      BY NoLogType DEF Log
    <2>2. l.via = via /\ l.feed = n /\ l.buf = NoLog.buf /\ l.taken = NoLog.taken
      BY NoLogType DEF Log
    <2> QED
      BY <1>1, <2>1, <2>2
  <1> QED
    BY <1>2, <1>3

(* The socket has answered.                                                *)
LEMMA SocketReplyStep ==
    ASSUME IInv, NEW c \in Calls, SocketReply(c)
    PROVE  IInv'
  <1> DEFINE r == call[c]
  <1> USE CallsAssumption
  <1>1. r \in Call /\ Sound(c, r) /\ r.pc = "socket"
    BY DEF IInv, TypeOK, SocketReply
  <1>2. r.cli = "none"
    BY <1>1 DEF Sound, CallOK, Done
  <1>3. CASE ToFallback(c)
    BY <1>1, <1>3, ToFallbackStep
  <1>4. CASE r.kind \in LogKinds /\ SocketLogs(c)
    <2>1. CASE r.kind = "podLogs"
      <3>1. PICK n \in 0..Containers : OpenLog(c, [NoLog EXCEPT !.via = "pod", !.more = n])
        BY <1>4, <2>1 DEF SocketLogs
      <3>2. [NoLog EXCEPT !.via = "pod", !.more = n] \in Log
        <4>1. n \in Nat
          BY <3>1
        <4> QED
          BY <4>1, OpenedType
      <3> QED
        BY <1>1, <1>2, <1>4, <2>1, <3>1, <3>2, OpenLogStep
    <2>2. CASE r.kind # "podLogs"
      <3>1. PICK n \in Tail : OpenLog(c, [NoLog EXCEPT !.via = "one", !.feed = n])
        BY <1>4, <2>2 DEF SocketLogs
      <3> DEFINE l == [NoLog EXCEPT !.via = "one", !.feed = n]
      <3>2. n \in Nat /\ n <= Last
        BY <3>1 DEF Tail
      <3>3. l \in Log /\ l.via # "pod" /\ l.feed + l.buf + l.taken = n
        BY <3>2, OpenedType
      <3> QED
        BY <1>1, <1>2, <1>4, <3>1, <3>2, <3>3, OpenLogStep
    <2> QED
      BY <2>1, <2>2
  <1>5. CASE /\ r.socket \in {"done", "streamed"} /\ r.kind # "containers"
             /\ Put(c, Answered(c, "ok")) /\ UNCHANGED logAndHistory
    <2>0. r \in Call /\ r.runs \in Nat
      BY <1>1 DEF Call
    <2>1. Done(r)
      BY <1>1, <1>2, <1>5, <2>0 DEF Sound, CallOK, Done
    <2>2. Shows(r, during[c])
      <3>1. CASE r.socket = "done"
        BY <1>1, <3>1 DEF Sound, SeenOK
      <3>2. CASE r.socket = "streamed"
        BY <1>1, <3>2 DEF Sound, CallOK, Shows
      <3> QED
        BY <1>5, <3>1, <3>2
    <2>3. log[c].feed = 0
      BY <1>1, NoFeed
    <2> QED
      BY <1>1, <1>2, <1>5, <2>1, <2>2, <2>3, AnswerStep DEF Results
  <1>6. CASE /\ r.socket = "done" /\ r.kind = "containers"
             /\ ToInspect(c) /\ UNCHANGED logAndHistory
    <2>1. PICK n \in 0..Containers : Put(c, [r EXCEPT !.pc = "inspect", !.asks = n])
      BY <1>6 DEF ToInspect
    <2> DEFINE s == [r EXCEPT !.pc = "inspect", !.asks = n]
    <2>2. s \in Call
      <3>1. n \in Nat
        OBVIOUS
      <3> QED
        BY <1>1, <3>1 DEF Call, Steps
    <2>3. CallOK(s)
      BY <1>1, <1>2, <1>6 DEF Sound, CallOK, Done, Call
    <2>4. SeenOK(s, during[c], host) /\ BundleOK(c, s, dir, mixed[c]) /\ LogOK(s, log[c])
      BY <1>1, <1>2, <1>6 DEF Sound, CallOK, SeenOK, Shows, BundleOK, LogOK, Call
    <2> QED
      BY <1>6, <2>1, <2>2, <2>3, <2>4, PutStep DEF Sound
  <1> QED
    BY <1>3, <1>4, <1>5, <1>6 DEF SocketReply

(* A container of a listing is inspected, or all are: what is shown was    *)
(* read during the call.                                                   *)
LEMMA InspectStep ==
    ASSUME IInv, NEW c \in Calls, Inspect(c)
    PROVE  IInv'
  <1> DEFINE r == call[c]
  <1>1. r \in Call /\ Sound(c, r) /\ r.pc = "inspect" /\ UNCHANGED logAndHistory
    BY DEF IInv, TypeOK, Inspect
  <1>2. /\ r.kind = "containers" /\ r.cli = "none" /\ host \in during[c]
        /\ host \in Calls \cup {None} /\ Shows(r, during[c])
    BY <1>1 DEF Sound, CallOK, SeenOK, IInv, TypeOK
  <1>3. ASSUME NEW seen \in {r.seen, r.seen \cup {host}}, r.asks > 0,
               Put(c, [r EXCEPT !.asks = @ - 1, !.seen = seen])
        PROVE  IInv'
    <2> DEFINE s == [r EXCEPT !.asks = @ - 1, !.seen = seen]
    <2>1. r.asks - 1 \in Nat /\ seen \in SUBSET (Calls \cup {None})
      BY <1>1, <1>2, <1>3 DEF Call
    <2>2. s \in Call
      BY <1>1, <2>1 DEF Call
    <2>3. CallOK(s)
      BY <1>1 DEF Sound, CallOK, Done, Call
    <2>4. SeenOK(s, during[c], host)
      BY <1>1, <1>2 DEF Sound, SeenOK, Shows, Call
    <2>5. BundleOK(c, s, dir, mixed[c]) /\ LogOK(s, log[c])
      BY <1>1, <1>2 DEF Sound, BundleOK, LogOK, Call
    <2> QED
      BY <1>1, <1>3, <2>2, <2>3, <2>4, <2>5, PutStep DEF Sound
  <1>4. CASE r.asks = 0 /\ Put(c, Answered(c, "ok"))
    <2>1. log[c].feed = 0
      BY <1>1, NoFeed
    <2>2. Done(r)
      BY <1>2 DEF Done, Effects, CliOnly
    <2> QED
      BY <1>1, <1>2, <1>4, <2>1, <2>2, AnswerStep DEF Results
  <1>5. CASE r.asks > 0 /\ Put(c, [r EXCEPT !.asks = @ - 1])
    <2>1. [r EXCEPT !.asks = @ - 1] = [r EXCEPT !.asks = @ - 1, !.seen = r.seen]
      BY <1>1 DEF Call
    <2> QED
      BY <1>3, <1>5, <2>1
  <1> QED
    BY <1>3, <1>4, <1>5 DEF Inspect

(* The command ends by itself.                                             *)
LEMMA CliExitStep ==
    ASSUME IInv, NEW c \in Calls, CliExit(c)
    PROVE  IInv'
  <1> DEFINE r == call[c]
  <1> USE CallsAssumption
  <1>1. r \in Call /\ Sound(c, r) /\ r.pc = "cli"
    BY DEF IInv, TypeOK, CliExit
  <1>2. log[c].feed = 0
    BY <1>1, NoFeed
  <1>3. CASE r.cli = "done" /\ r.kind \in LogKinds /\ CliLogs(c)
    <2>1. PICK n \in 0..(IF r.kind = "podLogs" THEN Containers * Last ELSE Last) :
            OpenLog(c, [NoLog EXCEPT !.via = "cli", !.feed = n])
      BY <1>3 DEF CliLogs
    <2> DEFINE l == [NoLog EXCEPT !.via = "cli", !.feed = n]
    <2>2. n \in Nat /\ (r.kind # "podLogs" => n <= Last)
      BY <2>1
    <2>3. l \in Log /\ l.via # "pod" /\ l.feed + l.buf + l.taken = n
      BY <2>2, OpenedType
    <2> QED
      BY <1>1, <1>3, <2>1, <2>2, <2>3, OpenLogStep
  <1>4. CASE /\ r.cli = "done"
             /\ Put(c, Answered(c, "ok")) /\ UNCHANGED logAndHistory
    <2>1. Done(r)
      BY <1>1, <1>4 DEF Sound, CallOK, Done
    <2>2. Shows(r, during[c])
      BY <1>1, <1>4 DEF Sound, SeenOK
    <2> QED
      BY <1>1, <1>2, <1>4, <2>1, <2>2, AnswerStep DEF Results
  <1>5. CASE /\ r.cli \in {"failed", "ended"}
             /\ Put(c, Answered(c, IF r.kind = "exec" THEN "nonZero" ELSE "error"))
             /\ UNCHANGED logAndHistory
    BY <1>1, <1>2, <1>5, AnswerStep DEF Results
  <1> QED
    BY <1>3, <1>4, <1>5 DEF CliExit

(* The command is killed: what it did may stand, and is not reported as    *)
(* done.                                                                   *)
LEMMA CliKilledStep ==
    ASSUME IInv, NEW c \in Calls, CliKilled(c)
    PROVE  IInv'
  <1> DEFINE r == call[c]
             left == IF r.cli = "done" THEN "done"
                     ELSE IF r.kind \in CliOnly THEN "orphan" ELSE "killed"
  <1>1. /\ r \in Call /\ Sound(c, r) /\ r.pc = "cli" /\ r.cli \in {"running", "done"}
        /\ UNCHANGED logAndHistory
    BY DEF IInv, TypeOK, CliKilled
  <1>2. log[c].feed = 0
    BY <1>1, NoFeed
  <1>3. left \in {"done", "orphan", "killed"} /\ (left = "done" <=> r.cli = "done")
    OBVIOUS
  <1>4. CASE r.kind = "deploy" /\ left = "orphan"
    <2> DEFINE s == [r EXCEPT !.cli = "orphan"]
    <2>1. Put(c, s)
      BY <1>4 DEF CliKilled
    <2>2. s \in Call
      BY <1>1 DEF Call
    <2>3. CallOK(s)
      BY <1>1, <1>3, <1>4 DEF Sound, CallOK, Done, Call
    <2>4. SeenOK(s, during[c], host) /\ BundleOK(c, s, dir, mixed[c]) /\ LogOK(s, log[c])
      BY <1>1, <1>3, <1>4 DEF Sound, SeenOK, Shows, BundleOK, LogOK, Call
    <2> QED
      BY <1>1, <2>1, <2>2, <2>3, <2>4, PutStep DEF Sound
  <1>5. CASE ~(r.kind = "deploy" /\ left = "orphan")
    <2> HIDE DEF left
    <2>1. PICK t \in {"nonZero", "error"} : Put(c, [Answered(c, t) EXCEPT !.cli = left])
      BY <1>5 DEF CliKilled, left
    <2> DEFINE s == [[r EXCEPT !.pc = "respond", !.result = t] EXCEPT !.cli = left]
    <2>2. s \in Call
      BY <1>1, <1>3 DEF Call, Steps, Results
    <2>3. /\ s.kind = r.kind /\ s.pc = "respond" /\ s.result = t /\ s.client = r.client
          /\ s.socket = r.socket /\ s.cli = left /\ s.runs = r.runs /\ s.seen = r.seen
          /\ s.todo = r.todo /\ s.up = r.up
      BY <1>1 DEF Call
    <2> HIDE DEF s, r
    <2>4. CallOK(s)
      BY <1>1, <1>3, <2>3 DEF Sound, CallOK, Done, Call
    <2>5. SeenOK(s, during[c], host)
      BY <1>1, <1>3, <2>3 DEF Sound, SeenOK, Shows
    <2>6. BundleOK(c, s, dir, mixed[c])
      BY <1>1, <1>3, <1>5, <2>3 DEF Sound, BundleOK
    <2>7. LogOK(s, log[c])
      BY <1>1, <1>2, <2>3 DEF Sound, LogOK
    <2>8. Put(c, s)
      BY <2>1 DEF s, r, Answered
    <2> QED
      BY <1>1, <2>2, <2>4, <2>5, <2>6, <2>7, <2>8, PutStep DEF Sound
  <1> QED
    BY <1>4, <1>5

(* A deployment that cannot write stops; one that has written all starts   *)
(* "up".                                                                   *)
LEMMA DeployStep ==
    ASSUME IInv, NEW c \in Calls, DeployFails(c) \/ ComposeUp(c)
    PROVE  IInv'
  <1> DEFINE r == call[c]
  <1>1. r \in Call /\ Sound(c, r) /\ r.pc = "files" /\ UNCHANGED logAndHistory
    BY DEF IInv, TypeOK, DeployFails, ComposeUp
  <1>2. r.cli = "none"
    BY <1>1 DEF Sound, CallOK, Done
  <1>3. CASE DeployFails(c)
    <2>1. log[c].feed = 0
      BY <1>1, NoFeed
    <2> QED
      BY <1>1, <1>2, <1>3, <2>1, AnswerStep DEF DeployFails, Results
  <1>4. CASE ComposeUp(c)
    <2> DEFINE s == [r EXCEPT !.pc = "cli", !.cli = "running"]
    <2>1. s \in Call
      BY <1>1 DEF Call, Steps
    <2>2. r.todo = {} /\ Put(c, s)
      BY <1>4 DEF ComposeUp, Start
    <2>3. CallOK(s)
      BY <1>1, <1>2 DEF Sound, CallOK, Done, Call
    <2>4. SeenOK(s, during[c], host) /\ BundleOK(c, s, dir, mixed[c]) /\ LogOK(s, log[c])
      BY <1>1, <1>2, <2>2 DEF Sound, CallOK, Done, SeenOK, Shows, BundleOK, LogOK, Call
    <2> QED
      BY <1>1, <2>1, <2>2, <2>3, <2>4, PutStep DEF Sound
  <1> QED
    BY <1>3, <1>4

(* A handler has enough lines, or the channel is closed.                   *)
LEMMA DrainedStep ==
    ASSUME IInv, NEW c \in Calls, Drained(c)
    PROVE  IInv'
  <1> DEFINE r == call[c]
             l == log[c]
  <1> USE CallsAssumption
  <1>1. r \in Call /\ Sound(c, r) /\ r.pc = "drain" /\ l \in Log
    BY DEF IInv, TypeOK, Drained
  <1>2. r.kind \in LogKinds /\ r.cli # "running"
    BY <1>1 DEF Sound, CallOK, Done
  <1>3. r.kind # "podLogs" => l.feed = 0
    <2>1. r.kind # "podLogs" => l.feed + l.buf + l.taken <= Last
      BY <1>1 DEF Sound, LogOK
    <2>2. l.taken >= Last \/ l.feed = 0
      BY DEF Drained, Closed
    <2>3. l.feed \in Nat /\ l.buf \in Nat /\ l.taken \in Nat
      BY <1>1 DEF Log
    <2>4. ASSUME NEW f \in Nat, NEW b \in Nat, NEW t \in Nat,
                 f + b + t <= Last, t >= Last \/ f = 0
          PROVE  f = 0
      BY <2>4
    <2> QED
      BY <2>1, <2>2, <2>3, <2>4
  <1>4. Done(r) /\ Shows(r, during[c])
    BY <1>2 DEF LogKinds, Effects, CliOnly, Done, Shows
  <1> QED
    BY <1>1, <1>2, <1>3, <1>4, AnswerStep DEF Drained, Results

-----------------------------------------------------------------------------
(* Steps that change more than one call's record. *)

(* A request begins: the first moment of the call is now.                  *)
LEMMA RequestStep ==
    ASSUME IInv, NEW c \in Calls, Request(c)
    PROVE  IInv'
  <1> USE CallsAssumption
  <1>1. PICK m \in Mixes :
          Put(c, [NoCall EXCEPT !.kind = m[c], !.pc = "preferred", !.client = "waiting",
                                !.todo = IF m[c] = "deploy" THEN Files ELSE {}])
    BY DEF Request
  <1> DEFINE s == [NoCall EXCEPT !.kind = m[c], !.pc = "preferred", !.client = "waiting",
                                 !.todo = IF m[c] = "deploy" THEN Files ELSE {}]
  <1>2. m[c] \in Kinds
    OBVIOUS
  <1>3. s \in Call
    BY <1>2, NoCallType DEF Call, Steps
  <1>4. /\ NoCall.result = "none" /\ NoCall.socket = "none" /\ NoCall.cli = "none"
        /\ NoCall.runs = 0
    BY DEF NoCall
  <1>5. /\ s.kind = m[c] /\ s.pc = "preferred" /\ s.client = "waiting"
        /\ s.result = "none" /\ s.socket = "none" /\ s.cli = "none" /\ s.runs = 0
        /\ s.todo = IF m[c] = "deploy" THEN Files ELSE {}
    BY <1>4, NoCallType DEF Call
  <1> HIDE DEF s
  <1>6. CallOK(s)
    BY <1>5 DEF CallOK, Done, Call
  <1>7. SeenOK(s, {host}, host) /\ BundleOK(c, s, dir, mixed[c])
    BY <1>5 DEF SeenOK, Shows, BundleOK
  <1>8. LogOK(s, log[c])
    <2>1. call[c].pc = "idle" /\ Sound(c, call[c])
      BY DEF IInv, Request
    <2>2. log[c] = NoLog
      BY <2>1 DEF Sound, LogOK
    <2>3. /\ NoLog.via = "none" /\ NoLog.feed = 0 /\ NoLog.buf = 0 /\ NoLog.taken = 0
      BY DEF NoLog
    <2> QED
      BY <1>5, <2>2, <2>3 DEF LogOK
  <1>9. /\ call' = [call EXCEPT ![c] = s] /\ during' = [during EXCEPT ![c] = {host}]
        /\ UNCHANGED <<log, host, dir, mixed>>
    BY <1>1 DEF Request, Put, s
  <1>10. TypeOK'
    BY <1>3, <1>9 DEF IInv, TypeOK
  <1>11. ASSUME NEW d \in Calls PROVE Sound(d, call[d])'
    <2>1. /\ call'[d] = IF d = c THEN s ELSE call[d]
          /\ during'[d] = IF d = c THEN {host} ELSE during[d]
      BY <1>9 DEF IInv, TypeOK
    <2>2. CASE d = c
      BY <1>6, <1>7, <1>8, <1>9, <2>1, <2>2 DEF Sound
    <2>3. CASE d # c
      BY <1>9, <2>1, <2>3 DEF Sound, IInv
    <2> QED
      BY <2>2, <2>3
  <1> QED
    BY <1>10, <1>11 DEF IInv

(* The host carries a call out: whoever is waiting may see it.             *)
LEMMA ActsStep ==
    ASSUME IInv, NEW c \in Calls, NEW s \in Call,
           call' = [call EXCEPT ![c] = s], host' = c,
           during' = [d \in Calls |-> IF Busy(d) THEN during[d] \cup {c} ELSE during[d]],
           UNCHANGED <<log, dir, mixed>>,
           s.kind \notin {"list", "containers"}, s.pc = call[c].pc,
           CallOK(s), BundleOK(c, s, dir, mixed[c]), LogOK(s, log[c])
    PROVE  IInv'
  <1>1. TypeOK'
    BY DEF IInv, TypeOK
  <1>2. ASSUME NEW d \in Calls PROVE Sound(d, call[d])'
    <2>1. /\ call'[d] = IF d = c THEN s ELSE call[d]
          /\ during[d] \subseteq during'[d]
          /\ Busy(d) => c \in during'[d]
      BY DEF IInv, TypeOK
    <2>2. SeenOK(call[d], during[d], host) /\ Sound(d, call[d])
      BY DEF IInv, Sound
    <2>3. CASE d = c
      <3>1. SeenOK(s, during'[d], c)
        BY <2>1, <2>3 DEF SeenOK, Shows, Busy
      <3> QED
        BY <2>1, <2>3, <3>1 DEF Sound
    <2>4. CASE d # c
      <3>1. SeenOK(call[d], during'[d], c)
        BY <2>1, <2>2 DEF SeenOK, Shows, Busy
      <3> QED
        BY <2>1, <2>2, <2>4, <3>1 DEF Sound
    <2> QED
      BY <2>3, <2>4
  <1> QED
    BY <1>1, <1>2 DEF IInv

(* What runs on the host: once through the socket, once through a command. *)
LEMMA HostActsStep ==
    ASSUME IInv, NEW c \in Calls, SocketActs(c) \/ CliActs(c) \/ OrphanEnds(c)
    PROVE  IInv'
  <1> DEFINE r == call[c]
  <1>1. r \in Call /\ Sound(c, r) /\ dir \in [Files -> Calls \cup {None}]
    BY DEF IInv, TypeOK
  <1>2. ASSUME NEW socket \in Requested,
               NEW cli \in {"none", "running", "done", "failed", "killed", "orphan", "ended"},
               NEW done \in Call,
               done = [r EXCEPT !.socket = socket, !.cli = cli],
               Acts(c, done),
               \/ r.socket = "pending" /\ socket = "done" /\ cli = r.cli
               \/ /\ r.cli \in {"running", "orphan"} /\ cli \in {"done", "ended"}
                  /\ socket = r.socket
        PROVE  IInv'
    <2> DEFINE s == [done EXCEPT !.runs = @ + 1,
                                 !.up = IF done.kind = "deploy" THEN dir ELSE @]
    <2>1. s \in Call
      <3>1. done \in Call
        OBVIOUS
      <3>2. done.runs + 1 \in Nat /\ (IF done.kind = "deploy" THEN dir ELSE done.up)
                                       \in [Files -> Calls \cup {None}]
        BY <1>1, <3>1 DEF Call
      <3> QED
        BY <3>1, <3>2 DEF Call
    <2>2. /\ done.kind = r.kind /\ done.pc = r.pc /\ done.result = r.result
          /\ done.client = r.client /\ done.runs = r.runs /\ done.todo = r.todo
          /\ done.socket = socket /\ done.cli = cli
      BY <1>1, <1>2 DEF Call
    <2>3. /\ s.kind = r.kind /\ s.pc = r.pc /\ s.result = r.result /\ s.client = r.client
          /\ s.socket = socket /\ s.cli = cli /\ s.runs = r.runs + 1 /\ s.todo = r.todo
          /\ r.kind = "deploy" => s.up = dir
      BY <1>2, <2>2 DEF Call
    <2>4. /\ call' = [call EXCEPT ![c] = s] /\ host' = c
          /\ during' = [d \in Calls |-> IF Busy(d) THEN during[d] \cup {c} ELSE during[d]]
          /\ UNCHANGED <<log, dir, mixed>>
          /\ r.kind \in Effects
      BY <1>2 DEF Acts, Put
    <2> HIDE DEF s
    <2>5. r.runs \in Nat
      BY <1>1 DEF Call
    <2>6. CallOK(s)
      <3> HIDE DEF r
      <3> QED
        BY <1>1, <1>2, <2>3, <2>4, <2>5 DEF Sound, CallOK, Done
    <2>7. BundleOK(c, s, dir, mixed[c])
      <3>1. CASE r.kind = "deploy"
        <4>1. r.cli \in {"running", "orphan"} /\ r.todo = {}
          BY <1>1, <1>2, <3>1 DEF Sound, CallOK, Done, BundleOK, CliOnly
        <4>2. ~mixed[c] => \A f \in Files : dir[f] = c
          BY <1>1, <3>1, <4>1 DEF Sound, BundleOK
        <4>3. ~mixed[c] => dir = [f \in Files |-> c]
          BY <1>1, <4>2
        <4>4. r.pc \notin {"preferred", "fallback", "files"}
          BY <1>1, <4>1 DEF Sound, CallOK, Done
        <4> QED
          BY <2>3, <3>1, <4>1, <4>2, <4>3, <4>4 DEF BundleOK
      <3>2. CASE r.kind # "deploy"
        BY <2>3, <3>2 DEF BundleOK
      <3> QED
        BY <3>1, <3>2
    <2>8. LogOK(s, log[c])
      BY <1>1, <2>3 DEF Sound, LogOK
    <2>9. s.kind \notin {"list", "containers"}
      BY <2>3, <2>4 DEF Effects, CliOnly
    <2> QED
      BY <2>1, <2>3, <2>4, <2>6, <2>7, <2>8, <2>9, ActsStep
  <1>3. CASE SocketActs(c)
    <2> DEFINE done == [r EXCEPT !.socket = "done"]
    <2>1. done \in Call /\ done = [r EXCEPT !.socket = "done", !.cli = r.cli]
          /\ r.cli \in {"none", "running", "done", "failed", "killed", "orphan", "ended"}
      BY <1>1 DEF Call, Requested
    <2> QED
      BY <1>2, <1>3, <2>1 DEF SocketActs, Requested
  <1>4. ASSUME NEW cli \in {"done", "ended"}, r.cli \in {"running", "orphan"},
               Acts(c, [r EXCEPT !.cli = cli])
        PROVE  IInv'
    <2> DEFINE done == [r EXCEPT !.cli = cli]
    <2>1. done \in Call /\ done = [r EXCEPT !.socket = r.socket, !.cli = cli]
          /\ r.socket \in Requested
      BY <1>1 DEF Call
    <2> QED
      BY <1>2, <1>4, <2>1
  <1>5. CASE CliActs(c)
    BY <1>4, <1>5 DEF CliActs
  <1>6. CASE OrphanEnds(c)
    <2> DEFINE s == [r EXCEPT !.cli = "ended"]
    <2>1. r.cli = "orphan"
      BY <1>6 DEF OrphanEnds
    <2>2. CASE Acts(c, s)
      BY <1>4, <2>1, <2>2
    <2>3. CASE Put(c, s) /\ UNCHANGED logAndHistory
      <3>1. s \in Call
        BY <1>1 DEF Call
      <3>2. CallOK(s)
        BY <1>1, <2>1 DEF Sound, CallOK, Done, Call
      <3>3. SeenOK(s, during[c], host) /\ BundleOK(c, s, dir, mixed[c]) /\ LogOK(s, log[c])
        BY <1>1, <2>1 DEF Sound, SeenOK, Shows, BundleOK, LogOK, Call
      <3> QED
        BY <2>3, <3>1, <3>2, <3>3, PutStep DEF Sound
    <2> QED
      BY <1>6, <2>2, <2>3 DEF OrphanEnds
  <1> QED
    BY <1>3, <1>5, <1>6

(* A deployment writes a file: it is its own from now on, and any other    *)
(* deployment that waits with this file is marked.                         *)
LEMMA WriteFileStep ==
    ASSUME IInv, NEW c \in Calls, WriteFile(c)
    PROVE  IInv'
  <1> DEFINE r == call[c]
  <1>1. /\ r \in Call /\ Sound(c, r) /\ r.pc = "files"
        /\ dir \in [Files -> Calls \cup {None}] /\ mixed \in [Calls -> BOOLEAN]
    BY DEF IInv, TypeOK, WriteFile
  <1>2. PICK f \in r.todo :
          /\ dir' = [dir EXCEPT ![f] = c]
          /\ Put(c, [r EXCEPT !.todo = @ \ {f}])
          /\ mixed' = [d \in Calls |-> mixed[d] \/ d \in Waiting(f)]
    BY DEF WriteFile
  <1> DEFINE s == [r EXCEPT !.todo = r.todo \ {f}]
  <1>3. UNCHANGED <<log, host, during>>
    BY DEF WriteFile
  <1>4. f \in Files /\ s \in Call
    BY <1>1, <1>2 DEF Call
  <1>5. TypeOK'
    <2>1. call' \in [Calls -> Call]
      BY <1>2, <1>4 DEF IInv, TypeOK, Put
    <2>2. dir' \in [Files -> Calls \cup {None}]
      BY <1>1, <1>2
    <2>3. mixed' \in [Calls -> BOOLEAN]
      <3>1. ASSUME NEW d \in Calls PROVE (mixed[d] \/ d \in Waiting(f)) \in BOOLEAN
        OBVIOUS
      <3> QED
        BY <1>2, <3>1
    <2> QED
      BY <1>3, <2>1, <2>2, <2>3 DEF IInv, TypeOK
  <1>6. CallOK(s) /\ SeenOK(s, during[c], host) /\ LogOK(s, log[c])
    BY <1>1 DEF Sound, CallOK, Done, SeenOK, Shows, LogOK, Call
  <1>7. ASSUME NEW d \in Calls PROVE mixed[d] => mixed'[d]
    BY <1>2
  <1>8. ASSUME NEW g \in Files PROVE dir'[g] = IF g = f THEN c ELSE dir[g]
    BY <1>1, <1>2
  <1>9. BundleOK(c, s, dir', mixed'[c])
    <2>1. /\ s.kind = r.kind /\ s.pc = r.pc /\ s.cli = r.cli /\ s.runs = r.runs
          /\ s.up = r.up /\ s.todo = r.todo \ {f}
      BY <1>1 DEF Call
    <2>2. r.cli = "none" /\ BundleOK(c, r, dir, mixed[c])
      BY <1>1 DEF Sound, CallOK, Done
    <2> HIDE DEF s
    <2>3. CASE r.kind = "deploy"
      <3>1. ASSUME NEW g \in Files \ s.todo PROVE dir'[g] = c \/ mixed'[c]
        BY <1>1, <1>7, <1>8, <2>1, <2>2, <2>3 DEF BundleOK
      <3>2. s.runs > 0 /\ ~mixed'[c] => s.up = [g \in Files |-> c]
        BY <1>7, <2>1, <2>2, <2>3 DEF BundleOK
      <3> QED
        BY <1>1, <2>1, <2>2, <3>1, <3>2 DEF BundleOK
    <2>4. CASE r.kind # "deploy"
      BY <2>1, <2>4 DEF BundleOK
    <2> QED
      BY <2>3, <2>4
  <1>10. ASSUME NEW d \in Calls \ {c} PROVE BundleOK(d, call[d], dir', mixed'[d])
    <2> DEFINE q == call[d]
    <2>1. BundleOK(d, q, dir, mixed[d])
      BY DEF IInv, Sound
    <2>2. CASE q.kind = "deploy"
      <3>1. ASSUME q.pc = "files" \/ q.cli \in {"running", "orphan"},
                   NEW g \in Files \ q.todo
            PROVE  dir'[g] = d \/ mixed'[d]
        <4>1. dir[g] = d \/ mixed[d]
          BY <2>1, <2>2, <3>1 DEF BundleOK
        <4>2. CASE g = f
          BY <1>2, <2>2, <3>1, <4>2 DEF Waiting
        <4>3. CASE g # f
          BY <1>7, <1>8, <4>1, <4>3
        <4> QED
          BY <4>2, <4>3
      <3>2. q.runs > 0 /\ ~mixed'[d] => q.up = [g \in Files |-> d]
        BY <1>7, <2>1, <2>2 DEF BundleOK
      <3> QED
        BY <2>1, <2>2, <3>1, <3>2 DEF BundleOK
    <2>3. CASE q.kind # "deploy"
      BY <2>3 DEF BundleOK
    <2> QED
      BY <2>2, <2>3
  <1>11. ASSUME NEW d \in Calls PROVE Sound(d, call[d])'
    <2>1. call'[d] = IF d = c THEN s ELSE call[d]
      BY <1>2 DEF IInv, TypeOK, Put
    <2>2. CASE d = c
      BY <1>3, <1>6, <1>9, <2>1, <2>2 DEF Sound
    <2>3. CASE d # c
      <3>1. Sound(d, call[d])
        BY DEF IInv
      <3> QED
        BY <1>3, <1>10, <2>1, <2>3, <3>1 DEF Sound
    <2> QED
      BY <2>2, <2>3
  <1> QED
    BY <1>5, <1>11 DEF IInv

(* A log that fits its call may take another's place.                      *)
LEMMA SetLogStep ==
    ASSUME IInv, NEW c \in Calls, NEW l \in Log, SetLog(c, l), LogOK(call[c], l)
    PROVE  IInv'
  <1>1. TypeOK'
    BY DEF IInv, TypeOK, SetLog
  <1>2. ASSUME NEW d \in Calls PROVE Sound(d, call[d])'
    <2>1. log'[d] = IF d = c THEN l ELSE log[d]
      BY DEF IInv, TypeOK, SetLog
    <2>2. Sound(d, call[d]) /\ UNCHANGED <<call, host, dir, during, mixed>>
      BY DEF IInv, SetLog
    <2> QED
      BY <2>1, <2>2 DEF Sound
  <1> QED
    BY <1>1, <1>2 DEF IInv

(* What the steps below make of a log is a log.                            *)
LEMMA LineType ==
    ASSUME NEW l \in Log
    PROVE  /\ \A f \in Nat, b \in 0..1 : [l EXCEPT !.feed = f, !.buf = b] \in Log
           /\ \A b, h \in 0..1 : [l EXCEPT !.buf = b, !.hold = h] \in Log
           /\ \A n, f \in Nat : [l EXCEPT !.more = n, !.feed = f] \in Log
           /\ \A b \in 0..1, n \in Nat : [l EXCEPT !.buf = b, !.taken = n] \in Log
           /\ \A h \in 0..1, n \in Nat : [l EXCEPT !.hold = h, !.taken = n] \in Log
           /\ \A f, n \in Nat : [l EXCEPT !.feed = f, !.taken = n] \in Log
  BY DEF Log

(* A line moves from a goroutine to its channel, to the goroutine of the   *)
(* pod, to the handler.                                                    *)
LEMMA LineStep ==
    ASSUME IInv, NEW c \in Calls, LogStep(c) \/ Take(c)
    PROVE  IInv'
  <1> USE CallsAssumption
  <1> DEFINE r == call[c]
  <1>1. PICK l \in Log : l = log[c] /\ LogOK(r, l)
    BY DEF IInv, TypeOK, Sound
  <1>2. /\ l.feed \in Nat /\ l.buf \in 0..1 /\ l.hold \in 0..1 /\ l.more \in Nat
        /\ l.taken \in Nat
    BY <1>1 DEF Log
  <1>3. /\ 0 \in 0..1 /\ 1 \in 0..1 /\ l.taken + 1 \in Nat
        /\ l.feed > 0 => l.feed - 1 \in Nat
        /\ l.more > 0 => l.more - 1 \in Nat
    BY <1>2
  <1>4. /\ NoLog.via = "none" /\ NoLog.feed = 0 /\ NoLog.buf = 0 /\ NoLog.hold = 0
        /\ NoLog.taken = 0
    BY DEF NoLog
  <1>5. l.via # "none" => r.pc \in {"drain", "respond", "done"}
    BY <1>1, <1>4 DEF LogOK
  <1>6. CASE Feed(c)
    <2> DEFINE m == [l EXCEPT !.feed = @ - 1, !.buf = 1]
    <2>1. l.feed > 0 /\ l.buf = 0 /\ l.via # "none" /\ SetLog(c, m)
      BY <1>1, <1>6 DEF Feed, Buffered
    <2>2. m \in Log
      BY <1>1, <1>3, <2>1, LineType
    <2>3. m.via = l.via /\ m.feed = l.feed - 1 /\ m.buf = 1 /\ m.taken = l.taken
      BY <1>1 DEF Log
    <2>4. LogOK(r, m)
      BY <1>1, <1>2, <1>5, <2>1, <2>3 DEF LogOK
    <2> QED
      BY <2>1, <2>2, <2>4, SetLogStep
  <1>7. CASE RelayTakes(c) \/ RelayNext(c)
    <2>1. l.via = "pod"
      BY <1>1, <1>7 DEF RelayTakes, RelayNext, Relaying
    <2>2. PICK m \in Log : SetLog(c, m)
      <3>1. CASE RelayTakes(c)
        <4>1. [l EXCEPT !.buf = 0, !.hold = 1] \in Log
          BY <1>1, <1>3, LineType
        <4> QED
          BY <1>1, <3>1, <4>1 DEF RelayTakes
      <3>2. CASE RelayNext(c)
        <4>1. PICK n \in Tail : SetLog(c, [l EXCEPT !.more = @ - 1, !.feed = n])
          BY <1>1, <3>2 DEF RelayNext
        <4>2. n \in Nat /\ l.more > 0
          BY <1>1, <3>2 DEF Tail, RelayNext
        <4>3. [l EXCEPT !.more = @ - 1, !.feed = n] \in Log
          BY <1>1, <1>3, <4>2, LineType
        <4> QED
          BY <4>1, <4>3
      <3> QED
        BY <1>7, <3>1, <3>2
    <2>3. r.kind = "podLogs" /\ r.pc \in {"drain", "respond", "done"}
      BY <1>1, <1>5, <2>1 DEF LogOK
    <2>4. LogOK(r, m)
      BY <2>3 DEF LogOK
    <2> QED
      BY <2>2, <2>4, SetLogStep
  <1>8. CASE Take(c)
    <2>1. r.pc = "drain"
      BY <1>8 DEF Take
    <2>2. PICK m \in Log :
            /\ SetLog(c, m)
            /\ r.kind # "podLogs" => m.via = l.via /\ m.feed + m.buf + m.taken <= Last
      <3>1. r.kind # "podLogs" => l.via # "pod" /\ l.feed + l.buf + l.taken <= Last
        BY <1>1 DEF LogOK
      <3>2. CASE l.via = "one" /\ l.buf = 1 /\ SetLog(c, [l EXCEPT !.buf = 0, !.taken = @ + 1])
        <4> DEFINE m == [l EXCEPT !.buf = 0, !.taken = @ + 1]
        <4>1. m \in Log
          BY <1>1, <1>3, LineType
        <4>2. m.via = l.via /\ m.feed = l.feed /\ m.buf = 0 /\ m.taken = l.taken + 1
          BY <1>1 DEF Log
        <4>3. m.feed + m.buf + m.taken = l.feed + l.buf + l.taken
          BY <1>2, <3>2, <4>2
        <4> QED
          BY <3>1, <3>2, <4>1, <4>2, <4>3
      <3>3. CASE l.via = "pod" /\ SetLog(c, [l EXCEPT !.hold = 0, !.taken = @ + 1])
        <4>1. [l EXCEPT !.hold = 0, !.taken = @ + 1] \in Log
          BY <1>1, <1>3, LineType
        <4> QED
          BY <3>1, <3>3, <4>1
      <3>4. CASE /\ l.via = "cli" /\ l.feed > 0
                 /\ SetLog(c, [l EXCEPT !.feed = @ - 1, !.taken = @ + 1])
        <4> DEFINE m == [l EXCEPT !.feed = @ - 1, !.taken = @ + 1]
        <4>1. m \in Log
          BY <1>1, <1>3, <3>4, LineType
        <4>2. m.via = l.via /\ m.feed = l.feed - 1 /\ m.buf = l.buf /\ m.taken = l.taken + 1
          BY <1>1 DEF Log
        <4>3. m.feed + m.buf + m.taken = l.feed + l.buf + l.taken
          BY <1>2, <4>2
        <4> QED
          BY <3>1, <3>4, <4>1, <4>2, <4>3
      <3> QED
        BY <1>1, <1>8, <3>2, <3>3, <3>4 DEF Take
    <2>3. LogOK(r, m)
      BY <1>1, <2>1, <2>2 DEF LogOK
    <2> QED
      BY <2>2, <2>3, SetLogStep
  <1> QED
    BY <1>6, <1>7, <1>8 DEF LogStep

(* The agent's process ends: what its commands began may go on.            *)
LEMMA StopStep ==
    ASSUME IInv, AgentStops
    PROVE  IInv'
  <1> USE CallsAssumption
  <1> DEFINE Stopped(c) == [call[c] EXCEPT !.pc = "done",
                              !.client = IF @ = "waiting" THEN "error" ELSE @,
                              !.cli = IF @ = "running" THEN "orphan" ELSE @]
  <1>1. /\ call' = [c \in Calls |-> IF Busy(c) THEN Stopped(c) ELSE call[c]]
        /\ log' = [c \in Calls |-> NoLog]
        /\ UNCHANGED <<host, dir, during, mixed>>
    BY DEF AgentStops
  <1>2. ASSUME NEW c \in Calls PROVE call[c] \in Call /\ Sound(c, call[c])
    BY DEF IInv, TypeOK
  <1>3. ASSUME NEW c \in Calls PROVE Stopped(c) \in Call
    <2>1. ASSUME NEW r \in Call, NEW b \in {"idle", "waiting", "ok", "error", "nonZero", "gone"},
                 NEW d \in {"none", "running", "done", "failed", "killed", "orphan", "ended"}
          PROVE  [r EXCEPT !.pc = "done", !.client = b, !.cli = d] \in Call
      BY DEF Call, Steps
    <2>2. /\ (IF call[c].client = "waiting" THEN "error" ELSE call[c].client)
               \in {"idle", "waiting", "ok", "error", "nonZero", "gone"}
          /\ (IF call[c].cli = "running" THEN "orphan" ELSE call[c].cli)
               \in {"none", "running", "done", "failed", "killed", "orphan", "ended"}
      BY <1>2 DEF Call
    <2> QED
      BY <1>2, <2>1, <2>2
  <1>4. TypeOK'
    <2>1. call' \in [Calls -> Call]
      BY <1>1, <1>2, <1>3
    <2>2. log' \in [Calls -> Log]
      BY <1>1, NoLogType
    <2> QED
      BY <1>1, <2>1, <2>2 DEF IInv, TypeOK
  <1>5. /\ NoLog.via = "none" /\ NoLog.feed = 0 /\ NoLog.buf = 0 /\ NoLog.taken = 0
    BY DEF NoLog
  <1>6. ASSUME NEW r \in Call PROVE LogOK(r, NoLog)
    BY <1>5 DEF LogOK
  <1>7. ASSUME NEW c \in Calls PROVE Sound(c, call[c])'
    <2>1. call'[c] = (IF Busy(c) THEN Stopped(c) ELSE call[c]) /\ log'[c] = NoLog
      BY <1>1
    <2>2. CASE Busy(c)
      <3> DEFINE r == call[c]
                 s == Stopped(c)
      <3>1. s.kind = r.kind /\ s.pc = "done" /\ s.result = r.result
            /\ s.client = (IF r.client = "waiting" THEN "error" ELSE r.client)
            /\ s.socket = r.socket /\ s.cli = (IF r.cli = "running" THEN "orphan" ELSE r.cli)
            /\ s.runs = r.runs /\ s.seen = r.seen /\ s.todo = r.todo /\ s.up = r.up
        BY <1>2 DEF Call
      <3>2. r.pc \notin {"idle", "done"}
        BY <2>2 DEF Busy
      <3>3. CallOK(r) /\ SeenOK(r, during[c], host) /\ BundleOK(c, r, dir, mixed[c])
        BY <1>2 DEF Sound
      <3> HIDE DEF s, r
      <3>4. CallOK(s)
        BY <3>1, <3>2, <3>3 DEF CallOK, Done
      <3>5. SeenOK(s, during[c], host)
        BY <3>1, <3>2, <3>3 DEF SeenOK, Shows
      <3>6. BundleOK(c, s, dir, mixed[c])
        BY <3>1, <3>2, <3>3 DEF BundleOK
      <3>7. LogOK(s, NoLog)
        BY <1>3, <1>6 DEF s
      <3>8. call'[c] = s
        BY <2>1, <2>2 DEF s
      <3> QED
        BY <1>1, <2>1, <3>4, <3>5, <3>6, <3>7, <3>8 DEF Sound
    <2>3. CASE ~Busy(c)
      BY <1>1, <1>2, <1>6, <2>1, <2>3 DEF Sound
    <2> QED
      BY <2>2, <2>3
  <1> QED
    BY <1>4, <1>7 DEF IInv

-----------------------------------------------------------------------------
(* The specification. *)

LEMMA InitIInv == Init => IInv
  <1> SUFFICES ASSUME Init PROVE IInv
    OBVIOUS
  <1> USE CallsAssumption
  <1>1. TypeOK
    BY NoCallType, NoLogType DEF Init, TypeOK
  <1>2. ASSUME NEW c \in Calls PROVE Sound(c, call[c])
    <2>1. call[c] = NoCall /\ log[c] = NoLog /\ during[c] = {}
      BY DEF Init
    <2>2. /\ NoCall.kind = "list" /\ NoCall.pc = "idle" /\ NoCall.result = "none"
          /\ NoCall.client = "idle" /\ NoCall.socket = "none" /\ NoCall.cli = "none"
          /\ NoCall.runs = 0
      BY DEF NoCall
    <2>3. /\ NoLog.via = "none" /\ NoLog.feed = 0 /\ NoLog.buf = 0 /\ NoLog.taken = 0
      BY DEF NoLog
    <2>4. CallOK(NoCall)
      BY <2>2 DEF CallOK, Done, CliOnly, Effects
    <2>5. SeenOK(NoCall, during[c], host) /\ BundleOK(c, NoCall, dir, mixed[c])
      BY <2>2 DEF SeenOK, Shows, BundleOK
    <2>6. LogOK(NoCall, NoLog)
      BY <2>2, <2>3 DEF LogOK
    <2> QED
      BY <2>1, <2>4, <2>5, <2>6 DEF Sound
  <1> QED
    BY <1>1, <1>2 DEF IInv

LEMMA NextIInv == IInv /\ [Next]_vars => IInv'
  <1> SUFFICES ASSUME IInv, [Next]_vars PROVE IInv'
    OBVIOUS
  <1>1. CASE Next
    <2>1. ASSUME NEW c \in Calls, Request(c) PROVE IInv'
      BY <2>1, RequestStep
    <2>2. ASSUME NEW c \in Calls, Leave(c) \/ Cancelled(c) \/ Respond(c) PROVE IInv'
      BY <2>2, CallerStep
    <2>3. ASSUME NEW c \in Calls, Handler(c), ~Respond(c) PROVE IInv'
      BY <2>3, RuntimeStep, SocketReplyStep, InspectStep, CliExitStep, CliKilledStep, DeployStep,
         DrainedStep, WriteFileStep, LineStep
         DEF Handler
    <2>4. ASSUME NEW c \in Calls, LogStep(c) PROVE IInv'
      BY <2>4, LineStep
    <2>5. ASSUME NEW c \in Calls, Host(c) PROVE IInv'
      BY <2>5, HostQuietStep, HostActsStep DEF Host
    <2>6. ASSUME AgentStops PROVE IInv'
      BY <2>6, StopStep
    <2> QED
      BY <1>1, <2>1, <2>2, <2>3, <2>4, <2>5, <2>6 DEF Next
  <1>2. CASE UNCHANGED vars
    BY <1>2 DEF vars, IInv, TypeOK, Sound, Busy
  <1> QED
    BY <1>1, <1>2

(* The invariant above holds in every reachable state, however calls to    *)
(* the agent, time-outs, kills and fallbacks interleave.                   *)
THEOREM Invariance == Spec => []IInv
  BY InitIInv, NextIInv, PTL DEF Spec

(* TypeOK: calls, goroutines, the host and the compose directory keep      *)
(* their types, for any number of calls, files and lines.                  *)
THEOREM TypeCorrect == Spec => []TypeOK
  <1>1. IInv => TypeOK
    BY DEF IInv
  <1> QED
    BY <1>1, Invariance, PTL

(* AnswersAreTrue: what the client reports as done has been done, except a *)
(* build that the socket answered before it failed, and a listing shows    *)
(* nothing but moments of its call.                                        *)
THEOREM Truthful == Spec => []AnswersAreTrue
  <1>1. IInv => AnswersAreTrue
    BY DEF IInv, Sound, CallOK, Done, SeenOK, Shows, AnswersAreTrue
  <1> QED
    BY <1>1, Invariance, PTL

(* RepeatedOnlyByFallback: the fallback repeats an action once at most,    *)
(* and never what only the command line can do.                            *)
THEOREM FewRepeats == Spec => []RepeatedOnlyByFallback
  <1>1. IInv => RepeatedOnlyByFallback
    <2> SUFFICES ASSUME IInv, NEW c \in Calls
                 PROVE  /\ call[c].runs <= 2
                        /\ call[c].runs = 2 =>
                              call[c].kind \in {"act", "build"} /\ call[c].socket = "done"
                        /\ call[c].kind \in CliOnly => call[c].runs <= 1
      BY DEF RepeatedOnlyByFallback
    <2> DEFINE r == call[c]
    <2>1. r.runs \in Nat /\ CallOK(r)
      BY DEF IInv, TypeOK, Sound, Call
    <2> HIDE DEF r
    <2>2. /\ r.runs <= 2 /\ (r.runs = 2 => r.socket = "done")
          /\ r.kind \in CliOnly => r.runs <= 1
      BY <2>1 DEF CallOK, Done
    <2>3. r.runs = 2 => r.kind \in Effects
      BY <2>1 DEF CallOK, Done
    <2> QED
      BY <2>2, <2>3 DEF r, Effects
  <1> QED
    BY <1>1, Invariance, PTL

(* BundleIsWhole: a stack is brought up from its own files unless another  *)
(* deployment has rewritten one in between.                                *)
THEOREM WholeBundles == Spec => []BundleIsWhole
  <1>1. IInv => BundleIsWhole
    BY DEF IInv, Sound, BundleOK, BundleIsWhole
  <1> QED
    BY <1>1, Invariance, PTL

(* FeedersLeakOnlyForPods: whatever way a log is read, only the logs of a  *)
(* whole pod leave a goroutine behind that blocks for ever.                *)
THEOREM FewLeaks == Spec => []FeedersLeakOnlyForPods
  <1>1. IInv => FeedersLeakOnlyForPods
    BY DEF IInv, Sound, LogOK, FeedersLeakOnlyForPods
  <1> QED
    BY <1>1, Invariance, PTL

=============================================================================
