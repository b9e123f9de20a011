------------------------------ MODULE AgentCalls ------------------------------
(***************************************************************************)
(* A call of the web server to an agent, from the client                   *)
(* (server/internal/agents/client.go) through the agent's handler          *)
(* (agent/internal/ipc/server.go) to Podman (agent/internal/podman).       *)
(*                                                                         *)
(* The runtime asks Podman's socket first; after any error it asks the     *)
(* command line.  Each has a timeout, and the caller may leave: the host   *)
(* may still carry out what was given up.  Exec, pod creation and compose  *)
(* deployments exist on the command line only.                             *)
(***************************************************************************)
EXTENDS Naturals

CONSTANTS
    Calls,
    Mixes,      \* which kinds of call are made together
    Files,      \* the files of a compose bundle; all deployments are of one project
    Last,       \* how many lines a call for logs asks for
    Containers, \* bound: containers of a pod, or in a list that need inspection
    None

(* "act": start, stop, restart, kill or delete, a secret; "list": pods or  *)
(* statistics.                                                             *)
Kinds == {"act", "build", "list", "containers", "exec", "deploy", "logs", "podLogs"}

CliOnly == {"exec", "deploy"}

Effects == CliOnly \cup {"act", "build"}

LogKinds == {"logs", "podLogs"}

ASSUME CallsAssumption ==
    /\ Mixes \subseteq [Calls -> Kinds]
    /\ None \notin Calls
    /\ Last \in Nat \ {0}
    /\ Containers \in Nat \ {0}

VARIABLES
    call,   \* a call: its handler, its caller, what it left with Podman
    log,    \* the goroutines that feed log lines to the handler
    host,   \* the call that last changed the host
    dir,    \* the compose directory of the project: who wrote a file
    during, \* history: the values of host since the call began
    mixed   \* history: another deployment rewrote a file before "up" read it

vars == <<call, log, host, dir, during, mixed>>

Steps == {"idle", "preferred", "socket", "inspect", "fallback", "files", "cli",
          "drain", "respond", "done"}

(* What became of the request over the socket; "streamed" is a build that  *)
(* Podman answered with status 200 and whose failure it then streamed.     *)
Requested == {"none", "pending", "done", "streamed", "failed"}

Results == {"none", "ok", "error", "nonZero"}

Call == [kind : Kinds,
         pc : Steps,          \* the handler
         result : Results,    \* what it answers
         client : {"idle", "waiting", "ok", "error", "nonZero", "gone"},
         cancelled : BOOLEAN, \* r.Context() is done
         socket : Requested,
         cli : {"none", "running", "done", "failed", "killed", "orphan", "ended"},
         runs : Nat,          \* how often the host carried it out
         seen : SUBSET (Calls \cup {None}), \* the moments a listing shows
         asks : Nat,          \* containers of a listing still to be inspected
         todo : SUBSET Files, \* files still to be written
         up : [Files -> Calls \cup {None}]] \* what "compose up" read

NoCall == [kind |-> "list", pc |-> "idle", result |-> "none", client |-> "idle",
           cancelled |-> FALSE, socket |-> "none", cli |-> "none", runs |-> 0,
           seen |-> {}, asks |-> 0, todo |-> {}, up |-> [f \in Files |-> None]]

Log == [via : {"none", "one", "pod", "cli"},
        feed : Nat,      \* lines the innermost goroutine has yet to hand over
        buf : 0..1,      \* the channel of capacity one behind it
        hold : 0..1,     \* the line the goroutine of a pod holds
        more : Nat,      \* containers it has yet to ask
        taken : Nat]     \* lines the handler has

NoLog == [via |-> "none", feed |-> 0, buf |-> 0, hold |-> 0, more |-> 0, taken |-> 0]

Busy(c) == call[c].pc \notin {"idle", "done"}

Put(c, record) == call' = [call EXCEPT ![c] = record]

Answered(c, r) == [call[c] EXCEPT !.pc = "respond", !.result = r]

logAndHistory == <<log, host, dir, during, mixed>>

-----------------------------------------------------------------------------
(* The caller. *)

Request(c) ==
    /\ call[c].pc = "idle"
    /\ \E m \in Mixes :
          /\ \A d \in Calls : call[d].pc # "idle" => call[d].kind = m[d]
          /\ Put(c, [NoCall EXCEPT !.kind = m[c], !.pc = "preferred", !.client = "waiting",
                                   !.todo = IF m[c] = "deploy" THEN Files ELSE {}])
    /\ during' = [during EXCEPT ![c] = {host}]
    /\ UNCHANGED <<log, host, dir, mixed>>

(* The browser leaves or five minutes pass. *)
Leave(c) ==
    /\ call[c].client = "waiting"
    /\ Put(c, [call[c] EXCEPT !.client = "gone"])
    /\ UNCHANGED logAndHistory

(* The agent's server sees the connection closed. *)
Cancelled(c) ==
    /\ call[c].client = "gone" /\ Busy(c) /\ ~call[c].cancelled
    /\ Put(c, [call[c] EXCEPT !.cancelled = TRUE])
    /\ UNCHANGED logAndHistory

(* A bad token, no runtime, a body that does not parse. *)
Reject(c) ==
    /\ call[c].pc = "preferred"
    /\ Put(c, Answered(c, "error"))
    /\ UNCHANGED logAndHistory

Respond(c) ==
    /\ call[c].pc = "respond"
    /\ Put(c, [call[c] EXCEPT !.pc = "done",
                 !.client = IF @ = "waiting" THEN call[c].result ELSE @])
    /\ UNCHANGED logAndHistory

-----------------------------------------------------------------------------
(* The host carries out what a runtime asked for, or fails to; a listing   *)
(* matters to a handler that still waits for it.                           *)

Acts(c, done) ==
    /\ call[c].kind \in Effects
    /\ Put(c, [done EXCEPT !.runs = @ + 1,
                           !.up = IF done.kind = "deploy" THEN dir ELSE @])
    /\ host' = c
    /\ during' = [d \in Calls |-> IF Busy(d) THEN during[d] \cup {c} ELSE during[d]]
    /\ UNCHANGED <<log, dir, mixed>>

Reads(c, done, waiting) ==
    /\ call[c].kind \notin Effects
    /\ Put(c, [done EXCEPT !.seen = IF waiting THEN {host} ELSE @])
    /\ UNCHANGED logAndHistory

SocketActs(c) ==
    call[c].socket = "pending" /\ Acts(c, [call[c] EXCEPT !.socket = "done"])

SocketReads(c) ==
    /\ call[c].socket = "pending"
    /\ Reads(c, [call[c] EXCEPT !.socket = "done"], call[c].pc = "socket")

(* A build that fails, after the status of its answer was sent. *)
SocketStreams(c) ==
    /\ call[c].socket = "pending" /\ call[c].kind = "build"
    /\ Put(c, [call[c] EXCEPT !.socket = "streamed"])
    /\ UNCHANGED logAndHistory

(* An error status, or a listing that cannot be parsed. *)
SocketFails(c) ==
    /\ call[c].socket = "pending"
    /\ Put(c, [call[c] EXCEPT !.socket = "failed"])
    /\ UNCHANGED logAndHistory

CliActs(c) ==
    call[c].cli = "running" /\ Acts(c, [call[c] EXCEPT !.cli = "done"])

CliReads(c) ==
    call[c].cli = "running" /\ Reads(c, [call[c] EXCEPT !.cli = "done"], TRUE)

(* An exit status other than zero, or a listing that cannot be parsed. *)
CliFails(c) ==
    /\ call[c].cli = "running"
    /\ Put(c, [call[c] EXCEPT !.cli = "failed"])
    /\ UNCHANGED logAndHistory

(* What a command that was killed or lost its agent had started. *)
OrphanEnds(c) ==
    /\ call[c].cli = "orphan"
    /\ LET ended == [call[c] EXCEPT !.cli = "ended"]
       IN Acts(c, ended) \/ (Put(c, ended) /\ UNCHANGED logAndHistory)

Host(c) ==
    \/ SocketActs(c) \/ SocketReads(c) \/ SocketStreams(c) \/ SocketFails(c)
    \/ CliActs(c) \/ CliReads(c) \/ CliFails(c) \/ OrphanEnds(c)

-----------------------------------------------------------------------------
(* FallbackRuntime: the socket, then the command line. *)

ToFallback(c) ==
    Put(c, [call[c] EXCEPT !.pc = "fallback"]) /\ UNCHANGED logAndHistory

(* Mutant: the socket runtime sends every kind. *)
PreferredAll(c) ==
    /\ call[c].pc = "preferred"
    /\ \/ ToFallback(c)
       \/ /\ ~call[c].cancelled
          /\ Put(c, [call[c] EXCEPT !.pc = "socket", !.socket = "pending"])
          /\ UNCHANGED logAndHistory

(* The socket runtime refuses what only the command line can do; a request *)
(* whose context is done, or that meets no listener, is not sent.          *)
Preferred(c) ==
    /\ call[c].pc = "preferred"
    /\ \/ ToFallback(c)
       \/ /\ call[c].kind \notin CliOnly /\ ~call[c].cancelled
          /\ Put(c, [call[c] EXCEPT !.pc = "socket", !.socket = "pending"])
          /\ UNCHANGED logAndHistory

(* Mutant: the tail is not asked for. *)
WholeLog == 0..(Last + 2)

(* Lines of one container, at most the tail asked for. *)
Tail == 0..Last

OpenLog(c, opened) ==
    /\ Put(c, [call[c] EXCEPT !.pc = "drain"])
    /\ log' = [log EXCEPT ![c] = opened]
    /\ UNCHANGED <<host, dir, during, mixed>>

(* Logs of the socket runtime: for a pod, a goroutine asks its containers  *)
(* one by one; the first request lists them.                               *)
SocketLogs(c) ==
    IF call[c].kind = "podLogs"
    THEN \E n \in 0..Containers : OpenLog(c, [NoLog EXCEPT !.via = "pod", !.more = n])
    ELSE \E n \in Tail : OpenLog(c, [NoLog EXCEPT !.via = "one", !.feed = n])

(* The rows of a container list that carry no health are inspected.        *)
ToInspect(c) == \E n \in 0..Containers :
    Put(c, [call[c] EXCEPT !.pc = "inspect", !.asks = n])

(* The status decides, and the body of a listing; what a build streamed is *)
(* read and dropped.                                                       *)
SocketReply(c) ==
    /\ call[c].pc = "socket"
    /\ \/ call[c].socket = "failed" /\ ToFallback(c)
       \/ call[c].socket = "done" /\ call[c].kind \in LogKinds /\ SocketLogs(c)
       \/ /\ call[c].socket = "done" /\ call[c].kind = "containers"
          /\ ToInspect(c)
          /\ UNCHANGED logAndHistory
       \/ /\ call[c].socket \in {"done", "streamed"}
          /\ call[c].kind \notin LogKinds \cup {"containers"}
          /\ Put(c, Answered(c, "ok"))
          /\ UNCHANGED logAndHistory

(* inspectContainerHealth: a request of its own for each container, whose  *)
(* error leaves the health empty.                                          *)
Inspect(c) ==
    /\ call[c].pc = "inspect"
    /\ \/ /\ call[c].asks > 0
          /\ \/ ~call[c].cancelled
                /\ Put(c, [call[c] EXCEPT !.asks = @ - 1, !.seen = @ \cup {host}])
             \/ Put(c, [call[c] EXCEPT !.asks = @ - 1])
       \/ call[c].asks = 0 /\ Put(c, Answered(c, "ok"))
    /\ UNCHANGED logAndHistory

(* Twenty seconds pass, the caller is gone or the connection breaks; what  *)
(* was sent stays with Podman.                                             *)
SocketGivesUp(c) == call[c].pc = "socket" /\ ToFallback(c)

Start(c) == [call[c] EXCEPT !.pc = "cli", !.cli = "running"]

(* A command whose context is done is not started; a deployment writes its *)
(* files whatever the context says.                                        *)
Fallback(c) ==
    /\ call[c].pc = "fallback"
    /\ \/ call[c].kind # "deploy" /\ ~call[c].cancelled /\ Put(c, Start(c))
       \/ call[c].kind = "deploy" /\ Put(c, [call[c] EXCEPT !.pc = "files"])
       \/ Put(c, Answered(c, "error"))
    /\ UNCHANGED logAndHistory

(* Lines of a whole pod: the tail counts for each container. *)
CliLogs(c) ==
    \E n \in 0..(IF call[c].kind = "podLogs" THEN Containers * Last ELSE Last) :
       OpenLog(c, [NoLog EXCEPT !.via = "cli", !.feed = n])

(* Mutant: the exit status of the command is dropped. *)
CliExitAnyway(c) ==
    /\ call[c].pc = "cli"
    /\ call[c].kind \notin LogKinds
    /\ call[c].cli \in {"done", "failed"}
    /\ Put(c, Answered(c, "ok"))
    /\ UNCHANGED logAndHistory

(* An exec command reports its status as a result.  A killed compose       *)
(* command has left a child that holds its output: the handler waits for   *)
(* that child and then reports the kill.                                   *)
CliExit(c) ==
    /\ call[c].pc = "cli"
    /\ \/ call[c].cli = "done" /\ call[c].kind \in LogKinds /\ CliLogs(c)
       \/ /\ call[c].cli = "done" /\ call[c].kind \notin LogKinds
          /\ Put(c, Answered(c, "ok"))
          /\ UNCHANGED logAndHistory
       \/ /\ call[c].cli \in {"failed", "ended"}
          /\ Put(c, Answered(c, IF call[c].kind = "exec" THEN "nonZero" ELSE "error"))
          /\ UNCHANGED logAndHistory

(* The deadline passes or the caller is gone: the process is killed, maybe *)
(* after it has done its work.  What exec started in the container lives   *)
(* on, and its end is answered as a result, not as an error.               *)
CliKilled(c) ==
    /\ call[c].pc = "cli"
    /\ call[c].cli \in {"running", "done"}
    /\ LET left == IF call[c].cli = "done" THEN "done"
                   ELSE IF call[c].kind \in CliOnly THEN "orphan" ELSE "killed"
       IN CASE call[c].kind = "deploy" /\ left = "orphan" ->
                  Put(c, [call[c] EXCEPT !.cli = left])
            [] call[c].kind = "exec" ->
                  Put(c, [Answered(c, "nonZero") EXCEPT !.cli = left])
            [] OTHER -> Put(c, [Answered(c, "error") EXCEPT !.cli = left])
    /\ UNCHANGED logAndHistory

-----------------------------------------------------------------------------
(* DeployComposeStack: the files one by one, then the provider. *)

(* The deployments that have written f and whose "up" has yet to read it.  *)
Waiting(f) ==
    {d \in Calls : /\ call[d].kind = "deploy" /\ f \notin call[d].todo
                   /\ call[d].pc = "files" \/ call[d].cli \in {"running", "orphan"}}

(* Mutant: a file that is there is not written again. *)
WriteFileOnce(c) ==
    /\ call[c].pc = "files"
    /\ \E f \in call[c].todo :
          /\ dir' = [dir EXCEPT ![f] = IF @ = None THEN c ELSE @]
          /\ Put(c, [call[c] EXCEPT !.todo = @ \ {f}])
          /\ mixed' = [d \in Calls |-> mixed[d] \/ (dir[f] = None /\ d \in Waiting(f))]
    /\ UNCHANGED <<log, host, during>>

WriteFile(c) ==
    /\ call[c].pc = "files"
    /\ \E f \in call[c].todo :
          /\ dir' = [dir EXCEPT ![f] = c]
          /\ Put(c, [call[c] EXCEPT !.todo = @ \ {f}])
          /\ mixed' = [d \in Calls |-> mixed[d] \/ d \in Waiting(f)]
    /\ UNCHANGED <<log, host, during>>

(* The directory or a file cannot be written, or there is no provider. *)
DeployFails(c) ==
    /\ call[c].pc = "files"
    /\ Put(c, Answered(c, "error"))
    /\ UNCHANGED logAndHistory

ComposeUp(c) ==
    /\ call[c].pc = "files" /\ call[c].todo = {}
    /\ ~call[c].cancelled
    /\ Put(c, Start(c))
    /\ UNCHANGED logAndHistory

-----------------------------------------------------------------------------
(* Logs: handleLogs takes lines from a channel until it has Last or the    *)
(* channel is closed.                                                      *)

SetLog(c, record) ==
    /\ log' = [log EXCEPT ![c] = record]
    /\ UNCHANGED <<call, host, dir, during, mixed>>

Buffered(l) == l.via \in {"one", "pod"}

(* Mutant: the channel has no bound. *)
FeedUnbounded(c) ==
    /\ Buffered(log[c]) /\ log[c].feed > 0
    /\ SetLog(c, [log[c] EXCEPT !.feed = @ - 1, !.buf = @ + 1])

(* A goroutine with a channel of capacity one hands a line over. *)
Feed(c) ==
    /\ Buffered(log[c]) /\ log[c].feed > 0 /\ log[c].buf = 0
    /\ SetLog(c, [log[c] EXCEPT !.feed = @ - 1, !.buf = 1])

(* The goroutine of a pod returns once it has passed Last lines on. *)
Relaying(c) == log[c].via = "pod" /\ log[c].taken < Last

RelayTakes(c) ==
    /\ Relaying(c) /\ log[c].hold = 0 /\ log[c].buf = 1
    /\ SetLog(c, [log[c] EXCEPT !.buf = 0, !.hold = 1])

RelayNext(c) ==
    /\ Relaying(c) /\ log[c].more > 0
    /\ log[c].hold = 0 /\ log[c].buf = 0 /\ log[c].feed = 0
    /\ \E n \in Tail : SetLog(c, [log[c] EXCEPT !.more = @ - 1, !.feed = n])

Take(c) ==
    /\ call[c].pc = "drain" /\ log[c].taken < Last
    /\ \/ /\ log[c].via = "one" /\ log[c].buf = 1
          /\ SetLog(c, [log[c] EXCEPT !.buf = 0, !.taken = @ + 1])
       \/ /\ log[c].via = "pod" /\ log[c].hold = 1
          /\ SetLog(c, [log[c] EXCEPT !.hold = 0, !.taken = @ + 1])
       \/ /\ log[c].via = "cli" /\ log[c].feed > 0
          /\ SetLog(c, [log[c] EXCEPT !.feed = @ - 1, !.taken = @ + 1])

Closed(c) == log[c].feed = 0 /\ log[c].buf = 0 /\ log[c].hold = 0 /\ log[c].more = 0

(* Mutant: the handler waits for the channel to be closed. *)
DrainAll(c) ==
    /\ call[c].pc = "drain"
    /\ log[c].taken < Last /\ Closed(c)
    /\ Put(c, Answered(c, "ok"))
    /\ UNCHANGED logAndHistory

Drained(c) ==
    /\ call[c].pc = "drain"
    /\ log[c].taken >= Last \/ Closed(c)
    /\ Put(c, Answered(c, "ok"))
    /\ UNCHANGED logAndHistory

LogStep(c) == Feed(c) \/ RelayTakes(c) \/ RelayNext(c)

-----------------------------------------------------------------------------
(* The agent's process ends and starts again: handlers and goroutines are  *)
(* gone, commands they started may go on, Podman and the files stay.       *)
AgentStops ==
    /\ \E c \in Calls : Busy(c)
    /\ call' = [c \in Calls |->
          IF Busy(c)
          THEN [call[c] EXCEPT !.pc = "done",
                  !.client = IF @ = "waiting" THEN "error" ELSE @,
                  !.cli = IF @ = "running" THEN "orphan" ELSE @]
          ELSE call[c]]
    /\ log' = [c \in Calls |-> NoLog]
    /\ UNCHANGED <<host, dir, during, mixed>>

Handler(c) ==
    \/ Reject(c) \/ Preferred(c) \/ SocketReply(c) \/ Inspect(c) \/ SocketGivesUp(c)
    \/ Fallback(c)
    \/ WriteFile(c) \/ DeployFails(c) \/ ComposeUp(c) \/ CliExit(c) \/ CliKilled(c)
    \/ Take(c) \/ Drained(c) \/ Respond(c)

Init ==
    /\ call = [c \in Calls |-> NoCall]
    /\ log = [c \in Calls |-> NoLog]
    /\ host = None
    /\ dir = [f \in Files |-> None]
    /\ during = [c \in Calls |-> {}]
    /\ mixed = [c \in Calls |-> FALSE]

Next ==
    \/ \E c \in Calls :
          \/ Request(c) \/ Leave(c) \/ Cancelled(c)
          \/ Handler(c) \/ LogStep(c) \/ Host(c)
    \/ AgentStops

(* Goroutines run, and timeouts pass; nothing is assumed of the host or of *)
(* the caller.                                                             *)
Spec ==
    /\ Init /\ [][Next]_vars
    /\ \A c \in Calls : WF_vars(Handler(c)) /\ WF_vars(LogStep(c))

-----------------------------------------------------------------------------
(* Correctness. *)

(* Calls, goroutines, the host and the compose directory keep their types. *)
TypeOK ==
    /\ call \in [Calls -> Call]
    /\ log \in [Calls -> Log]
    /\ host \in Calls \cup {None}
    /\ dir \in [Files -> Calls \cup {None}]
    /\ during \in [Calls -> SUBSET (Calls \cup {None})]
    /\ mixed \in [Calls -> BOOLEAN]

(* What the client reports as done has been done, whichever runtime        *)
(* answered, with one exception the code has: a build whose failure the    *)
(* socket streamed and the command line was not asked for.  A list of pods *)
(* shows the host as it was at one moment of the call, a list of           *)
(* containers at several, each of them during the call.                    *)
AnswersAreTrue ==
    \A c \in Calls : call[c].client = "ok" =>
      /\ call[c].kind \in Effects /\ call[c].runs = 0 =>
            call[c].kind = "build" /\ call[c].socket = "streamed" /\ call[c].cli = "none"
      /\ call[c].kind = "list" => \E m \in during[c] : call[c].seen = {m}
      /\ call[c].kind = "containers" => call[c].seen # {} /\ call[c].seen \subseteq during[c]

(* FallbackRuntime repeats what the socket may have done already, so an    *)
(* action, a secret or a build may run twice, never more; exec, pod        *)
(* creation and a deployment run once at most, whatever times out.         *)
RepeatedOnlyByFallback ==
    \A c \in Calls :
      /\ call[c].runs <= 2
      /\ call[c].runs = 2 => call[c].kind \in {"act", "build"} /\ call[c].socket = "done"
      /\ call[c].kind \in CliOnly => call[c].runs <= 1

(* The stack a deployment brings up consists of its own files, even if an  *)
(* earlier deployment of the project stopped halfway, unless another one   *)
(* rewrote a file between its own write and its "up".                      *)
BundleIsWhole ==
    \A c \in Calls :
      call[c].kind = "deploy" /\ call[c].runs > 0 /\ ~mixed[c] =>
        call[c].up = [f \in Files |-> c]

(* A goroutine that feeds lines nobody will take blocks for ever; only a   *)
(* call for the logs of a whole pod leaves one behind.                     *)
FeedersLeakOnlyForPods ==
    \A c \in Calls :
      LET stuck == IF Buffered(log[c]) THEN log[c].feed > 0 /\ log[c].buf = 1
                   ELSE log[c].feed > 0
      IN call[c].pc = "done" /\ stuck => call[c].kind = "podLogs"

(* Every handler ends, though Podman may never answer and log lines pass   *)
(* through two channels; only a killed compose command whose child goes on *)
(* can keep one waiting.                                                   *)
HandlersEnd ==
    \A c \in Calls :
      Busy(c) ~> (call[c].pc = "done" \/ (call[c].kind = "deploy" /\ call[c].cli = "orphan"))

=============================================================================
