------------------------------ MODULE ExecSession ------------------------------
(***************************************************************************)
(* An interactive shell: browser, web handler and its two bridges          *)
(* (server/internal/app/observability.go), agent handler with its reader   *)
(* and its output stream (agent/internal/ipc/server.go), and the shell     *)
(* behind a pseudo terminal.                                               *)
(*                                                                         *)
(* A write blocks while what it writes to is full.  A blocked writer holds *)
(* the lock of its connection (internal/websocket); whoever waits for that *)
(* lock would block on the same connection, so the lock needs no variable. *)
(* What a goroutine has read and cannot write yet stays where it was read; *)
(* meanwhile the goroutine sees nothing else.                              *)
(***************************************************************************)
EXTENDS Naturals, Sequences

CONSTANTS
    Traffic, \* bound: messages the browser sends and pieces the shell writes, together
    Cap      \* what a connection or the terminal holds unread

ASSUME ExecAssumption == Traffic \in Nat /\ Cap \in Nat \ {0}

VARIABLES
    pc,     \* handlers and goroutines
    to,     \* messages on their way to an end of a connection
    open,   \* the ends of the two connections
    pty,    \* the terminal: open, what the shell has not read, what it wrote
    shell,
    cancelled, \* the context of the shell's process
    told,   \* what the browser sent
    wrote,  \* pieces of output the shell has written
    got,    \* history: inputs the shell read
    shown   \* history: messages the browser showed

vars == <<pc, to, open, pty, shell, cancelled, told, wrote, got, shown>>

Goroutines == {"web", "up", "down", "agent", "reader", "stream"}

(* Browser and front are one connection, back and agent the other. *)
Peer == [browser |-> "front", front |-> "browser", back |-> "agent", agent |-> "back"]

Ends == DOMAIN Peer

(* "big" is an input of more than 65535 bytes, "odd" a type the agent does *)
(* not know, "eof" a close frame; a resize changes nothing here.           *)
Inputs ==
    [kind : {"input", "big", "odd"}, n : 1..Traffic] \cup [kind : {"close", "eof"}, n : {0}]

Outputs ==
    [kind : {"output"}, n : 1..Traffic]
       \cup [kind : {"connected", "error", "closed", "eof"}, n : {0}]

NoTerminal == [open |-> FALSE, in |-> <<>>, out |-> <<>>]

Say(kind) == [kind |-> kind, n |-> 0]

Go(g, step) == pc' = [pc EXCEPT ![g] = step]

-----------------------------------------------------------------------------
(* Connections. *)

Broken(e) == ~open[e] \/ ~open[Peer[e]]

Room(q) == Len(q) < Cap

(* Mutant: a frame is written whether there is room or not. *)
WritableAlways(e) == open[e]

Writable(e) == open[e] /\ (open[Peer[e]] => Room(to[Peer[e]]))

(* A frame without a peer is lost. *)
Sent(e, m, queues) ==
    IF open[Peer[e]] THEN [queues EXCEPT ![Peer[e]] = Append(@, m)] ELSE queues

Write(e, m) == Writable(e) /\ to' = Sent(e, m, to)

Pending(e) == open[e] /\ to[e] # <<>>

Received(e) == IF Pending(e) THEN [to EXCEPT ![e] = Tail(@)] ELSE to

(* What would arrive at a closed end is dropped. *)
Close(ends) ==
    /\ open' = [e \in Ends |-> open[e] /\ e \notin ends]
    /\ to' = [e \in Ends |-> IF e \in ends THEN <<>> ELSE to[e]]

-----------------------------------------------------------------------------
(* The browser. *)

browserRest == <<pc, pty, shell, cancelled, wrote, got>>

Typing == pc["web"] = "bridge" /\ open["browser"] /\ ~told.closed

Send(kind) ==
    /\ Typing /\ ~told.asked /\ told.n + wrote < Traffic
    /\ told' = [told EXCEPT !.n = @ + 1,
                            !.odd = IF kind = "odd" THEN @ \cup {told.n + 1} ELSE @]
    /\ Write("browser", [kind |-> kind, n |-> told.n + 1])
    /\ UNCHANGED <<open, shown, browserRest>>

(* closeShell sends a message and a close frame, leaving the page only the *)
(* frame.                                                                  *)
SendClose ==
    /\ Typing
    /\ \/ ~told.asked /\ Write("browser", Say("close"))
          /\ told' = [told EXCEPT !.asked = TRUE]
       \/ Write("browser", Say("eof"))
          /\ told' = [told EXCEPT !.asked = TRUE, !.closed = TRUE]
    /\ UNCHANGED <<open, shown, browserRest>>

(* A browser that has read a close frame delivers nothing more. *)
Show ==
    /\ Pending("browser")
    /\ IF Head(to["browser"]).kind = "eof"
       THEN Close({"browser"}) /\ UNCHANGED shown
       ELSE /\ shown' = Append(shown, Head(to["browser"]))
            /\ to' = Received("browser")
            /\ UNCHANGED open
    /\ UNCHANGED <<told, browserRest>>

BrowserGone ==
    /\ open["browser"]
    /\ Close({"browser"})
    /\ UNCHANGED <<told, shown, browserRest>>

Browser == Send("input") \/ Send("big") \/ Send("odd") \/ SendClose \/ Show \/ BrowserGone

-----------------------------------------------------------------------------
(* The web handler. *)

webRest == <<pty, shell, cancelled, told, wrote, got, shown>>

(* Exec is disabled, the container is unknown, not the session's or not    *)
(* running in the snapshot, or the agent cannot be reached.                *)
Refuse ==
    /\ pc["web"] = "check"
    /\ Go("web", "done")
    /\ Close({"front"})
    /\ UNCHANGED webRest

(* ExecWebSocket: the agent's handler has accepted. *)
DialUnix ==
    /\ pc["web"] = "check"
    /\ pc' = [pc EXCEPT !["web"] = "accept", !["agent"] = "start"]
    /\ open' = [open EXCEPT !["back"] = TRUE, !["agent"] = TRUE]
    /\ UNCHANGED <<to, webRest>>

Accept ==
    /\ pc["web"] = "accept"
    /\ \/ pc' = [pc EXCEPT !["web"] = "bridge", !["up"] = "run", !["down"] = "run"]
       \/ Go("web", "return")
    /\ UNCHANGED <<open, to, webRest>>

(* Mutant: a bridge drops what it cannot write and goes on. *)
CopyOrSkip(g, src, dst) ==
    /\ pc[g] = "run"
    /\ Pending(src) /\ Head(to[src]).kind # "eof"
    /\ Writable(dst)
    /\ to' = IF Head(to[src]).kind = "big" THEN Received(src)
             ELSE Sent(dst, Head(to[src]), Received(src))
    /\ UNCHANGED <<pc, open, webRest>>

(* A goroutine of bridgeExecWebSocket copies from src to dst. *)
Copy(g, src, dst) ==
    /\ pc[g] = "run"
    /\ Pending(src) /\ Head(to[src]).kind \notin {"eof", "big"}
    /\ Writable(dst)
    /\ to' = Sent(dst, Head(to[src]), Received(src))
    /\ UNCHANGED <<pc, open, webRest>>

(* A read or a write fails, or a close frame is read; a frame of more than *)
(* 65535 bytes is read but cannot be written.                              *)
CopyFails(g, src, dst) ==
    /\ pc[g] = "run"
    /\ \/ Broken(src) /\ (to[src] = <<>> \/ Writable(dst))
       \/ Pending(src) /\ (Head(to[src]).kind \in {"eof", "big"} \/ Broken(dst))
    /\ Go(g, "end")
    /\ to' = Received(src)
    /\ UNCHANGED <<open, webRest>>

Up == Copy("up", "front", "back") \/ CopyFails("up", "front", "back")

Down == Copy("down", "back", "front") \/ CopyFails("down", "back", "front")

(* errCh: one of the two bridges has ended. *)
Disconnect ==
    /\ pc["web"] = "bridge"
    /\ "end" \in {pc["up"], pc["down"]}
    /\ Go("web", "closeFront")
    /\ UNCHANGED <<open, to, webRest>>

(* The errors of WriteClose are dropped. *)
WriteClose(step, e, next) ==
    /\ pc["web"] = step
    /\ Write(e, Say("eof")) \/ (Broken(e) /\ UNCHANGED to)
    /\ Go("web", next)
    /\ UNCHANGED <<open, webRest>>

Return ==
    /\ pc["web"] = "return"
    /\ Go("web", "done")
    /\ Close({"front", "back"})
    /\ UNCHANGED webRest

Web ==
    \/ Refuse \/ DialUnix \/ Accept \/ Disconnect
    \/ WriteClose("closeFront", "front", "closeBack")
    \/ WriteClose("closeBack", "back", "return")
    \/ Return

-----------------------------------------------------------------------------
(* The agent's handler. *)

(* The errors of WriteText are dropped. *)
WriteText(m) == Write("agent", m) \/ (Broken("agent") /\ UNCHANGED to)

StartPTYExec ==
    /\ pc["agent"] = "start"
    /\ \/ /\ pc' = [pc EXCEPT !["agent"] = "wait", !["stream"] = "run", !["reader"] = "run"]
          /\ WriteText(Say("connected"))
          /\ shell' = "running"
          /\ pty' = [pty EXCEPT !.open = TRUE]
       \/ /\ Go("agent", "return")
          /\ WriteText(Say("error"))
          /\ UNCHANGED <<shell, pty>>
    /\ UNCHANGED <<open, cancelled, told, wrote, got, shown>>

(* cmd.Wait returns. *)
Wait ==
    /\ pc["agent"] = "wait" /\ shell = "exited"
    /\ Go("agent", "status")
    /\ cancelled' = TRUE
    /\ UNCHANGED <<to, open, pty, shell, told, wrote, got, shown>>

WriteClosed ==
    /\ pc["agent"] = "status"
    /\ WriteText(Say("closed"))
    /\ Go("agent", "return")
    /\ UNCHANGED <<open, webRest>>

AgentReturn ==
    /\ pc["agent"] = "return"
    /\ Go("agent", "done")
    /\ pty' = NoTerminal
    /\ Close({"agent"})
    /\ UNCHANGED <<shell, cancelled, told, wrote, got, shown>>

Alive == pty.open /\ shell = "running"

(* terminal.Write, its error dropped; an unsupported type is answered. *)
ReaderPasses ==
    /\ pc["reader"] = "run" /\ Pending("agent")
    /\ LET m == Head(to["agent"])
       IN \/ /\ m.kind = "input" /\ (Alive => Room(pty.in))
             /\ pty' = IF Alive THEN [pty EXCEPT !.in = Append(@, m.n)] ELSE pty
             /\ to' = Received("agent")
          \/ /\ m.kind = "odd"
             /\ Writable("agent") \/ Broken("agent")
             /\ to' = Sent("agent", Say("error"), Received("agent"))
             /\ UNCHANGED pty
    /\ UNCHANGED <<pc, open, shell, cancelled, told, wrote, got, shown>>

(* The reader is in a write that blocks. *)
ReaderBlocks ==
    /\ pc["reader"] = "run" /\ Pending("agent")
    /\ LET m == Head(to["agent"])
       IN \/ m.kind = "input" /\ Alive /\ ~Room(pty.in)
          \/ m.kind = "odd" /\ ~Writable("agent") /\ ~Broken("agent")

HangsUp ==
    /\ pc["reader"] = "run"
    /\ \/ Pending("agent") /\ Head(to["agent"]).kind \in {"close", "eof"}
       \/ Broken("agent") /\ ~ReaderBlocks

(* Mutant: a reader that ends leaves the shell alone. *)
ReaderStops ==
    /\ HangsUp
    /\ Go("reader", "end")
    /\ to' = Received("agent")
    /\ UNCHANGED <<open, webRest>>

(* terminal.Close and cancel. *)
ReaderEnds ==
    /\ HangsUp
    /\ Go("reader", "end")
    /\ pty' = NoTerminal
    /\ cancelled' = TRUE
    /\ to' = Received("agent")
    /\ UNCHANGED <<open, shell, told, wrote, got, shown>>

StreamCopies ==
    /\ pc["stream"] = "run"
    /\ pty.open /\ pty.out # <<>>
    /\ WriteText([kind |-> "output", n |-> Head(pty.out)])
    /\ pty' = [pty EXCEPT !.out = Tail(@)]
    /\ UNCHANGED <<pc, open, shell, cancelled, told, wrote, got, shown>>

StreamEnds ==
    /\ pc["stream"] = "run"
    /\ ~pty.open \/ (shell # "running" /\ pty.out = <<>>)
    /\ Go("stream", "end")
    /\ UNCHANGED <<to, open, webRest>>

Agent == StartPTYExec \/ Wait \/ WriteClosed \/ AgentReturn

Reader == ReaderPasses \/ ReaderEnds

Stream == StreamCopies \/ StreamEnds

-----------------------------------------------------------------------------
(* The shell and crashes. *)

shellRest == <<pc, to, open, cancelled, told, shown>>

ShellReads ==
    /\ Alive /\ pty.in # <<>>
    /\ pty' = [pty EXCEPT !.in = Tail(@)]
    /\ got' = Append(got, Head(pty.in))
    /\ UNCHANGED <<shell, wrote, shellRest>>

ShellWrites ==
    /\ Alive /\ Room(pty.out) /\ told.n + wrote < Traffic
    /\ wrote' = wrote + 1
    /\ pty' = [pty EXCEPT !.out = Append(@, wrote + 1)]
    /\ UNCHANGED <<shell, got, shellRest>>

ShellExits ==
    /\ shell = "running"
    /\ shell' = "exited"
    /\ pty' = [pty EXCEPT !.in = <<>>]
    /\ UNCHANGED <<wrote, got, shellRest>>

(* exec.CommandContext kills the process of a cancelled context. *)
Killed == cancelled /\ ShellExits

WebStops ==
    /\ pc["web"] # "done"
    /\ pc' = [pc EXCEPT !["web"] = "done",
                !["up"] = IF @ = "off" THEN @ ELSE "end",
                !["down"] = IF @ = "off" THEN @ ELSE "end"]
    /\ Close({"front", "back"})
    /\ UNCHANGED webRest

(* Nobody is left to kill the shell. *)
AgentStops ==
    /\ pc["agent"] \notin {"off", "done"}
    /\ pc' = [pc EXCEPT !["agent"] = "done",
                !["reader"] = IF @ = "off" THEN @ ELSE "end",
                !["stream"] = IF @ = "off" THEN @ ELSE "end"]
    /\ Close({"agent"})
    /\ pty' = NoTerminal
    /\ shell' = IF shell = "running" THEN "orphan" ELSE shell
    /\ UNCHANGED <<cancelled, told, wrote, got, shown>>

Init ==
    /\ pc = [g \in Goroutines |-> IF g = "web" THEN "check" ELSE "off"]
    /\ to = [e \in Ends |-> <<>>]
    /\ open = [e \in Ends |-> e \in {"browser", "front"}]
    /\ pty = NoTerminal
    /\ shell = "off" /\ cancelled = FALSE
    /\ told = [n |-> 0, odd |-> {}, asked |-> FALSE, closed |-> FALSE]
    /\ wrote = 0
    /\ got = <<>> /\ shown = <<>>

Next ==
    \/ Browser \/ Web \/ Up \/ Down \/ Agent \/ Reader \/ Stream
    \/ ShellReads \/ ShellWrites \/ ShellExits \/ WebStops \/ AgentStops

(* Goroutines run and a killed process ends; nothing is assumed of the     *)
(* browser, nor that the shell reads, writes or exits.                     *)
Spec ==
    /\ Init /\ [][Next]_vars
    /\ WF_vars(Web) /\ WF_vars(Up) /\ WF_vars(Down)
    /\ WF_vars(Agent) /\ WF_vars(Reader) /\ WF_vars(Stream)
    /\ WF_vars(Killed)

-----------------------------------------------------------------------------
(* Correctness. *)

Holds(messages) == UNION {[1..k -> messages] : k \in 0..Cap}

(* No connection and no terminal ever holds more than Cap, and everybody   *)
(* holds messages of the right direction.                                  *)
TypeOK ==
    /\ pc \in [Goroutines -> {"off", "check", "accept", "bridge", "closeFront", "closeBack",
                              "return", "done", "run", "end", "start", "wait", "status"}]
    /\ \A e \in {"front", "agent"} : to[e] \in Holds(Inputs)
    /\ \A e \in {"browser", "back"} : to[e] \in Holds(Outputs)
    /\ open \in [Ends -> BOOLEAN]
    /\ pty \in [open : BOOLEAN, in : Holds(1..Traffic), out : Holds(1..Traffic)]
    /\ shell \in {"off", "running", "exited", "orphan"}
    /\ cancelled \in BOOLEAN
    /\ told \in [n : 0..Traffic, odd : SUBSET (1..Traffic), asked : BOOLEAN, closed : BOOLEAN]
    /\ wrote \in 0..Traffic
    /\ got \in Seq(1..Traffic) /\ shown \in Seq(Outputs)

Promise == INSTANCE RemoteShell WITH typed <- told.n, void <- told.odd, read <- got,
                                     written <- wrote

(* Through two connections and four goroutines that drop errors, nothing   *)
(* is lost from the middle, repeated or overtaken: what the shell reads    *)
(* and what the browser shows are steps that RemoteShell allows.           *)
KeepsPromise == Promise!Spec

Ended ==
    /\ pc["web"] = "done" /\ pc["agent"] \in {"off", "done"}
    /\ \A g \in Goroutines \ {"web", "agent"} : pc[g] \in {"off", "end"}
    /\ shell # "running"

BrowserBlocks == open["browser"] /\ ~Room(to["browser"])

(* When the browser leaves, a process ends or the shell exits, the whole   *)
(* session ends: handlers, goroutines, connections and shell.  The code    *)
(* does not manage it in two cases: a browser that stays and does not read *)
(* what is left for it, and a reader of the agent that is blocked for ever *)
(* in a write (to a shell that does not read, or of an error nobody        *)
(* takes): WriteClose then waits for the lock of the connection before it  *)
(* is closed.                                                              *)
SessionsEnd ==
    (told.closed \/ ~open["browser"] \/ pc["web"] = "done" \/ pc["agent"] = "done"
       \/ shell = "exited")
      ~> (Ended \/ []BrowserBlocks \/ []ReaderBlocks)

=============================================================================
