----------------------------- MODULE WebProcess -----------------------------
(***************************************************************************)
(* podorel-web with TLS: one listener whose connections protocolMux tells    *)
(* apart by their first byte and hands over bounded channels to the HTTPS    *)
(* server and to the server that redirects plain HTTP; the start of the      *)
(* process, its shutdown by a signal, its crashes, and the restarts systemd  *)
(* makes.  The database and the log directory outlive the process, the       *)
(* configuration in memory does not.                                         *)
(***************************************************************************)
EXTENDS LogHistory, SecurityScans

CONSTANTS
    Cap,        \* the length of a channel between the mux and a server
    MaxStarts   \* bound: how often the process starts

ASSUME WebAssumption == Cap \in Nat \ {0} /\ MaxStarts \in Nat \ {0}

VARIABLES
    proc,       \* "down", "serving" or "draining" (after a signal)
    starts      \* counts the starts, up to MaxStarts

procVars == <<proc, starts>>

vars == <<reqVars, setVars, scanVars, histVars, procVars>>

others == <<setVars, scanVars, histVars, procVars>>

Up == proc \in {"serving", "draining"}

Steps ==
    {"idle", "backlog", "sniff", "deliver", "queued", "request", "quiet",
     "body", "ended"}
    \cup {"pick", "save", "assign"}
    \cup {"scanner", "analyse", "record", "findings", "clear", "digests",
          "packages"}
    \cup {"expire", "unlink", "prune", "read"}

-----------------------------------------------------------------------------
(* The client connects; the kernel keeps the connection for Accept.          *)
Connect(c) ==
    /\ proc = "serving" /\ at[c] = "idle"
    /\ Go(c, "backlog")
    /\ UNCHANGED others

(* protocolMux.Serve accepts and starts route.                               *)
MuxAccept(c) ==
    /\ proc = "serving" /\ at[c] = "backlog"
    /\ Go(c, "sniff")
    /\ UNCHANGED others

FirstByte(c) ==
    /\ Up /\ at[c] = "sniff"
    /\ Go(c, "deliver")
    /\ UNCHANGED others

(* A route that reads without a deadline: it goes on waiting.                *)
SniffForever(c) ==
    /\ Up /\ at[c] = "sniff"
    /\ UNCHANGED vars

(* The first byte did not come in time, or the client is gone.               *)
SniffTimeout(c) ==
    /\ Up /\ at[c] = "sniff"
    /\ Answer(c, "none")
    /\ UNCHANGED others

Queue(c) == {d \in Conns : at[d] = "queued" /\ (kind[d] = "plain") = (kind[c] = "plain")}

(* connListener.deliver waits for room or for the listener to close.         *)
Deliver(c) ==
    /\ Up /\ at[c] = "deliver"
    /\ \/ Cardinality(Queue(c)) < Cap /\ Go(c, "queued")
       \/ proc = "draining" /\ Answer(c, "none")
    /\ UNCHANGED others

(* A server takes the connection from its listener.  Once the listener is    *)
(* closed it may or may not.                                                 *)
Accept(c) ==
    /\ Up /\ at[c] = "queued"
    /\ Go(c, "request")
    /\ UNCHANGED others

(* The handshake or the header failed or took too long.                      *)
HeaderTimeout(c) ==
    /\ Up /\ at[c] = "request"
    /\ Answer(c, "none")
    /\ UNCHANGED others

(* httpsRedirectHandler.                                                     *)
Redirect(c) ==
    /\ Up /\ at[c] = "request" /\ kind[c] = "plain"
    /\ Answer(c, "redirect")
    /\ UNCHANGED others

(* The header of an API request: the session, its CSRF token and the right   *)
(* to it are checked, then the handler runs or reads the body.               *)
Handle(c) ==
    /\ kind[c] # "plain"
    /\ \/ Answer(c, "refused")
       \/ Go(c, CASE kind[c] = "put" -> "body"
                  [] kind[c] = "scan" -> "scanner"
                  [] kind[c] = "history" -> "expire")

Header(c) ==
    /\ Up /\ at[c] = "request"
    /\ Handle(c)
    /\ UNCHANGED others

(* The handshake chose HTTP/2, where no time is set for a header.            *)
Quiet(c) ==
    /\ Up /\ at[c] = "request" /\ kind[c] # "plain"
    /\ Go(c, "quiet")
    /\ UNCHANGED others

LateHeader(c) ==
    /\ Up /\ at[c] = "quiet"
    /\ Handle(c) \/ Answer(c, "none")
    /\ UNCHANGED others

(* The body arrives; it may be malformed, or name the wrong password.        *)
Body(c) ==
    /\ Up /\ at[c] = "body"
    /\ \/ BeginPut(c) /\ Go(c, "pick")
       \/ Answer(c, "refused") /\ UNCHANGED setVars
    /\ UNCHANGED <<scanVars, histVars, procVars>>

(* The handlers.                                                             *)
Settle(c) ==
    /\ Up /\ PutStep(c)
    /\ Hold
    /\ UNCHANGED <<scanVars, files, hist, mingled, procVars>>

Scan(c) ==
    /\ Up /\ ScanStep(c)
    /\ UNCHANGED <<setVars, histVars, procVars>>

History(c) ==
    /\ Up /\ HistoryStep(c)
    /\ UNCHANGED <<setVars, scanVars, procVars>>

(* The client has read its answer; it may send another request, or not.      *)
Written(c) ==
    /\ Up /\ wire[c] = "writing"
    /\ GoOn(c, "kept")
    /\ UNCHANGED others

(* The client hangs up, or a draining server closes an idle connection.      *)
Close(c) ==
    /\ Up /\ wire[c] # "none"
    /\ GoOn(c, "none")
    /\ UNCHANGED others

-----------------------------------------------------------------------------
(* The process is gone and its connections with it.                          *)
Down ==
    /\ proc' = "down"
    /\ at' = [c \in Conns |-> IF at[c] = "idle" THEN "idle" ELSE "ended"]
    /\ wire' = [c \in Conns |-> "none"]
    /\ UNCHANGED <<kind, reply, setVars, scanVars, histVars, starts>>

(* A signal closes the listener; what the kernel still holds is reset.       *)
Signal ==
    /\ proc = "serving"
    /\ proc' = "draining"
    /\ at' = [c \in Conns |-> IF at[c] = "backlog" THEN "ended" ELSE at[c]]
    /\ UNCHANGED <<kind, reply, wire, setVars, scanVars, histVars, starts>>

(* Both servers are drained, or ten seconds are over: the process exits      *)
(* either way.                                                               *)
Exit == proc = "draining" /\ Down

(* Accept returns an error, any error: the process exits.                    *)
AcceptFails == proc = "serving" /\ Down

Crash == Up /\ Down

(* systemd starts the process, which opens the database and applies the      *)
(* saved settings before it listens.                                         *)
Start ==
    /\ proc = "down" /\ starts < MaxStarts
    /\ proc' = "serving" /\ starts' = starts + 1
    /\ Load
    /\ Hold
    /\ UNCHANGED <<reqVars, scanVars, files, hist, mingled>>

Serve(c) ==
    \/ MuxAccept(c) \/ SniffTimeout(c) \/ Deliver(c) \/ Accept(c)
    \/ HeaderTimeout(c) \/ Redirect(c) \/ Header(c)
    \/ Settle(c) \/ Scan(c) \/ History(c)

Finished == proc = "down" /\ starts = MaxStarts /\ UNCHANGED vars

Next ==
    \/ \E c \in Conns :
        \/ Serve(c)
        \/ Connect(c) \/ FirstByte(c) \/ Quiet(c) \/ LateHeader(c) \/ Body(c)
        \/ Written(c) \/ Close(c)
    \/ Signal \/ Exit \/ AcceptFails \/ Crash \/ Start \/ Finished

Init ==
    /\ kind \in Mixes
    /\ at = [c \in Conns |-> "idle"]
    /\ reply = [c \in Conns |-> "none"]
    /\ wire = [c \in Conns |-> "none"]
    /\ SettingsInit
    /\ ScansInit
    /\ HistoryInit
    /\ proc = "down"
    /\ starts = 0

(* Goroutines run, timeouts fire, and systemd restarts the process.  What a  *)
(* client sends or reads, it may never send or read.                         *)
Fairness ==
    /\ \A c \in Conns : WF_vars(Serve(c))
    /\ WF_vars(Exit)
    /\ WF_vars(Start)

Spec == Init /\ [][Next]_vars /\ Fairness

-----------------------------------------------------------------------------
TypeOK ==
    /\ kind \in Mixes
    /\ at \in [Conns -> Steps]
    /\ reply \in [Conns -> Replies]
    /\ wire \in [Conns -> {"none", "writing", "kept"}]
    /\ SettingsTypeOK
    /\ ScansTypeOK
    /\ HistoryTypeOK
    /\ proc \in {"down", "serving", "draining"}
    /\ starts \in 0..MaxStarts

(* The configuration in memory is the one a restart would load, in every     *)
(* section two requests never worked on at once, while none is saving it and *)
(* as long as its durations fit; and a request answered with success finds   *)
(* its values in the table until another begins on the section               *)
(* (applySettingsPayload saves and assigns without a lock).                  *)
SettingsAgree ==
    \A s \in Sections \ mixed :
        /\ Up /\ ~(\E c \in Conns : at[c] = "assign" /\ InSection(c, s))
              /\ (table[s] # NoRow => Fits(s))
            => \A w \in WordsOf[s] : memory[w] = Loaded(s, w)
        /\ author[s] # NoRow /\ reply[author[s]] = "saved"
            => \A w \in WordsOf[s] :
                Accepted(put[author[s]].given, w) =>
                    table[s][w] = put[author[s]].given[w]

(* A scan answered as complete has every finding of its images stored, and   *)
(* the scan that last cleared the digests left one row for each of its       *)
(* images, beside those of scans that were still adding theirs or could not  *)
(* clear (runSecurityScan, recordImageDigestChecks).                         *)
ScansStored ==
    /\ \A c \in Conns : reply[c] = "complete" =>
        /\ scans[c] = "complete"
        /\ {i \in Images : <<c, i>> \in findings} = scan[c].images \cap Vulnerable
    /\ \A c \in renewer \ unclean :
        reply[c] \in {"complete", "failed", "unavailable"} =>
            /\ {i \in Images : <<c, i>> \in digests} = scan[c].images
            /\ \A row \in digests : row[1] \in unclean \cup {c}

(* However requests overlap with each other and with changes of the          *)
(* settings, no log is removed that every configuration in force would have  *)
(* kept; and a history request that met no other is answered with all logs   *)
(* there are (rotation.go, readHistoricalLogs).                              *)
LogsKept ==
    /\ held \subseteq files
    /\ \A c \in Conns \ mingled :
        /\ reply[c] = "history" => held \subseteq hist[c].shown
        /\ kind[c] = "history" /\ reply[c] = "error" => held = {}

(* Every connection ends whose client does not stop for ever at one of four  *)
(* places: before the header of a request over HTTP/2, in the body of one,   *)
(* before its answer is read, or before another request.  Nothing else keeps *)
(* a connection: neither the mux with its channels, nor a handler, nor a     *)
(* missing first byte, handshake or header (main.go sets ReadHeaderTimeout   *)
(* for both servers, and no other limit).                                    *)
ConnectionsEnd ==
    \A c \in Conns :
        /\ []<>(at[c] # "quiet") /\ []<>(at[c] # "body")
        /\ []<>(wire[c] # "writing") /\ []<>(wire[c] # "kept")
        => (at[c] # "idle" ~> at[c] = "ended" /\ wire[c] = "none")

=============================================================================
