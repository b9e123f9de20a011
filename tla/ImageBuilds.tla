----------------------------- MODULE ImageBuilds -----------------------------
(***************************************************************************)
(* Image builds (server/internal/app/builds.go): a request stores a row    *)
(* and starts a goroutine that outlives it; the goroutine asks the agent   *)
(* to build and writes its progress back; WebSocket handlers poll the row  *)
(* and send it whenever it has changed.                                    *)
(*                                                                         *)
(* Every UpdateImageBuild rewrites the whole row from a copy read earlier, *)
(* and its error is dropped.  A restart of the server ends the goroutines  *)
(* and the sockets; nothing picks the rows up again.                       *)
(***************************************************************************)
EXTENDS Naturals, Sequences

CONSTANTS
    Builds,    \* builds that may be requested
    Watchers,  \* connections to /api/ws/builds
    Faulty,    \* builds some of whose store calls may fail
    NoRow

ASSUME FaultyAssumption == Faulty \subseteq Builds

VARIABLES
    table,   \* image_builds: build to row, or NoRow
    step,    \* where the goroutine of a build is
    copy,    \* the row the goroutine works on
    result,  \* what client.BuildImage returned; history once the goroutine is gone
    wpc, watched, sent, \* a watcher: its state, its build, lastPayload
    restarted \* history: the server has restarted

buildVars == <<table, step, copy, result>>
watcherVars == <<wpc, watched, sent, restarted>>
vars == <<buildVars, watcherVars>>

Statuses == {"queued", "running", "complete", "failed"}

Ended == {"complete", "failed"}

Entries == {"queued", "started", "complete", "failed"}

(* Every row a build goes through, whatever is lost: at most three entries. *)
Logs == {<<"queued">>, <<"queued", "started">>} \cup
        {<<"queued", e>> : e \in Ended} \cup {<<"queued", "started", e>> : e \in Ended}

Row == [status : Statuses, logs : Logs, finished : BOOLEAN, error : BOOLEAN]

ASSUME NoRowAssumption == NoRow \notin Row

Steps == {"none", "load", "markRunning", "readStarted", "logStarted", "build",
          "reload", "finish", "readOutcome", "logOutcome", "done"}

(* Mutant: the outcome is recorded in the words of the agent call. *)
OutcomeRaw(b) == result[b]

(* The entry the goroutine appends, and the status it ends with. *)
Outcome(b) == IF result[b] = "ok" THEN "complete" ELSE "failed"

-----------------------------------------------------------------------------
Load(b, row) == copy' = [copy EXCEPT ![b] = row]

Advance(b, next) == step' = [step EXCEPT ![b] = next]

(* createImageBuild: the row, then the goroutine. *)
CreateImageBuild(b) ==
    /\ step[b] = "none"
    /\ table' = [table EXCEPT ![b] = [status |-> "queued", logs |-> <<"queued">>,
                                      finished |-> FALSE, error |-> FALSE]]
    /\ Advance(b, "load")
    /\ UNCHANGED <<copy, result, watcherVars>>

(* UpdateImageBuild: one statement, from the copy; a failure goes unnoticed. *)
UpdateImageBuild(b, next) ==
    /\ \/ table' = [table EXCEPT ![b] = copy[b]]
       \/ b \in Faulty /\ UNCHANGED table
    /\ Advance(b, next)
    /\ UNCHANGED <<copy, result, watcherVars>>

(* A read that fails ends the goroutine, or only the append it was for. *)
ReadFails(b, next) ==
    /\ b \in Faulty
    /\ Advance(b, next)
    /\ UNCHANGED <<table, copy, result, watcherVars>>

LoadBuild(b) ==
    /\ step[b] = "load"
    /\ \/ /\ Load(b, [table[b] EXCEPT !.status = "running"])
          /\ Advance(b, "markRunning")
          /\ UNCHANGED <<table, result, watcherVars>>
       \/ ReadFails(b, "done")

MarkRunning(b) == step[b] = "markRunning" /\ UpdateImageBuild(b, "readStarted")

(* AppendImageBuildLog: read the row, append, write it back. *)
AppendRead(b, entry, write, skip) ==
    \/ /\ Load(b, [table[b] EXCEPT !.logs = Append(@, entry)])
       /\ Advance(b, write)
       /\ UNCHANGED <<table, result, watcherVars>>
    \/ ReadFails(b, skip)

ReadStarted(b) ==
    step[b] = "readStarted" /\ AppendRead(b, "started", "logStarted", "build")

LogStarted(b) == step[b] = "logStarted" /\ UpdateImageBuild(b, "build")

(* buildImageWithAgent returns within the client's five minutes.  Neither  *)
(* answer tells whether the image exists: the host may go on after an      *)
(* error, and "ok" may be the status of a failed build (AgentCalls).       *)
BuildImage(b) ==
    /\ step[b] = "build"
    /\ \E r \in {"ok", "error"} : result' = [result EXCEPT ![b] = r]
    /\ Advance(b, "reload")
    /\ UNCHANGED <<table, copy, watcherVars>>

(* Mutant: the row loaded before the build is written back after it. *)
ReloadStale(b) ==
    /\ step[b] = "reload"
    /\ Load(b, [status |-> Outcome(b), logs |-> <<"queued">>,
                finished |-> TRUE, error |-> result[b] = "error"])
    /\ Advance(b, "finish")
    /\ UNCHANGED <<table, result, watcherVars>>

(* Mutant: FinishedAt is set on success only. *)
ReloadUnfinished(b) ==
    /\ step[b] = "reload"
    /\ Load(b, [table[b] EXCEPT !.status = Outcome(b),
                                !.finished = (result[b] = "ok"),
                                !.error = (result[b] = "error")])
    /\ Advance(b, "finish")
    /\ UNCHANGED <<table, result, watcherVars>>

Reload(b) ==
    /\ step[b] = "reload"
    /\ \/ /\ Load(b, [table[b] EXCEPT !.status = Outcome(b),
                                      !.finished = TRUE,
                                      !.error = (result[b] = "error")])
          /\ Advance(b, "finish")
          /\ UNCHANGED <<table, result, watcherVars>>
       \/ ReadFails(b, "done")

(* Mutant: the goroutine returns before it writes the outcome. *)
FinishUnwritten(b) ==
    /\ step[b] = "finish"
    /\ Advance(b, "readOutcome")
    /\ UNCHANGED <<table, copy, result, watcherVars>>

Finish(b) == step[b] = "finish" /\ UpdateImageBuild(b, "readOutcome")

ReadOutcome(b) ==
    step[b] = "readOutcome" /\ AppendRead(b, Outcome(b), "logOutcome", "done")

LogOutcome(b) == step[b] = "logOutcome" /\ UpdateImageBuild(b, "done")

RunImageBuild(b) ==
    \/ LoadBuild(b) \/ MarkRunning(b) \/ ReadStarted(b) \/ LogStarted(b)
    \/ BuildImage(b) \/ Reload(b) \/ Finish(b) \/ ReadOutcome(b) \/ LogOutcome(b)

-----------------------------------------------------------------------------
(* handleBuildsWebSocket. *)

Open(w) ==
    /\ wpc[w] = "idle"
    /\ \E b \in Builds :
          /\ table[b] # NoRow
          /\ watched' = [watched EXCEPT ![w] = b]
    /\ wpc' = [wpc EXCEPT ![w] = "watching"]
    /\ UNCHANGED <<sent, restarted, buildVars>>

(* One turn of the loop: read, send if changed, stop if the build ended. *)
PollOnce(w, stop) ==
    /\ wpc[w] = "watching"
    /\ sent' = [sent EXCEPT ![w] = table[watched[w]]]
    /\ wpc' = IF stop THEN [wpc EXCEPT ![w] = "ended"] ELSE wpc
    /\ UNCHANGED <<watched, restarted, buildVars>>

(* Mutant: the loop stops once the last log entry is an outcome. *)
PollLog(w) ==
    PollOnce(w, \E i \in DOMAIN table[watched[w]].logs :
                   table[watched[w]].logs[i] \in Ended)

(* Mutant: only a completed build ends the loop. *)
PollComplete(w) == PollOnce(w, table[watched[w]].status = "complete")

Poll(w) == PollOnce(w, table[watched[w]].status \in Ended)

(* The client leaves, a write or a read fails. *)
Leave(w) ==
    /\ wpc[w] = "watching"
    /\ wpc' = [wpc EXCEPT ![w] = "gone"]
    /\ UNCHANGED <<watched, sent, restarted, buildVars>>

(* The process dies and starts again: rows remain, nothing else. *)
Restart ==
    /\ restarted' = TRUE
    /\ step' = [b \in Builds |-> IF step[b] = "none" THEN "none" ELSE "done"]
    /\ copy' = [b \in Builds |-> NoRow]
    /\ wpc' = [w \in Watchers |-> IF wpc[w] = "watching" THEN "gone" ELSE wpc[w]]
    /\ UNCHANGED <<table, result, watched, sent>>

-----------------------------------------------------------------------------
Init ==
    /\ table = [b \in Builds |-> NoRow]
    /\ step = [b \in Builds |-> "none"]
    /\ copy = [b \in Builds |-> NoRow]
    /\ result = [b \in Builds |-> "none"]
    /\ wpc = [w \in Watchers |-> "idle"]
    /\ watched \in [Watchers -> Builds]
    /\ sent = [w \in Watchers |-> NoRow]
    /\ restarted = FALSE

Next ==
    \/ \E b \in Builds : CreateImageBuild(b) \/ RunImageBuild(b)
    \/ \E w \in Watchers : Open(w) \/ Poll(w) \/ Leave(w)
    \/ Restart

SafeSpec == Init /\ [][Next]_vars

(* Goroutines run until they end, and the ticker of a socket keeps ticking. *)
Spec ==
    /\ SafeSpec
    /\ \A b \in Builds : WF_vars(RunImageBuild(b))
    /\ \A w \in Watchers : WF_vars(Poll(w))

-----------------------------------------------------------------------------
(* Correctness. *)

(* Rows, copies, goroutines and watchers keep their types; in particular a *)
(* log holds at most the three entries of one build.                       *)
TypeOK ==
    /\ table \in [Builds -> Row \cup {NoRow}]
    /\ step \in [Builds -> Steps]
    /\ copy \in [Builds -> Row \cup {NoRow}]
    /\ result \in [Builds -> {"none", "ok", "error"}]
    /\ wpc \in [Watchers -> {"idle", "watching", "ended", "gone"}]
    /\ watched \in [Watchers -> Builds]
    /\ sent \in [Watchers -> Row \cup {NoRow}]
    /\ restarted \in BOOLEAN

StatusOf(b) == IF table[b] = NoRow THEN "none" ELSE table[b].status

LogOf(b) == IF table[b] = NoRow THEN <<>> ELSE table[b].logs

Lifecycle == INSTANCE BuildLifecycle WITH status <- [b \in Builds |-> StatusOf(b)],
                                          log <- [b \in Builds |-> LogOf(b)]

(* runImageBuild's whole-row writes, with any of them lost and a restart   *)
(* anywhere, still move every row the way BuildLifecycle promises.         *)
RowsFollowLifecycle == Lifecycle!Spec

(* The columns of a row agree: finished_at is set exactly when the build   *)
(* has ended, an error exactly when it failed; and it ends with what the   *)
(* agent answered, whichever writes were lost and however often the server *)
(* restarted since.                                                        *)
RowsAreWhole ==
    \A b \in Builds : table[b] # NoRow =>
      /\ table[b].finished <=> table[b].status \in Ended
      /\ table[b].error <=> table[b].status = "failed"
      /\ table[b].status = "complete" => result[b] = "ok"
      /\ table[b].status = "failed" => result[b] = "error"

(* handleBuildsWebSocket ends a socket only after it has sent the status   *)
(* the build keeps for ever.                                               *)
WatcherEndsOnFinalStatus ==
    \A w \in Watchers : wpc[w] = "ended" =>
      sent[w].status \in Ended /\ sent[w].status = table[watched[w]].status

(* Every requested build ends whose store calls succeed, unless the server *)
(* restarts: its goroutine is never stopped and the agent call returns     *)
(* within the client's timeout.                                            *)
BuildsEnd ==
    \A b \in Builds \ Faulty :
        table[b] # NoRow ~> (StatusOf(b) \in Ended \/ restarted)

(* The same of a socket that watches such a build: it ends by itself or    *)
(* because its client left.                                                *)
WatchersEnd ==
    \A w \in Watchers :
        (wpc[w] = "watching" /\ watched[w] \notin Faulty)
            ~> (wpc[w] # "watching" \/ restarted)

=============================================================================
