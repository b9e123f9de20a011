-------------------------- MODULE ImageBuildsProofs --------------------------
(***************************************************************************)
(* Proofs about ImageBuilds, for every set of builds and of watchers, with *)
(* and without faults: its rows are whole and follow BuildLifecycle.       *)
(***************************************************************************)
EXTENDS ImageBuilds, TLAPS

Pending == {"queued", "running"}

BeginLogs == {<<"queued">>, <<"queued", "started">>}

(* A row of a build that has no outcome yet. *)
Unended(row) ==
    /\ row \in [status : Pending, logs : BeginLogs, finished : {FALSE}, error : {FALSE}]

(* The row Reload prepares. *)
EndedRow(b, row) == [row EXCEPT !.status = Outcome(b), !.finished = TRUE,
                                !.error = (result[b] = "error")]

Answered(b) == result[b] \in {"ok", "error"}

(* What the goroutine of a build knows about its row at each step: the     *)
(* copy it is about to write differs from the row only as intended.        *)
Phase(b) ==
    /\ step[b] = "none" <=> table[b] = NoRow
    /\ step[b] \in {"load", "markRunning", "readStarted", "logStarted", "build",
                    "reload", "finish"} => Unended(table[b])
    /\ step[b] \in {"load", "markRunning", "readStarted", "logStarted"} =>
         table[b].logs = <<"queued">>
    /\ step[b] \in {"load", "markRunning"} => table[b].status = "queued"
    /\ step[b] = "markRunning" => copy[b] = [table[b] EXCEPT !.status = "running"]
    /\ step[b] = "logStarted" =>
         copy[b] = [table[b] EXCEPT !.logs = <<"queued", "started">>]
    /\ step[b] \in {"reload", "finish", "readOutcome", "logOutcome"} => Answered(b)
    /\ step[b] = "finish" => copy[b] = EndedRow(b, table[b])
    /\ step[b] \in {"readOutcome", "logOutcome"} =>
         /\ table[b].logs \in BeginLogs
         /\ table[b].status \in Pending \cup {Outcome(b)}
    /\ step[b] = "logOutcome" =>
         copy[b] = [table[b] EXCEPT !.logs = Append(table[b].logs, Outcome(b))]

WholeRow(b) ==
    table[b] # NoRow =>
      /\ table[b].finished <=> table[b].status \in Ended
      /\ table[b].error <=> table[b].status = "failed"
      /\ table[b].status = "complete" => result[b] = "ok"
      /\ table[b].status = "failed" => result[b] = "error"

Inv ==
    /\ TypeOK
    /\ \A b \in Builds : Phase(b) /\ WholeRow(b)

LEMMA AppendOne == ASSUME NEW a, NEW e PROVE Append(<<a>>, e) = <<a, e>>
<1>1. DOMAIN Append(<<a>>, e) = 1..2 /\ DOMAIN <<a, e>> = 1..2
  OBVIOUS
<1>2. /\ Append(<<a>>, e)[1] = a /\ Append(<<a>>, e)[2] = e
      /\ <<a, e>>[1] = a /\ <<a, e>>[2] = e
  OBVIOUS
<1>3. Append(<<a>>, e) = [i \in 1..2 |-> IF i = 1 THEN a ELSE e]
  BY <1>1, <1>2
<1>4. <<a, e>> = [i \in 1..2 |-> IF i = 1 THEN a ELSE e]
  BY <1>1
<1> QED
  BY <1>3, <1>4

LEMMA AppendTwo == ASSUME NEW a, NEW b, NEW e PROVE Append(<<a, b>>, e) = <<a, b, e>>
<1>1. DOMAIN Append(<<a, b>>, e) = 1..3 /\ DOMAIN <<a, b, e>> = 1..3
  OBVIOUS
<1>2. /\ Append(<<a, b>>, e)[1] = a /\ Append(<<a, b>>, e)[2] = b
      /\ Append(<<a, b>>, e)[3] = e
      /\ <<a, b, e>>[1] = a /\ <<a, b, e>>[2] = b /\ <<a, b, e>>[3] = e
  OBVIOUS
<1>3. Append(<<a, b>>, e) = [i \in 1..3 |-> IF i = 1 THEN a ELSE IF i = 2 THEN b ELSE e]
  BY <1>1, <1>2
<1>4. <<a, b, e>> = [i \in 1..3 |-> IF i = 1 THEN a ELSE IF i = 2 THEN b ELSE e]
  BY <1>1
<1> QED
  BY <1>3, <1>4

(* Appending an outcome to the log of an unended build gives a whole log.  *)
LEMMA AppendOutcome ==
  ASSUME NEW logs \in BeginLogs, NEW e \in Ended
  PROVE  Append(logs, e) \in Logs
<1>1. CASE logs = <<"queued">>
  <2>1. Append(logs, e) = <<"queued", e>>
    BY <1>1, AppendOne
  <2>2. <<"queued", e>> \in {<<"queued", x>> : x \in Ended}
    OBVIOUS
  <2> QED
    BY <2>1, <2>2 DEF Logs
<1>2. CASE logs = <<"queued", "started">>
  <2>1. Append(logs, e) = <<"queued", "started", e>>
    BY <1>2, AppendTwo
  <2>2. <<"queued", "started", e>> \in {<<"queued", "started", x>> : x \in Ended}
    OBVIOUS
  <2> QED
    BY <2>1, <2>2 DEF Logs
<1> QED
  BY <1>1, <1>2 DEF BeginLogs

LEMMA BeginLogsAreLogs ==
  /\ BeginLogs \subseteq Logs
  /\ <<"queued">> \in BeginLogs /\ <<"queued", "started">> \in BeginLogs
  BY DEF BeginLogs, Logs

LEMMA UnendedRow == ASSUME NEW row, Unended(row) PROVE row \in Row
<1>1. Pending \subseteq Statuses /\ BeginLogs \subseteq Logs
  BY BeginLogsAreLogs DEF Pending, Statuses
<1> QED
  BY <1>1 DEF Unended, Row

LEMMA InitInv == Init => Inv
<1> SUFFICES ASSUME Init PROVE Inv
  OBVIOUS
<1>1. TypeOK
  BY DEF Init, TypeOK, Steps
<1>2. ASSUME NEW b \in Builds PROVE Phase(b) /\ WholeRow(b)
  BY NoRowAssumption DEF Init, Phase, WholeRow
<1> QED
  BY <1>1, <1>2 DEF Inv

-----------------------------------------------------------------------------
(* Type correctness. *)

(* The row a request inserts. *)
QueuedRow == [status |-> "queued", logs |-> <<"queued">>, finished |-> FALSE,
              error |-> FALSE]

LEMMA QueuedRowType == QueuedRow \in Row /\ Unended(QueuedRow) /\ QueuedRow # NoRow
<1>1. ASSUME NEW l \in BeginLogs
      PROVE  Unended([status |-> "queued", logs |-> l, finished |-> FALSE, error |-> FALSE])
  BY DEF Unended, Pending
<1>2. Unended(QueuedRow)
  BY <1>1, BeginLogsAreLogs DEF QueuedRow
<1> QED
  BY <1>2, UnendedRow, NoRowAssumption

LEMMA CreateInv ==
  ASSUME Inv, NEW b \in Builds, CreateImageBuild(b)
  PROVE  TypeOK' /\ Phase(b)' /\ WholeRow(b)'
<1> DEFINE row == QueuedRow
<1>1. row \in Row /\ Unended(row) /\ row # NoRow
  BY QueuedRowType
<1>2. /\ table' = [table EXCEPT ![b] = row] /\ step' = [step EXCEPT ![b] = "load"]
      /\ UNCHANGED <<copy, result, wpc, watched, sent, restarted>>
  BY DEF CreateImageBuild, Advance, QueuedRow, watcherVars
<1>3. TypeOK'
  BY <1>1, <1>2 DEF Inv, TypeOK, Steps
<1>4. table'[b] = row /\ step'[b] = "load"
  BY <1>2 DEF Inv, TypeOK
<1> QED
  BY <1>1, <1>3, <1>4 DEF Phase, WholeRow, Ended, QueuedRow

(* The four ways a goroutine step leaves the variables. *)
LEMMA ReadFailsInv ==
  ASSUME Inv, NEW b \in Builds, NEW next, ReadFails(b, next),
         \/ step[b] \in {"load", "reload", "readOutcome"} /\ next = "done"
         \/ step[b] = "readStarted" /\ next = "build"
  PROVE  TypeOK' /\ Phase(b)' /\ WholeRow(b)'
<1>1. TypeOK'
  BY DEF ReadFails, Advance, Inv, TypeOK, Steps, watcherVars
<1>2. /\ step'[b] = next
      /\ UNCHANGED <<table, copy, result>>
  BY DEF ReadFails, Advance, Inv, TypeOK
<1>3. Phase(b) /\ WholeRow(b)
  BY DEF Inv
<1>4. WholeRow(b)'
  BY <1>2, <1>3 DEF WholeRow
<1>5. Phase(b)'
  BY <1>2, <1>3 DEF Phase
<1> QED
  BY <1>1, <1>4, <1>5

LEMMA LoadBuildInv ==
  ASSUME Inv, NEW b \in Builds, LoadBuild(b)
  PROVE  TypeOK' /\ Phase(b)' /\ WholeRow(b)'
<1>1. CASE ReadFails(b, "done")
  BY <1>1, ReadFailsInv DEF LoadBuild
<1>2. CASE ~ReadFails(b, "done")
  <2> DEFINE row == [table[b] EXCEPT !.status = "running"]
  <2>1. Phase(b) /\ WholeRow(b) /\ step[b] = "load" /\ Unended(table[b])
    BY DEF Inv, LoadBuild, Phase
  <2>2. Unended(row)
    BY <2>1 DEF Unended, Pending
  <2>3. /\ copy' = [copy EXCEPT ![b] = row] /\ step' = [step EXCEPT ![b] = "markRunning"]
        /\ UNCHANGED <<table, result, wpc, watched, sent, restarted>>
    BY <1>2 DEF LoadBuild, Load, Advance, watcherVars
  <2>4. TypeOK'
    BY <2>2, <2>3, UnendedRow DEF Inv, TypeOK, Steps
  <2>5. copy'[b] = row /\ step'[b] = "markRunning"
    BY <2>3 DEF Inv, TypeOK
  <2>6. WholeRow(b)'
    BY <2>1, <2>3 DEF WholeRow
  <2>7. Phase(b)'
    BY <2>1, <2>3, <2>5 DEF Phase
  <2> QED
    BY <2>4, <2>6, <2>7
<1> QED
  BY <1>1, <1>2

LEMMA ReadStartedInv ==
  ASSUME Inv, NEW b \in Builds, ReadStarted(b)
  PROVE  TypeOK' /\ Phase(b)' /\ WholeRow(b)'
<1>1. CASE ReadFails(b, "build")
  BY <1>1, ReadFailsInv DEF ReadStarted
<1>2. CASE ~ReadFails(b, "build")
  <2> DEFINE row == [table[b] EXCEPT !.logs = <<"queued", "started">>]
  <2>1. /\ Phase(b) /\ WholeRow(b) /\ step[b] = "readStarted" /\ Unended(table[b])
        /\ table[b].logs = <<"queued">>
    BY DEF Inv, ReadStarted, Phase
  <2>2. Unended(row)
    <3>1. ASSUME NEW l \in BeginLogs PROVE Unended([table[b] EXCEPT !.logs = l])
      BY <2>1 DEF Unended
    <3> QED
      BY <3>1, BeginLogsAreLogs
  <2>3. [table[b] EXCEPT !.logs = Append(@, "started")] = row
    BY <2>1, AppendOne
  <2>4. /\ copy' = [copy EXCEPT ![b] = row] /\ step' = [step EXCEPT ![b] = "logStarted"]
        /\ UNCHANGED <<table, result, wpc, watched, sent, restarted>>
    BY <1>2, <2>3 DEF ReadStarted, AppendRead, Load, Advance, watcherVars
  <2>5. TypeOK'
    BY <2>2, <2>4, UnendedRow DEF Inv, TypeOK, Steps
  <2>6. copy'[b] = row /\ step'[b] = "logStarted"
    BY <2>4 DEF Inv, TypeOK
  <2>7. WholeRow(b)'
    BY <2>1, <2>4 DEF WholeRow
  <2>8. Phase(b)'
    BY <2>1, <2>4, <2>6 DEF Phase
  <2> QED
    BY <2>5, <2>7, <2>8
<1> QED
  BY <1>1, <1>2

LEMMA BuildImageInv ==
  ASSUME Inv, NEW b \in Builds, BuildImage(b)
  PROVE  TypeOK' /\ Phase(b)' /\ WholeRow(b)'
<1>1. Phase(b) /\ WholeRow(b) /\ step[b] = "build"
  BY DEF Inv, BuildImage
<1>2. PICK r \in {"ok", "error"} : result' = [result EXCEPT ![b] = r]
  BY DEF BuildImage
<1>3. /\ step' = [step EXCEPT ![b] = "reload"]
      /\ UNCHANGED <<table, copy, wpc, watched, sent, restarted>>
  BY DEF BuildImage, Advance, watcherVars
<1>4. TypeOK'
  BY <1>2, <1>3 DEF Inv, TypeOK, Steps
<1>5. step'[b] = "reload" /\ result'[b] = r
  BY <1>2, <1>3 DEF Inv, TypeOK
<1>6. Answered(b)'
  BY <1>2, <1>5 DEF Answered
<1>7. WholeRow(b)'
  BY <1>1, <1>3, <1>5 DEF WholeRow, Phase, Unended, Pending
<1>8. Phase(b)'
  BY <1>1, <1>3, <1>5, <1>6 DEF Phase
<1> QED
  BY <1>4, <1>7, <1>8

LEMMA OutcomeType ==
  ASSUME NEW b \in Builds, Answered(b)
  PROVE  /\ Outcome(b) \in Ended
         /\ Outcome(b) = "complete" => result[b] = "ok"
         /\ Outcome(b) = "failed" <=> result[b] = "error"
  BY DEF Outcome, Answered, Ended

LEMMA EndedRowType ==
  ASSUME NEW b \in Builds, Answered(b), NEW row \in Row
  PROVE  /\ EndedRow(b, row) \in Row
         /\ EndedRow(b, row).status = Outcome(b)
         /\ EndedRow(b, row).logs = row.logs
         /\ EndedRow(b, row).finished = TRUE
         /\ EndedRow(b, row).error = (result[b] = "error")
<1>1. Outcome(b) \in Statuses /\ (result[b] = "error") \in BOOLEAN
  BY OutcomeType DEF Ended, Statuses
<1>2. ASSUME NEW o \in Statuses, NEW e \in BOOLEAN
      PROVE  LET new == [row EXCEPT !.status = o, !.finished = TRUE, !.error = e] IN
             /\ new \in Row /\ new.status = o /\ new.logs = row.logs
             /\ new.finished = TRUE /\ new.error = e
  BY DEF Row
<1> QED
  BY <1>1, <1>2 DEF EndedRow

LEMMA ReloadInv ==
  ASSUME Inv, NEW b \in Builds, Reload(b)
  PROVE  TypeOK' /\ Phase(b)' /\ WholeRow(b)'
<1>1. CASE ReadFails(b, "done")
  BY <1>1, ReadFailsInv DEF Reload
<1>2. CASE ~ReadFails(b, "done")
  <2> DEFINE row == EndedRow(b, table[b])
  <2>1. /\ Phase(b) /\ WholeRow(b) /\ step[b] = "reload" /\ Unended(table[b])
        /\ Answered(b)
    BY DEF Inv, Reload, Phase
  <2>3. row \in Row
    BY <2>1, UnendedRow, EndedRowType
  <2>4. /\ copy' = [copy EXCEPT ![b] = row] /\ step' = [step EXCEPT ![b] = "finish"]
        /\ UNCHANGED <<table, result, wpc, watched, sent, restarted>>
    BY <1>2 DEF Reload, EndedRow, Load, Advance, watcherVars
  <2>5. TypeOK'
    BY <2>3, <2>4 DEF Inv, TypeOK, Steps
  <2>6. copy'[b] = row /\ step'[b] = "finish" /\ row' = row
    BY <2>4 DEF Inv, TypeOK, EndedRow, Outcome
  <2>7. WholeRow(b)'
    BY <2>1, <2>4 DEF WholeRow
  <2>8. Answered(b)'
    BY <2>1, <2>4 DEF Answered
  <2>9. Phase(b)'
    BY <2>1, <2>4, <2>6, <2>8 DEF Phase
  <2> QED
    BY <2>5, <2>7, <2>9
<1> QED
  BY <1>1, <1>2

LEMMA ReadOutcomeInv ==
  ASSUME Inv, NEW b \in Builds, ReadOutcome(b)
  PROVE  TypeOK' /\ Phase(b)' /\ WholeRow(b)'
<1>1. CASE ReadFails(b, "done")
  BY <1>1, ReadFailsInv DEF ReadOutcome
<1>2. CASE ~ReadFails(b, "done")
  <2> DEFINE logs == Append(table[b].logs, Outcome(b))
             row == [table[b] EXCEPT !.logs = logs]
  <2>1. /\ Phase(b) /\ WholeRow(b) /\ step[b] = "readOutcome" /\ Answered(b)
        /\ table[b].logs \in BeginLogs /\ table[b] # NoRow
    BY DEF Inv, ReadOutcome, Phase
  <2>2. logs \in Logs
    BY <2>1, AppendOutcome, OutcomeType
  <2>3. row \in Row
    <3>1. table[b] \in Row
      BY <2>1 DEF Inv, TypeOK
    <3>2. ASSUME NEW l \in Logs PROVE [table[b] EXCEPT !.logs = l] \in Row
      BY <3>1 DEF Row
    <3> QED
      BY <2>2, <3>2
  <2>4. /\ copy' = [copy EXCEPT ![b] = row] /\ step' = [step EXCEPT ![b] = "logOutcome"]
        /\ UNCHANGED <<table, result, wpc, watched, sent, restarted>>
    BY <1>2 DEF ReadOutcome, AppendRead, Load, Advance, watcherVars
  <2>5. TypeOK'
    BY <2>3, <2>4 DEF Inv, TypeOK, Steps
  <2>6. copy'[b] = row /\ step'[b] = "logOutcome" /\ Outcome(b)' = Outcome(b)
    BY <2>4 DEF Inv, TypeOK, Outcome
  <2>7. WholeRow(b)'
    BY <2>1, <2>4 DEF WholeRow
  <2>8. Answered(b)'
    BY <2>1, <2>4 DEF Answered
  <2>9. Phase(b)'
    BY <2>1, <2>4, <2>6, <2>8 DEF Phase
  <2> QED
    BY <2>5, <2>7, <2>9
<1> QED
  BY <1>1, <1>2

(* A write that is lost: the row stays, the goroutine goes on.             *)
LEMMA LostWriteInv ==
  ASSUME Inv, NEW b \in Builds, NEW next, UpdateImageBuild(b, next), UNCHANGED table,
         \/ step[b] = "markRunning" /\ next = "readStarted"
         \/ step[b] = "logStarted" /\ next = "build"
         \/ step[b] = "finish" /\ next = "readOutcome"
         \/ step[b] = "logOutcome" /\ next = "done"
  PROVE  TypeOK' /\ Phase(b)' /\ WholeRow(b)'
<1>1. /\ step' = [step EXCEPT ![b] = next]
      /\ UNCHANGED <<table, copy, result, wpc, watched, sent, restarted>>
  BY DEF UpdateImageBuild, Advance, watcherVars
<1>2. TypeOK'
  BY <1>1 DEF Inv, TypeOK, Steps
<1>3. step'[b] = next /\ Phase(b) /\ WholeRow(b)
  BY <1>1 DEF Inv, TypeOK
<1>4. WholeRow(b)' /\ (Answered(b) => Answered(b)') /\ Outcome(b)' = Outcome(b)
  BY <1>1, <1>3 DEF WholeRow, Answered, Outcome
<1>5. Phase(b)'
  BY <1>1, <1>3, <1>4 DEF Phase, Unended
<1> QED
  BY <1>2, <1>4, <1>5

(* A write that succeeds: the row becomes the copy.                        *)
LEMMA WriteTypes ==
  ASSUME Inv, NEW b \in Builds, NEW next \in Steps, UpdateImageBuild(b, next),
         ~UNCHANGED table, copy[b] \in Row
  PROVE  /\ TypeOK' /\ table'[b] = copy[b] /\ step'[b] = next /\ table'[b] # NoRow
         /\ table' = [table EXCEPT ![b] = copy[b]]
         /\ UNCHANGED <<copy, result>>
         /\ (Answered(b) => Answered(b)') /\ Outcome(b)' = Outcome(b)
<1>1. /\ step' = [step EXCEPT ![b] = next]
      /\ table' = [table EXCEPT ![b] = copy[b]]
      /\ UNCHANGED <<copy, result, wpc, watched, sent, restarted>>
  BY DEF UpdateImageBuild, Advance, watcherVars
<1>2. TypeOK'
  BY <1>1 DEF Inv, TypeOK
<1>3. table'[b] = copy[b] /\ step'[b] = next /\ table'[b] # NoRow
  BY <1>1, NoRowAssumption DEF Inv, TypeOK
<1>4. (Answered(b) => Answered(b)') /\ Outcome(b)' = Outcome(b)
  BY <1>1 DEF Answered, Outcome
<1> QED
  BY <1>1, <1>2, <1>3, <1>4

LEMMA MarkRunningInv ==
  ASSUME Inv, NEW b \in Builds, MarkRunning(b)
  PROVE  TypeOK' /\ Phase(b)' /\ WholeRow(b)'
<1>1. UpdateImageBuild(b, "readStarted") /\ step[b] = "markRunning" /\ "readStarted" \in Steps
  BY DEF MarkRunning, Steps
<1>2. CASE UNCHANGED table
  BY <1>1, <1>2, LostWriteInv
<1>3. CASE ~UNCHANGED table
  <2>1. /\ Unended(table[b]) /\ table[b].logs = <<"queued">>
        /\ copy[b] = [table[b] EXCEPT !.status = "running"]
    BY <1>1 DEF Inv, Phase
  <2>2. Unended(copy[b]) /\ copy[b].logs = <<"queued">>
    BY <2>1 DEF Unended, Pending
  <2>3. /\ TypeOK' /\ table'[b] = copy[b] /\ step'[b] = "readStarted" /\ table'[b] # NoRow
    BY <1>1, <1>3, <2>2, UnendedRow, WriteTypes
  <2>4. Phase(b)'
    BY <2>2, <2>3 DEF Phase
  <2>5. WholeRow(b)'
    BY <2>2, <2>3 DEF WholeRow, Unended, Pending, Ended
  <2> QED
    BY <2>3, <2>4, <2>5
<1> QED
  BY <1>2, <1>3

LEMMA LogStartedInv ==
  ASSUME Inv, NEW b \in Builds, LogStarted(b)
  PROVE  TypeOK' /\ Phase(b)' /\ WholeRow(b)'
<1>1. UpdateImageBuild(b, "build") /\ step[b] = "logStarted" /\ "build" \in Steps
  BY DEF LogStarted, Steps
<1>2. CASE UNCHANGED table
  BY <1>1, <1>2, LostWriteInv
<1>3. CASE ~UNCHANGED table
  <2>1. /\ Unended(table[b])
        /\ copy[b] = [table[b] EXCEPT !.logs = <<"queued", "started">>]
    BY <1>1 DEF Inv, Phase
  <2>2. Unended(copy[b])
    <3>1. ASSUME NEW l \in BeginLogs PROVE Unended([table[b] EXCEPT !.logs = l])
      BY <2>1 DEF Unended
    <3> QED
      BY <2>1, <3>1, BeginLogsAreLogs
  <2>3. /\ TypeOK' /\ table'[b] = copy[b] /\ step'[b] = "build" /\ table'[b] # NoRow
    BY <1>1, <1>3, <2>2, UnendedRow, WriteTypes
  <2>4. Phase(b)'
    BY <2>2, <2>3 DEF Phase
  <2>5. WholeRow(b)'
    BY <2>2, <2>3 DEF WholeRow, Unended, Pending, Ended
  <2> QED
    BY <2>3, <2>4, <2>5
<1> QED
  BY <1>2, <1>3

LEMMA FinishInv ==
  ASSUME Inv, NEW b \in Builds, Finish(b)
  PROVE  TypeOK' /\ Phase(b)' /\ WholeRow(b)'
<1>1. UpdateImageBuild(b, "readOutcome") /\ step[b] = "finish" /\ "readOutcome" \in Steps
  BY DEF Finish, Steps
<1>2. CASE UNCHANGED table
  BY <1>1, <1>2, LostWriteInv
<1>3. CASE ~UNCHANGED table
  <2>1. /\ Unended(table[b]) /\ Answered(b) /\ copy[b] = EndedRow(b, table[b])
        /\ table[b].logs \in BeginLogs
    BY <1>1 DEF Inv, Phase, Unended
  <2>2. /\ Outcome(b) \in Ended
        /\ Outcome(b) = "complete" => result[b] = "ok"
        /\ Outcome(b) = "failed" <=> result[b] = "error"
    BY <2>1, OutcomeType
  <2>3. /\ copy[b] \in Row
         /\ copy[b].status = Outcome(b) /\ copy[b].logs = table[b].logs
         /\ copy[b].finished = TRUE /\ copy[b].error = (result[b] = "error")
    <3>1. table[b] \in Row
      BY <2>1, UnendedRow
    <3>2. /\ EndedRow(b, table[b]) \in Row
          /\ EndedRow(b, table[b]).status = Outcome(b)
          /\ EndedRow(b, table[b]).logs = table[b].logs
          /\ EndedRow(b, table[b]).finished = TRUE
          /\ EndedRow(b, table[b]).error = (result[b] = "error")
      BY <2>1, <3>1, EndedRowType
    <3> QED
      BY <2>1, <3>2
  <2>4. /\ TypeOK' /\ table'[b] = copy[b] /\ step'[b] = "readOutcome" /\ table'[b] # NoRow
        /\ UNCHANGED result /\ Answered(b)' /\ Outcome(b)' = Outcome(b)
    BY <1>1, <1>3, <2>1, <2>3, WriteTypes
  <2>5. Phase(b)'
    BY <2>1, <2>4, <2>3 DEF Phase
  <2>6. WholeRow(b)'
    BY <2>2, <2>4, <2>3 DEF WholeRow
  <2> QED
    BY <2>4, <2>5, <2>6
<1> QED
  BY <1>2, <1>3

LEMMA LogOutcomeInv ==
  ASSUME Inv, NEW b \in Builds, LogOutcome(b)
  PROVE  TypeOK' /\ Phase(b)' /\ WholeRow(b)'
<1>1. UpdateImageBuild(b, "done") /\ step[b] = "logOutcome" /\ "done" \in Steps
  BY DEF LogOutcome, Steps
<1>2. CASE UNCHANGED table
  BY <1>1, <1>2, LostWriteInv
<1>3. CASE ~UNCHANGED table
  <2> DEFINE logs == Append(table[b].logs, Outcome(b))
  <2>1. /\ Answered(b) /\ table[b].logs \in BeginLogs /\ table[b] \in Row /\ WholeRow(b)
        /\ copy[b] = [table[b] EXCEPT !.logs = logs] /\ table[b] # NoRow
    BY <1>1 DEF Inv, Phase, TypeOK
  <2>2. logs \in Logs
    BY <2>1, AppendOutcome, OutcomeType
  <2>3. ASSUME NEW l \in Logs
        PROVE  LET row == [table[b] EXCEPT !.logs = l] IN
               /\ row \in Row /\ row.status = table[b].status
               /\ row.finished = table[b].finished /\ row.error = table[b].error
    BY <2>1 DEF Row
  <2>4. /\ copy[b] \in Row /\ copy[b].status = table[b].status
        /\ copy[b].finished = table[b].finished /\ copy[b].error = table[b].error
    BY <2>1, <2>2, <2>3
  <2>5. /\ TypeOK' /\ table'[b] = copy[b] /\ step'[b] = "done" /\ table'[b] # NoRow
        /\ UNCHANGED result
    BY <1>1, <1>3, <2>4, WriteTypes
  <2>6. Phase(b)'
    BY <2>5 DEF Phase
  <2>7. WholeRow(b)'
    BY <2>1, <2>4, <2>5 DEF WholeRow
  <2> QED
    BY <2>5, <2>6, <2>7
<1> QED
  BY <1>2, <1>3

-----------------------------------------------------------------------------
(* The steps of a build leave the other builds alone.                      *)
LEMMA OtherBuild ==
  ASSUME Inv, NEW c \in Builds, step'[c] = step[c], table'[c] = table[c],
         copy'[c] = copy[c], result'[c] = result[c]
  PROVE  Phase(c)' /\ WholeRow(c)'
<1>1. Phase(c) /\ WholeRow(c)
  BY DEF Inv
<1>2. /\ WholeRow(c)' /\ (Answered(c) => Answered(c)') /\ Outcome(c)' = Outcome(c)
  BY <1>1 DEF WholeRow, Answered, Outcome
<1>3. EndedRow(c, table[c])' = EndedRow(c, table[c])
  BY <1>2 DEF EndedRow
<1> QED
  BY <1>1, <1>2, <1>3 DEF Phase, Unended

LEMMA BuildInv ==
  ASSUME Inv, NEW b \in Builds, CreateImageBuild(b) \/ RunImageBuild(b)
  PROVE  Inv'
<1>1. TypeOK' /\ Phase(b)' /\ WholeRow(b)'
  BY CreateInv, LoadBuildInv, MarkRunningInv, ReadStartedInv, LogStartedInv,
     BuildImageInv, ReloadInv, FinishInv, ReadOutcomeInv, LogOutcomeInv DEF RunImageBuild
<1>2. ASSUME NEW c \in Builds, c # b PROVE Phase(c)' /\ WholeRow(c)'
  <2>1. /\ step'[c] = step[c] /\ table'[c] = table[c] /\ copy'[c] = copy[c]
        /\ result'[c] = result[c]
    BY <1>2 DEF Inv, TypeOK, RunImageBuild, CreateImageBuild, LoadBuild, MarkRunning,
       ReadStarted, LogStarted, BuildImage, Reload, Finish, ReadOutcome, LogOutcome,
       AppendRead, ReadFails, UpdateImageBuild, Load, Advance
  <2> QED
    BY <2>1, OtherBuild
<1> QED
  BY <1>1, <1>2 DEF Inv

LEMMA WatcherInv ==
  ASSUME Inv, NEW w \in Watchers, Open(w) \/ Poll(w) \/ Leave(w)
  PROVE  Inv' /\ UNCHANGED table
<1>1. UNCHANGED buildVars
  BY DEF Open, Poll, PollOnce, Leave
<1>2. TypeOK'
  BY <1>1 DEF Open, Poll, PollOnce, Leave, Inv, TypeOK, buildVars
<1>3. \A c \in Builds : Phase(c)' /\ WholeRow(c)'
  BY <1>1, OtherBuild DEF buildVars
<1> QED
  BY <1>1, <1>2, <1>3 DEF Inv, buildVars

LEMMA RestartInv == ASSUME Inv, Restart PROVE Inv'
<1>1. TypeOK'
  BY DEF Restart, Inv, TypeOK, Steps
<1>2. ASSUME NEW c \in Builds PROVE Phase(c)' /\ WholeRow(c)'
  <2>1. Phase(c) /\ WholeRow(c) /\ table'[c] = table[c] /\ result' = result
    BY DEF Inv, Restart
  <2>2. step'[c] = IF step[c] = "none" THEN "none" ELSE "done"
    BY DEF Restart
  <2>3. WholeRow(c)'
    BY <2>1 DEF WholeRow
  <2>4. Phase(c)'
    BY <2>1, <2>2 DEF Phase
  <2> QED
    BY <2>3, <2>4
<1> QED
  BY <1>1, <1>2 DEF Inv

LEMMA StepInv == Inv /\ [Next]_vars => Inv'
<1> SUFFICES ASSUME Inv, [Next]_vars PROVE Inv'
  OBVIOUS
<1>1. CASE UNCHANGED vars
  <2>1. TypeOK' /\ \A c \in Builds : Phase(c)' /\ WholeRow(c)'
    BY <1>1, OtherBuild DEF Inv, TypeOK, vars, buildVars, watcherVars
  <2> QED
    BY <2>1 DEF Inv
<1> QED
  BY <1>1, BuildInv, WatcherInv, RestartInv DEF Next

LEMMA InvImpliesWhole == Inv => RowsAreWhole
  BY DEF Inv, WholeRow, RowsAreWhole

(* Rows, copies and sockets keep their types: whatever is lost, a log never  *)
(* grows past the entries of one build (TypeOK).                           *)
THEOREM BuildsTypeCorrect == SafeSpec => []TypeOK
<1>1. Inv => TypeOK
  BY DEF Inv
<1> QED
  BY <1>1, InitInv, StepInv, PTL DEF SafeSpec

(* finished_at, error and status of every row agree, and every row ends    *)
(* with what the agent answered, whichever writes of runImageBuild are     *)
(* lost and wherever the server restarts (RowsAreWhole).                   *)
THEOREM RowsAlwaysWhole == SafeSpec => []RowsAreWhole
  BY InitInv, StepInv, InvImpliesWhole, PTL DEF SafeSpec

-----------------------------------------------------------------------------
(* Refinement: the table, seen as statuses and logs, moves as              *)
(* BuildLifecycle does.                                                    *)
StatusMap == [b \in Builds |-> StatusOf(b)]

LogMap == [b \in Builds |-> LogOf(b)]

LEMMA TableWrite ==
  ASSUME Inv, NEW b \in Builds, NEW row \in Row, table' = [table EXCEPT ![b] = row]
  PROVE  /\ StatusMap' = [StatusMap EXCEPT ![b] = row.status]
         /\ LogMap' = [LogMap EXCEPT ![b] = row.logs]
  BY NoRowAssumption DEF Inv, TypeOK, StatusMap, LogMap, StatusOf, LogOf

(* The log of an unended build names no outcome yet, and what comes next   *)
(* follows it.                                                             *)
LEMMA BeginLogEntries ==
  ASSUME NEW logs \in BeginLogs
  PROVE  /\ \A i \in DOMAIN logs : logs[i] \in {"queued", "started"}
         /\ logs = <<"queued">> => \A i \in DOMAIN logs : logs[i] = "queued"
<1>1. CASE logs = <<"queued">>
  BY <1>1
<1>2. CASE logs = <<"queued", "started">>
  <2>1. DOMAIN logs = 1..2 /\ logs[1] = "queued" /\ logs[2] = "started"
    BY <1>2
  <2>2. logs # <<"queued">>
    <3>1. DOMAIN <<"queued">> = 1..1
      OBVIOUS
    <3> QED
      BY <2>1, <3>1
  <2> QED
    BY <2>1, <2>2
<1> QED
  BY <1>1, <1>2 DEF BeginLogs

LEMMA CreateRefines ==
  ASSUME Inv, NEW b \in Builds, CreateImageBuild(b)
  PROVE  Lifecycle!Accept(b)
<1>1. table' = [table EXCEPT ![b] = QueuedRow] /\ table[b] = NoRow
  BY DEF CreateImageBuild, Inv, Phase, QueuedRow
<1>2. /\ StatusMap' = [StatusMap EXCEPT ![b] = "queued"]
      /\ LogMap' = [LogMap EXCEPT ![b] = <<"queued">>]
  BY <1>1, QueuedRowType, TableWrite DEF QueuedRow
<1>3. StatusMap[b] = "none"
  BY <1>1 DEF StatusMap, StatusOf
<1> QED
  BY <1>2, <1>3 DEF Lifecycle!Accept, StatusMap, LogMap

(* A write of the goroutine that succeeds; the row it replaces exists.     *)
LEMMA WriteRefines ==
  ASSUME Inv, NEW b \in Builds, NEW next \in Steps, UpdateImageBuild(b, next),
         ~UNCHANGED table, table[b] # NoRow, copy[b] \in Row
  PROVE  /\ StatusMap' = [StatusMap EXCEPT ![b] = copy[b].status]
         /\ LogMap' = [LogMap EXCEPT ![b] = copy[b].logs]
         /\ StatusMap[b] = table[b].status /\ LogMap[b] = table[b].logs
         /\ StatusMap \in [Builds -> Statuses \cup {"none"}]
         /\ DOMAIN LogMap = Builds
<1>1. table' = [table EXCEPT ![b] = copy[b]]
  BY DEF UpdateImageBuild
<1>2. StatusMap \in [Builds -> Statuses \cup {"none"}]
  BY DEF StatusMap, StatusOf, Inv, TypeOK, Row
<1> QED
  BY <1>1, <1>2, TableWrite DEF StatusMap, LogMap, StatusOf, LogOf

LEMMA MarkRunningRefines ==
  ASSUME Inv, NEW b \in Builds, MarkRunning(b), ~UNCHANGED table
  PROVE  Lifecycle!Run(b)
<1>1. UpdateImageBuild(b, "readStarted") /\ step[b] = "markRunning" /\ "readStarted" \in Steps
  BY DEF MarkRunning, Steps
<1>2. /\ Unended(table[b]) /\ table[b].logs = <<"queued">> /\ table[b].status = "queued"
      /\ copy[b] = [table[b] EXCEPT !.status = "running"] /\ table[b] # NoRow
  BY <1>1 DEF Inv, Phase
<1>3. copy[b] \in Row /\ copy[b].status = "running" /\ copy[b].logs = table[b].logs
  <2>1. Unended(copy[b]) /\ copy[b].status = "running" /\ copy[b].logs = table[b].logs
    BY <1>2 DEF Unended, Pending
  <2> QED
    BY <2>1, UnendedRow
<1>4. /\ StatusMap' = [StatusMap EXCEPT ![b] = "running"]
      /\ LogMap' = [LogMap EXCEPT ![b] = table[b].logs]
      /\ StatusMap[b] = "queued" /\ LogMap[b] = table[b].logs
      /\ DOMAIN LogMap = Builds
  BY <1>1, <1>2, <1>3, WriteRefines
<1>5. LogMap' = LogMap
  BY <1>4 DEF LogMap
<1>6. \A i \in DOMAIN LogMap[b] : LogMap[b][i] \notin {"complete", "failed"}
  BY <1>2, <1>4, BeginLogEntries, BeginLogsAreLogs
<1> QED
  BY <1>4, <1>5, <1>6 DEF Lifecycle!Run, Lifecycle!OutcomeLogged, Lifecycle!Ended,
     StatusMap, LogMap

LEMMA FinishRefines ==
  ASSUME Inv, NEW b \in Builds, Finish(b), ~UNCHANGED table
  PROVE  Lifecycle!Finish(b)
<1>1. UpdateImageBuild(b, "readOutcome") /\ step[b] = "finish" /\ "readOutcome" \in Steps
  BY DEF Finish, Steps
<1>2. /\ Unended(table[b]) /\ Answered(b) /\ copy[b] = EndedRow(b, table[b])
      /\ table[b].logs \in BeginLogs /\ table[b].status \in Pending /\ table[b] # NoRow
  BY <1>1 DEF Inv, Phase, Unended
<1>3. /\ copy[b] \in Row /\ copy[b].status = Outcome(b) /\ copy[b].logs = table[b].logs
      /\ Outcome(b) \in Ended
  <2>1. table[b] \in Row
    BY <1>2, UnendedRow
  <2>2. /\ EndedRow(b, table[b]) \in Row
        /\ EndedRow(b, table[b]).status = Outcome(b)
        /\ EndedRow(b, table[b]).logs = table[b].logs
    BY <1>2, <2>1, EndedRowType
  <2> QED
    BY <1>2, <2>2, OutcomeType
<1>4. /\ StatusMap' = [StatusMap EXCEPT ![b] = Outcome(b)]
      /\ LogMap' = [LogMap EXCEPT ![b] = table[b].logs]
      /\ StatusMap[b] \in Pending /\ LogMap[b] = table[b].logs
  BY <1>1, <1>2, <1>3, WriteRefines
<1>5. LogMap' = LogMap
  BY <1>4 DEF LogMap
<1>6. \A i \in DOMAIN LogMap[b] : LogMap[b][i] \notin {"complete", "failed"}
  BY <1>2, <1>4, BeginLogEntries
<1> QED
  BY <1>3, <1>4, <1>5, <1>6 DEF Lifecycle!Finish, Lifecycle!OutcomeLogged,
     Lifecycle!Ended, Ended, Pending, StatusMap, LogMap

LEMMA LogStartedRefines ==
  ASSUME Inv, NEW b \in Builds, LogStarted(b), ~UNCHANGED table
  PROVE  Lifecycle!Record(b)
<1>1. UpdateImageBuild(b, "build") /\ step[b] = "logStarted" /\ "build" \in Steps
  BY DEF LogStarted, Steps
<1>2. /\ Unended(table[b]) /\ table[b].logs = <<"queued">> /\ table[b].status \in Pending
      /\ copy[b] = [table[b] EXCEPT !.logs = <<"queued", "started">>] /\ table[b] # NoRow
  BY <1>1 DEF Inv, Phase, Unended
<1>3. /\ copy[b] \in Row /\ copy[b].status = table[b].status
      /\ copy[b].logs = Append(table[b].logs, "started")
  <2>1. ASSUME NEW l \in BeginLogs
        PROVE  LET row == [table[b] EXCEPT !.logs = l] IN
               Unended(row) /\ row.status = table[b].status /\ row.logs = l
    BY <1>2 DEF Unended
  <2>2. /\ Unended(copy[b]) /\ copy[b].status = table[b].status
        /\ copy[b].logs = <<"queued", "started">>
    BY <1>2, <2>1, BeginLogsAreLogs
  <2> QED
    BY <1>2, <2>2, UnendedRow, AppendOne
<1>4. /\ StatusMap' = [StatusMap EXCEPT ![b] = table[b].status]
      /\ LogMap' = [LogMap EXCEPT ![b] = Append(table[b].logs, "started")]
      /\ StatusMap[b] = table[b].status /\ LogMap[b] = table[b].logs
  BY <1>1, <1>2, <1>3, WriteRefines
<1>5. StatusMap' = StatusMap
  BY <1>4 DEF StatusMap
<1>6. \A i \in DOMAIN LogMap[b] : LogMap[b][i] = "queued"
  BY <1>2, <1>4, BeginLogEntries, BeginLogsAreLogs
<1>7. Lifecycle!Follows(b, "started")
  BY <1>6 DEF Lifecycle!Follows, Lifecycle!Position, LogMap
<1>8. StatusMap[b] \in Pending
  BY <1>2, <1>4
<1> QED
  BY <1>4, <1>5, <1>7, <1>8 DEF Lifecycle!Record, Lifecycle!Entries, Lifecycle!Ended,
     Pending, StatusMap, LogMap

LEMMA LogOutcomeRefines ==
  ASSUME Inv, NEW b \in Builds, LogOutcome(b), ~UNCHANGED table
  PROVE  Lifecycle!Record(b)
<1>1. UpdateImageBuild(b, "done") /\ step[b] = "logOutcome" /\ "done" \in Steps
  BY DEF LogOutcome, Steps
<1>2. /\ Answered(b) /\ table[b].logs \in BeginLogs /\ table[b] \in Row
      /\ table[b].status \in Pending \cup {Outcome(b)} /\ table[b] # NoRow
      /\ copy[b] = [table[b] EXCEPT !.logs = Append(table[b].logs, Outcome(b))]
  BY <1>1 DEF Inv, Phase, TypeOK
<1>3. /\ copy[b] \in Row /\ copy[b].status = table[b].status
      /\ copy[b].logs = Append(table[b].logs, Outcome(b)) /\ Outcome(b) \in Ended
  <2>1. ASSUME NEW l \in Logs
        PROVE  LET row == [table[b] EXCEPT !.logs = l] IN
               row \in Row /\ row.status = table[b].status /\ row.logs = l
    BY <1>2 DEF Row
  <2>2. Outcome(b) \in Ended
    BY <1>2, OutcomeType
  <2>3. Append(table[b].logs, Outcome(b)) \in Logs
    BY <1>2, <2>2, AppendOutcome
  <2> QED
    BY <1>2, <2>1, <2>2, <2>3
<1>4. /\ StatusMap' = [StatusMap EXCEPT ![b] = table[b].status]
      /\ LogMap' = [LogMap EXCEPT ![b] = Append(table[b].logs, Outcome(b))]
      /\ StatusMap[b] = table[b].status /\ LogMap[b] = table[b].logs
  BY <1>1, <1>2, <1>3, WriteRefines
<1>5. StatusMap' = StatusMap
  BY <1>4 DEF StatusMap
<1>6. \A i \in DOMAIN LogMap[b] : LogMap[b][i] \in {"queued", "started"}
  BY <1>2, <1>4, BeginLogEntries
<1>7. Lifecycle!Follows(b, Outcome(b))
  BY <1>3, <1>6 DEF Lifecycle!Follows, Lifecycle!Position, Ended, LogMap
<1>8. StatusMap[b] \in Pending \cup {Outcome(b)}
  BY <1>2, <1>4
<1> QED
  BY <1>3, <1>4, <1>5, <1>7, <1>8 DEF Lifecycle!Record, Lifecycle!Entries,
     Lifecycle!Ended, Ended, Pending, StatusMap, LogMap

LEMMA InitRefines == Init => Lifecycle!Init
  BY DEF Init, Lifecycle!Init, StatusOf, LogOf

LEMMA StutterRefines == ASSUME UNCHANGED table PROVE UNCHANGED Lifecycle!vars
  BY DEF Lifecycle!vars, StatusOf, LogOf

LEMMA StepRefines == Inv /\ [Next]_vars => [Lifecycle!Next]_Lifecycle!vars
<1> SUFFICES ASSUME Inv, [Next]_vars, ~UNCHANGED table PROVE Lifecycle!Next
  BY StutterRefines
<1>1. PICK b \in Builds : CreateImageBuild(b) \/ RunImageBuild(b)
  BY WatcherInv DEF Next, Restart, vars, buildVars
<1>2. \/ CreateImageBuild(b) \/ MarkRunning(b) \/ LogStarted(b) \/ Finish(b)
      \/ LogOutcome(b)
  BY <1>1 DEF RunImageBuild, LoadBuild, ReadStarted, BuildImage, Reload, ReadOutcome,
     AppendRead, ReadFails
<1>3. Lifecycle!Accept(b) \/ Lifecycle!Run(b) \/ Lifecycle!Finish(b) \/ Lifecycle!Record(b)
  BY <1>2, CreateRefines, MarkRunningRefines, LogStartedRefines, FinishRefines,
     LogOutcomeRefines
<1> QED
  BY <1>3 DEF Lifecycle!Next

(* Whichever writes are lost and wherever the server restarts, the rows    *)
(* implement BuildLifecycle: statuses move forward once, logs only grow    *)
(* and agree with the status (RowsFollowLifecycle).                        *)
THEOREM RowsImplementLifecycle == SafeSpec => RowsFollowLifecycle
  BY InitInv, StepInv, InitRefines, StepRefines, PTL
     DEF SafeSpec, RowsFollowLifecycle, Lifecycle!Spec

-----------------------------------------------------------------------------
(* A status that has ended never changes again, so what a socket was sent  *)
(* last stays true.                                                        *)
LEMMA EndedStays ==
  ASSUME Inv, [Next]_vars, NEW b \in Builds, StatusOf(b) \in Ended
  PROVE  StatusOf(b)' = StatusOf(b)
<1>1. CASE UNCHANGED Lifecycle!vars
  <2>1. StatusMap' = StatusMap
    BY <1>1 DEF Lifecycle!vars, StatusMap
  <2>2. StatusMap[b] = StatusOf(b) /\ StatusMap'[b] = StatusOf(b)'
    BY DEF StatusMap
  <2> QED
    BY <2>1, <2>2
<1>2. CASE Lifecycle!Next
  <2>1. PICK c \in Builds : Lifecycle!Accept(c) \/ Lifecycle!Run(c)
                           \/ Lifecycle!Finish(c) \/ Lifecycle!Record(c)
    BY <1>2 DEF Lifecycle!Next
  <2>2. \/ StatusMap' = StatusMap
        \/ /\ StatusMap[c] \in {"none", "queued", "running"}
           /\ \E v : StatusMap' = [StatusMap EXCEPT ![c] = v]
    BY <2>1 DEF Lifecycle!Accept, Lifecycle!Run, Lifecycle!Finish, Lifecycle!Record,
       StatusMap
  <2>3. StatusMap[b] = StatusOf(b) /\ StatusMap'[b] = StatusOf(b)'
    BY DEF StatusMap
  <2>4. StatusMap = [x \in Builds |-> StatusMap[x]]
    BY DEF StatusMap
  <2>5. StatusMap[b] \notin {"none", "queued", "running"}
    BY <2>3 DEF Ended
  <2>6. ASSUME NEW v, StatusMap' = [StatusMap EXCEPT ![c] = v], c # b
        PROVE  StatusMap'[b] = StatusMap[b]
    BY <2>4, <2>6
  <2> QED
    BY <2>2, <2>3, <2>5, <2>6
<1> QED
  BY <1>1, <1>2, StepRefines

Sent(w) ==
    wpc[w] = "ended" => /\ sent[w].status \in Ended
                        /\ table[watched[w]] # NoRow
                        /\ sent[w].status = StatusOf(watched[w])

(* A socket watches a build that has a row.                                *)
WatchersInv ==
    \A w \in Watchers :
      /\ wpc[w] # "idle" => table[watched[w]] # NoRow
      /\ Sent(w)

LEMMA RowsStay ==
  ASSUME Inv, [Next]_vars, NEW b \in Builds, table[b] # NoRow
  PROVE  table'[b] # NoRow
<1>1. step[b] # "none"
  BY DEF Inv, Phase
<1>2. step'[b] # "none"
  BY <1>1 DEF Inv, TypeOK, Next, Restart, Open, Poll, PollOnce, Leave, RunImageBuild,
     CreateImageBuild, LoadBuild, MarkRunning, ReadStarted, LogStarted, BuildImage, Reload,
     Finish, ReadOutcome, LogOutcome, AppendRead, ReadFails, UpdateImageBuild, Load,
     Advance, vars, buildVars
<1>3. Phase(b)'
  BY StepInv DEF Inv
<1> QED
  BY <1>2, <1>3 DEF Phase

LEMMA WatchersStep == Inv /\ WatchersInv /\ [Next]_vars => WatchersInv'
<1> SUFFICES ASSUME Inv, WatchersInv, [Next]_vars, NEW w \in Watchers
             PROVE  /\ wpc'[w] # "idle" => table'[watched'[w]] # NoRow
                    /\ Sent(w)'
  BY DEF WatchersInv
<1>1. PICK b \in Builds : b = watched[w]
  BY DEF Inv, TypeOK
<1>2. ASSUME watched'[w] = watched[w], sent'[w] = sent[w],
             wpc'[w] = wpc[w] \/ (wpc[w] = "watching" /\ wpc'[w] = "gone")
      PROVE  /\ wpc'[w] # "idle" => table'[watched'[w]] # NoRow
             /\ Sent(w)'
  <2>1. wpc'[w] # "idle" => table'[watched'[w]] # NoRow
    BY <1>1, <1>2, RowsStay DEF WatchersInv
  <2>2. wpc'[w] = "ended" => Sent(w) /\ wpc[w] = "ended"
    BY <1>2 DEF WatchersInv
  <2>3. wpc'[w] = "ended" => StatusOf(b) \in Ended /\ StatusOf(b) = sent[w].status
    BY <1>1, <2>2 DEF Sent
  <2>4. wpc'[w] = "ended" => StatusOf(b)' = StatusOf(b)
    BY <2>3, EndedStays
  <2>5. watched'[w] = b /\ StatusOf(watched[w])' = StatusOf(b)'
    BY <1>1, <1>2 DEF StatusOf
  <2> QED
    BY <1>2, <2>1, <2>3, <2>4, <2>5 DEF Sent
<1>3. CASE UNCHANGED <<wpc, watched, sent, restarted>>
  BY <1>2, <1>3
<1>4. CASE Restart
  BY <1>2, <1>4 DEF Restart
<1>5. ASSUME NEW v \in Watchers, Open(v) \/ Poll(v) \/ Leave(v)
      PROVE  /\ wpc'[w] # "idle" => table'[watched'[w]] # NoRow
             /\ Sent(w)'
  <2>1. CASE v # w
    <3>1. watched'[w] = watched[w] /\ sent'[w] = sent[w] /\ wpc'[w] = wpc[w]
      BY <1>5, <2>1 DEF Open, Poll, PollOnce, Leave, Inv, TypeOK
    <3> QED
      BY <1>2, <3>1
  <2>2. CASE v = w /\ Leave(w)
    <3>1. watched'[w] = watched[w] /\ sent'[w] = sent[w] /\ wpc[w] = "watching" /\ wpc'[w] = "gone"
      BY <2>2 DEF Leave, Inv, TypeOK
    <3> QED
      BY <1>2, <3>1
  <2>3. CASE v = w /\ Open(w)
    <3>1. PICK c \in Builds : table[c] # NoRow /\ watched' = [watched EXCEPT ![w] = c]
      BY <2>3 DEF Open
    <3>2. wpc' = [wpc EXCEPT ![w] = "watching"] /\ table' = table
      BY <2>3 DEF Open, buildVars
    <3>3. wpc'[w] = "watching" /\ watched'[w] = c
      BY <3>1, <3>2 DEF Inv, TypeOK
    <3> QED
      BY <3>1, <3>2, <3>3 DEF Sent
  <2>4. CASE v = w /\ Poll(w)
    <3>1. /\ watched' = watched /\ table' = table /\ sent'[w] = table[watched[w]]
          /\ wpc[w] = "watching"
          /\ wpc'[w] = "ended" => table[watched[w]].status \in Ended
      <4> DEFINE stop == table[watched[w]].status \in Ended
      <4>1. /\ watched' = watched /\ table' = table /\ wpc[w] = "watching"
            /\ sent' = [sent EXCEPT ![w] = table[watched[w]]]
            /\ wpc' = IF stop THEN [wpc EXCEPT ![w] = "ended"] ELSE wpc
        BY <2>4 DEF Poll, PollOnce, buildVars
      <4>2. sent'[w] = table[watched[w]]
        BY <4>1 DEF Inv, TypeOK
      <4> QED
        BY <4>1, <4>2
    <3>2. table[watched[w]] # NoRow
      BY <3>1 DEF WatchersInv
    <3> QED
      BY <3>1, <3>2 DEF Sent, StatusOf
  <2> QED
    BY <1>5, <2>1, <2>2, <2>3, <2>4
<1> QED
  BY <1>3, <1>4, <1>5 DEF Next, vars, watcherVars, CreateImageBuild, RunImageBuild, LoadBuild,
     MarkRunning, ReadStarted, LogStarted, BuildImage, Reload, Finish, ReadOutcome,
     LogOutcome, AppendRead, ReadFails, UpdateImageBuild

LEMMA WatchersInit == Init => WatchersInv
  BY DEF Init, WatchersInv, Sent

LEMMA WatchersImplies == Inv /\ WatchersInv => WatcherEndsOnFinalStatus
  BY DEF WatchersInv, Sent, StatusOf, WatcherEndsOnFinalStatus

(* A socket closed by the server has shown its client the status the build *)
(* keeps for ever (WatcherEndsOnFinalStatus).                              *)
THEOREM WatcherAlwaysEndsOnFinalStatus == SafeSpec => []WatcherEndsOnFinalStatus
  BY InitInv, StepInv, WatchersInit, WatchersStep, WatchersImplies, PTL DEF SafeSpec

=============================================================================
