# PoDorel in TLA+

PoDorel is a web console for Podman. One web process (`server/`) keeps a SQLite
store and serves an HTTP and WebSocket API; one agent process per host user
(`agent/`) owns a Podman instance and answers the web process over a Unix
socket. This directory holds TLA+ models of the parts of PoDorel in which the
order of events matters, TLC configurations that check them on small instances,
and TLAPS proofs of the properties that matter most.

Paths below are relative to the repository.

## 1. The system

    browser --HTTP/WebSocket--> web process --Unix socket--> agent --> Podman
                                    |                                    ^
                                 SQLite                     users and other tools

Every HTTP request runs on a goroutine of its own. The store opens **one**
connection (`SetMaxOpenConns(1)`, foreign keys on), so a statement or a
transaction is atomic, but a handler takes several of them and anything may
happen in between. Podman is not under the server's control: its users create
and remove pods at any time.

| Component | State it keeps | Operations | What is hard | What makes it correct |
|---|---|---|---|---|
| **Snapshot cache**: `resources.go`, `agent_proxy.go`, `compose_stacks.go`, `observability.go` | tables `pods`, `containers`, `resource_samples`, `secrets_metadata`; `agents.status` | refresh from an agent; list pods, statistics and metrics; act on, delete and create pods, containers, secrets, stacks | a refresh is three agent calls and a statement per row, next to deletes, creates, other refreshes and Podman itself; rows read before an agent call and used after it | references resolve; a live listing is complete and, run alone, sound; an answered delete is a fact; a create finds the pod it created |
| **Image builds**: `builds.go` | table `image_builds` with a log in a JSON column | request a build; the goroutine that runs it; the socket that follows it | whole rows rewritten from copies, every error dropped, restart, agent timeout; an answer "ok" that says little | status only moves forward, columns agree with each other and with the agent's answer, a socket ends on the final status, everything ends |
| **Login throttle**: `helpers.go`, called from `app.go` | `failures`: key to times | check, record a failure, clear | three separate critical sections around a slow verification; window boundary | overshoot is bounded; only real failures throttle |
| **Sessions, CSRF, agent tokens**: `app.go`, `helpers.go`, `store.go` | `sessions`, `agents`, `agent_tokens` | both logins, `/api/auth/me`, logout, password change, register agents, rotate agent tokens, probe | several statements without a transaction; tabs that share a cookie; answers lost; password or token changed meanwhile | an ended session does nothing, a stale secret opens nothing, a rotation leaves one live token, the tabs of a browser know their CSRF token |
| **Passkeys**: `passkeys.go` | `passkeyFlows` in memory, `passkey_credentials` table | begin and finish of registration and login | two-step flows of several clients, expiry, deletion in between | a challenge is used at most once, for its purpose, in time; a deleted passkey opens nothing |
| **Settings**: `settings_status.go` | `settings` table and the configuration in memory | read, write, load at start | two writes, no lock, durations of 64 bits | memory and table agree |
| **Security scans, digests**: `security_ops.go`, `security/` | `security_scans`, findings, `image_digests` | scan, compare digests | rows written one by one, two scans at once | a scan answered as complete has its findings; the last renewal of digests is whole |
| **Interactive shell**: `observability.go`, `internal/websocket`, `agent/internal/ipc`, `container-detail-page.component.ts` | two connections, four goroutines, a terminal | open, copy, hang up | who closes first, blocked writers that hold a lock, errors dropped | messages in order, none lost from the middle; the session ends |
| **Log history**: `observability.go`, `logs/rotation.go` | files of a directory | expire, prune, read | two requests prune at once, a limit that changes meanwhile | what every configuration keeps is kept and shown |
| **Web process and TLS**: `cmd/podorel-web`, `tls_ca.go` | `protocolMux`: two channels of 128 connections | accept, sort, deliver, close | full channel, close while delivering, stalled clients, restart | every connection ends but one whose client stops for ever where the servers set no limit |
| **Store and migrations**: `internal/db` | the tables, `schema_migrations` | apply, bootstrap | crash among the statements | each statement may be repeated |
| **Agent client**: `agents/client.go` | none | a request per call | timeout after the host has acted; a status sent before the outcome is known | "ok" means done, but for a build whose failure was streamed |
| **Agent**: `agent/internal/ipc` | none | translate requests, collect log lines | callers that leave, goroutines that feed lines | every handler ends |
| **Agent runtimes**: `agent/internal/podman` | socket or command line; CPU baselines; compose directories | pods, containers, images, secrets, logs, exec, stacks | the command line repeats what the socket call may have done; two deployments share a directory; killed commands | nothing runs twice but what falls back; a bundle is whole |
| **Shared packages**, **configuration, audit, passwords, envelope**, **templates** | none that others read back | formatting, hashing, append-only rows | - | - |
| **Command line tool**, **UI**, **packaging, scripts, tests** | none of the server's | clients of the API | - | - |

How they meet: handlers call the agent client and the store; a refresh copies
the answers of the first into the second; a build goroutine outlives its
request and shares nothing with the sockets but its row; both logins go through
the throttle and end in a session; the retention and the limit that a settings
request stores are what a log history request removes by; all of them are gone
when the process ends, and the tables and files stay.

The hazards of this code, each at its line and with the properties that cover
it, are listed under `hazards` in `PROJECT.json`.

## 2. The modules

| Module | Models | Proofs |
|---|---|---|
| `Snapshots` | snapshot cache, with the Podman instances behind the agents | `SnapshotsProofs` |
| `BuildLifecycle` | abstract: what a row of `image_builds` promises | - |
| `ImageBuilds` | image builds and their sockets; implements `BuildLifecycle` | `ImageBuildsProofs` |
| `LoginThrottle` | the limiter and both logins around it | `LoginThrottleProofs` |
| `Sessions` | sessions, CSRF tokens, agent tokens and the admin password, with the tabs that use them | `SessionsProofs` |
| `Passkeys` | passkey registration and login | `PasskeysProofs` |
| `AgentCalls` | a call from the web server through the agent's handler and both runtimes to Podman | `AgentCallsProofs` |
| `RemoteShell` | abstract: what the user of an interactive shell is promised | - |
| `ExecSession` | one interactive shell: browser, web handler, agent, terminal; implements `RemoteShell` | `ExecSessionProofs` |
| `Requests` | the connections of the web process and how they are answered | - |
| `Settings` | `PUT /api/settings` and what a start loads | - |
| `SecurityScans` | `POST /api/security/scan` | - |
| `LogHistory` | `GET /api/logs/history`; reads the configuration of `Settings` | - |
| `WebProcess` | composes the four before it with the listener, `protocolMux`, signals, crashes and restarts | `WebProcessProofs` |
| `MC*` | instances for TLC: identifiers, symmetry | |

### Snapshots

| Model | Code |
|---|---|
| `podman`, `podmanC` | the pods and containers of the Podman instances; ids are never reused, names are free again after a removal |
| `pods`, `containers` | the tables, by id, with the `agent_id` column; other columns are left out |
| `samples`, `secrets` | the references held by `resource_samples` and `secrets_metadata.used_by_pod_id` |
| `fresh[r]`, `freshS[r]` | the rows whose `observed_at`/`sampled_at` is not before the `freshAfter` of request r. Times are only ever compared that way, so the model keeps the outcome of the comparison instead of a clock |
| `pc`, `kind`, `agent`, `target`, `live`, `todoP`, `todoC`, `index`, `todoS` | the local variables of the handler of a request |
| `base`, `dead`, `deadC`, `alone` | history, read by properties only |
| `Begin*` | the part of a handler up to its first agent call, the row lookup included |
| `AgentCall`, `Effect` | the agent call: refused, carried out, or carried out with its answer lost |
| `StoreStep` | the statement that follows it, with the foreign keys that may reject it |
| `Refresh*`, `AgentUnavailable` | `refreshAgentSnapshots`, one action per agent call and per row |
| `DropPlaceholder`, `LookupCreated`, `InsertPlaceholder*` | `handleCreateFromTemplate` after the agent call |
| `Cancel` | the client leaves or the process dies: every later call with the request's context fails. Because it is enabled everywhere, a restart is a `Cancel` of each request |

Foreign keys are modelled by what they do: a statement that would leave a
dangling reference is not enabled, and the failing alternative is an
alternative of the action. `DeletePod` is one step, as in the code, where it is
one transaction. The container actions that change only the `state` column
(`handleContainerAction`) are not in the model, since the model has no such
column.

### ImageBuilds

`table` is the table, `copy` the row a goroutine works on, `step` where it is.
`LoadBuild` ... `LogOutcome` are the store calls and the agent call of
`runImageBuild` and `AppendImageBuildLog` in the order of the code. For
the builds in `Faulty` any read or write may fail; `Restart` may happen between
any two steps and is remembered in `restarted`, for the liveness properties. `Poll`
is one turn of the socket's loop. The entries of the log are named by what they
announce. `BuildImage` may get either answer at any time and says nothing of
the image: an error may come after Podman has built it, and "ok" when it has
not (see `AgentCalls`). `result` keeps the last answer, and `RowsAreWhole`
says that this is what an ended row stands for, not that there is an image.

### LoginThrottle

`Check`, `RecordFailure` and `ClearFailures` are the three critical sections of
`throttled`, `recordFailure` and `clearFailures`; `Verify` and `CreateSession`
lie between them. Times are integers, so a failure can be exactly one window
old. `guesses` is history. `Concurrency` is a named bound of the model: the
code puts no limit on the logins verified at once, and the property shows that
they are what the overshoot depends on.

### Sessions

The clients are the tabs of browsers, since that is what makes CSRF rotation
hard: tabs share the session cookie, and each keeps the `csrfToken` of its own
last answer (`api.service.ts`). A tab has one of these requests under way at a
time.

| Model | Code |
|---|---|
| `password`, `agents`, `tokens`, `sessions`, `expired` | `users.password_hash` of the admin, `agents`, `agent_tokens`, `sessions`, the rows whose `expires_at` has passed |
| `cookie`, `csrf` | the session cookie of a browser, the CSRF token of a tab |
| `pc`, `kind`, `sid`, `secret`, `target`, `seen`, `reply` | the local variables of the handler that serves a tab |
| `wrong`, `gone`, `disturbed`, `lost` | history, read by properties only |
| `WithSession`, `RequireCSRF` | `withSession` and `requireCSRF`; each reads the row anew |
| `RotateRead`, `RotateWrite` | `RotateSessionCSRF`, a SELECT and an UPDATE |
| `CreateSession`, `DeleteSession`, `UpdateUserPassword`, `RevokeAgentTokens`, `UpsertAgent`, `RegisterAgentToken` | the statement of that name |
| `Respond`, `Cancel` | the answer reaches the tab, or the client has left, a statement has failed or the process has died |

Ids and tokens are random and never repeat; CSRF tokens are numbered in the
order of their making, up to the bound `MaxMinted`. The limiter in front of the
logins is `LoginThrottle`. A DELETE whose error is dropped (`handleLogout`) is
an alternative of `DeleteSession`. `Offered` restricts an instance to some
kinds of request.

### Passkeys

| Model | Code |
|---|---|
| `open`, `purpose`, `expired` | `passkeyFlows`, the purpose of a flow, the flows whose `ExpiresAt` has passed |
| `stored` | the rows of `passkey_credentials` |
| `madeFor` | the registration challenge an authenticator made a credential for; the library refuses the answer for any other |
| `pc`, `want`, `flow`, `credential` | a finish request: its step, the purpose its route expects, what it carries |
| `outcomes`, `cut` | history |
| `SavePasskeyFlow`, `ConsumePasskeyFlow` | the two critical sections, `cleanupPasskeyFlowsLocked` included |
| `Verify` | `loadPasskeyUser` and the library's verification |
| `SavePasskeyCredential`, `UpdatePasskeyCredential`, `CreateSession`, `DeletePasskeyCredential` | the statement of that name |
| `Restart` | the flows and the requests are gone, the table stays |

There is one user, the admin. The session and CSRF checks in front of the
handlers are those of `Sessions`.

### AgentCalls

| Model | Code |
|---|---|
| `call[c].pc`, `result` | the agent's handler of a call and what it answers: the socket runtime (`socket`), the command line (`files`, `cli`), the lines of a log (`drain`) |
| `call[c].client`, `cancelled` | the caller, its timeout, and the context of the handler |
| `call[c].socket`, `cli` | what was left with Podman: a request the handler gave up is still carried out or not |
| `log[c]` | the channels and goroutines of `Logs`: `feed` lines the innermost one has, `buf` in its channel of capacity one, `hold` in the hand of the goroutine of a pod |
| `host`, `dir` | the call that last changed the host; who wrote each file of the compose directory |
| `during`, `mixed` | history |
| `Preferred`, `ToFallback`, `Fallback` | `FallbackRuntime` and `fallbackErr` |
| `SocketReply`, `SocketGivesUp` | the answer, or the 20 s of the HTTP client |
| `SocketStreams` | a build that fails after Podman has sent the status 200: `BuildImage` drops the body, `doWithContentType` looks at the status, and the handler answers ok |
| `ToInspect`, `Inspect` | `ListContainers`: the list, then a request of its own for every container without health, with errors ignored; `seen` collects the moments |
| `CliExit`, `CliKilled` | `cmd.Run` with its context; an exec answers its status as a result |
| `WriteFile`, `ComposeUp` | `DeployComposeStack`, file by file |
| `RelayTakes`, `RelayNext`, `Feed`, `Take`, `Drained` | `Logs` of the socket runtime and `handleLogs` |
| `AgentStops` | the process ends; commands it started may go on |

A failed build over the socket is therefore answered as ok, and `builds.go`
stores it as complete although there is no image. Neither the documents nor the
comments say what an answer stands for, so this is not a finding against one of
them: `AnswersAreTrue` names it as its exception, and it is listed among the
hazards (`socket_runtime.go:303`). The command line reports the failure.

The `compose version` probe in front of a deployment is part of `ComposeUp` and
`DeployFails`, not a command of its own. All deployments of an instance are of
one project with the same set of `Files`; a file is written in one step. Files
that an earlier stack of the directory left and the new bundle does not have,
and a file that is truncated and not yet written when "up" reads it, are not
covered by `BundleIsWhole`.

What a command does to the host is one step, at any time until it has ended.
An exec or a compose command that is killed has started something that lives
on (`orphan`); a killed compose command also keeps its handler waiting, since
`cmd.Run` waits for whoever holds the output.

### ExecSession

`to[e]` holds the messages on their way to the end `e` of a connection and at
most `Cap` of them, so that a writer may block, as with a peer that does not
read; `pty` likewise. `Up`, `Down`, `Reader`, `Stream`, `Web` and `Agent` are
the goroutines; a write that blocks is an action that is not enabled. `Close`
drops what would arrive at the closed end, and every error a goroutine drops is
an alternative (`WriteText`, `WriteClose`). A message is `big` when it can be
read but not written (`websocket.go` reads 256 KiB and writes 65535 bytes) and
`odd` when the agent does not know its type. Resizing changes nothing here.
`Traffic` bounds the messages of both sides together.

`RemoteShell` knows nothing of connections: the user types numbered messages,
some of which no shell reads (`void`), and the shell writes numbered pieces of
output. The shell may read, and the user may be shown, only what is due: the
first message that has not arrived yet. Each direction may stop for good at any
time. "connected" comes first and "closed" only of a shell that has ended. The
mapping takes the numbers from `told` and `wrote` and the histories `got` and
`shown`; connections, goroutines and the terminal are hidden.

### WebProcess and what it composes

A connection carries one request: settings, a scan, the log history, or plain
HTTP. `at[c]` is where it stands, from the kernel's queue over the listener's
channel to a step of its handler, and `wire[c]` what the connection does when
the request is over: its answer is being written, or the connection is kept for
a next request. That next request, and one beside the first over HTTP/2, is as
one on another connection.

| Model | Code |
|---|---|
| `table`, `memory`, `put` | the table `settings`, `App.cfg` word by word, the locals of `applySettingsPayload` |
| `Skip`, `Pick`, `Save`, `Assign` | a section the payload leaves out is passed over, any other is built from payload and memory, upserted, and assigned; nothing orders the words of an assignment for other goroutines, so `Assign` takes them in any order |
| `Wrap`, `Quotient` | `time.Duration(hours) * time.Hour` in `Width` bits, and `/ time.Hour` |
| `Load` | `applyPersistedSettingsToConfig` |
| `scans`, `findings`, `digests`, `packages`, `scan` | the four tables and the locals of `runSecurityScan` |
| `Scanner` ... `Packages` | the parts of a scan, a step for each image and each row; which errors end the request and which are dropped is as in the code |
| `files`, `hist` | the log directory, what a request has listed |
| `Expire`, `Unlink`, `Prune`, `Read` | `RemoveExpired`, `PruneToTotalLimit`, `readHistoricalLogs`, file by file; `Listings` includes the empty one that `logFiles` returns when a file vanishes under it |
| `MuxAccept`, `FirstByte`, `SniffTimeout`, `Deliver`, `Accept` | `protocolMux.Serve`, `route` and the two `connListener`s, with room for `Cap` connections (128 in the code) |
| `Quiet`, `LateHeader` | TLS has chosen HTTP/2, which sets no time for a header |
| `Written`, `Close` | the client has read its answer; it hangs up, or a draining server closes the idle connection |
| `Signal`, `Exit`, `AcceptFails`, `Crash`, `Start` | `main`: the graceful end, the error of the listener, a kill, the next start by systemd |
| `mixed`, `author`, `held`, `mingled`, `renewer`, `unclean` | history |

`WebProcess` has TLS: without it there is one listener and no mux. The channels
are kept as sets of connections, since the order in which they are served
changes no property. The log files are given and all of one size; nobody
writes new ones. A client that hangs up is one whose store and agent calls fail
from then on, and any of them may fail. The session checks in front of the
handlers are `Sessions`. The scan of the development mode, which reads a
fixture when there is no scanner, is left out.

## 3. The runs

| Run | Shows | Instance |
|---|---|---|
| `SnapshotsPods` | a live listing has every pod that ran throughout, and, run alone, none that was gone; "deleted" means removed; a deleted row comes back only through a request that overlapped the removal; a create finds its pod and no namesake that is gone | two requests (list, action, delete, create, stack), two pods of one name, one agent |
| `SnapshotsStats` | a statistics request that ran alone never reports a container that was gone | two requests (statistics, container delete), a container in a pod and one in none |
| `SnapshotsDelete` | types, and the references between the four tables | two requests (delete, secret, create), a pod with a container, a placeholder |
| `SnapshotsStale` | the finding below (expected violation) | two statistics requests |
| `ImageBuilds` | rows implement `BuildLifecycle`, their columns agree with each other and with the agent's answer, sockets end on the final status; a build without faults ends, and its socket, unless the server restarts | two builds, one of them with faults, one socket, restarts |
| `LoginThrottle` | overshoot is bounded, only real failures throttle | five logins for one key, limit 2, window 2, five instants |
| `SessionsTabs` | an ended session does nothing, a logout is final, the CSRF token of a browser's session stays known | two tabs of one browser, three sessions, four CSRF tokens; login, `/api/auth/me`, logout |
| `SessionsTokens` | a secret that was wrong throughout opens nothing, an undisturbed rotation leaves one live token | two tabs, two sessions, two agent tokens, two agents, two passwords; both logins, password change, registration, rotation |
| `Passkeys` | a challenge is used once, a deleted passkey opens nothing and does not come back | two finish requests, three flows, two passkeys, any number of repeated answers, restarts |
| `AgentCalls` | an answer "ok" is true, but for a build whose failure was streamed; only the fallback repeats; a bundle is whole; only a pod's logs leave a goroutine behind; handlers end | two calls in five mixes of kinds, two files, two containers, a tail of two lines |
| `ExecSession` | types and bounds of the buffers; the session implements `RemoteShell`; it ends | one session, two messages or pieces of output, buffers of one |
| `WebProcess` | settings agree with the table and with what a start loads; complete scans and renewed digests are whole; logs that all configurations keep are kept and shown; a connection ends unless its client stops at one of four places | two connections in five mixes, two sections of three words, four payloads, durations of 4 bits, three files, two images, one of them with a finding, two starts |

**Why these bounds are enough to meet the cases.** The hazards of the cache are
between *two* requests and Podman: one reads, the other or Podman changes, the
first writes. Two requests are each used any number of times, as a request that
has ended starts again; the requests are symmetric. Two pods of one name give a
namesake that is gone and one that runs; one container in a pod and one in none
give both kinds of reference. `SnapshotsDelete` sets `AllowSnapshotFallback`:
the fallback lets a request go on where it would have ended, and a request may
end anywhere by `Cancel`, so TRUE only adds behaviours and the safety
properties of that run hold for FALSE as well. Builds share nothing but the
table, and a socket follows one build. Keys of the throttle do not meet; five
logins and five instants are more than the limit, in more than one window. Two
tabs of one browser are the least that share a cookie; browsers share only the
tables. Four CSRF tokens allow a login in each tab and two rotations, or a
login and a rotation each for two sessions; three sessions allow a logout and a
login next to one that goes on. Two agent tokens are one to be revoked and one
to be issued. Three flows are one of each purpose and one that is left over
when two requests race for another. A finish request may be made any number of
times for any flow that was ever issued, so answers sent twice, late and to the
wrong route all occur. Two calls to an agent meet only where they share
something: a listing reads what an action or a build changes, a list of
containers also between its inspections, and two deployments share a directory; the other kinds are paired to have every one. Two containers of two
lines each against a tail of two are enough for the relaying goroutine to stop
before its source. Buffers of one message make every writer of a shell block,
and two messages are the fewest that can be lost from the middle or change
order. In `WebProcess` a section of one word and one of two are enough for a
half-assigned section; hours of 3 units in 4 bits give a retention that fits,
one that wraps to a negative duration and one that wraps to a short one; with
three files and limits of 1 to 3 expiry and pruning both remove and keep; two
starts give a restart with saved settings.

`CHECK_DEADLOCK FALSE` appears where the system stops: once all builds have
ended, each login or call to an agent has been made, or the shell is closed.

**Fairness.** All of it is weak fairness of goroutines and of timeouts.

- `ImageBuilds`: each build's goroutine and each socket's loop. The code starts
  the goroutine with a context of its own that nothing cancels; its one blocking
  call is the agent call, which the client ends after five minutes; the socket's
  loop is driven by a ticker. The liveness properties are about builds without
  faults until the first restart, because otherwise nothing is promised: a build
  whose final write is lost, or whose server was restarted, stays `queued` or
  `running` for ever, and its sockets stay open until their clients leave.
- `AgentCalls`: each handler, its timeouts included, and the goroutines of the
  logs. Nothing is assumed of Podman or of the caller. The one wait without a
  timeout is that for the child of a killed compose command, and `HandlersEnd`
  names it.
- `ExecSession`: the goroutines, and that a killed process ends. Nothing is
  assumed of the browser nor of the shell. `SessionsEnd` names the two cases in
  which the session does not end: a browser that stays and does not read, and a
  reader of the agent that is blocked for ever in a write. In the first the
  handler waits in `WriteClose` for the lock the blocked writer holds, before
  the `Close` that would free it.
- `WebProcess`: the handlers and servers of each connection, the end of a
  shutdown, and the restart systemd makes. What the client has to do is not
  fair: its first byte, header, body, reading and hanging up. The mux limits the
  wait for the first byte and both servers that for a header
  (`ReadHeaderTimeout`), so those waits end. `main.go` sets no other limit, and
  `ConnectionsEnd` names the four places where a client may therefore stop for
  ever: before a header over HTTP/2, in a body, before its answer is read, and
  before its next request. A connection whose client does not stop there ends,
  whatever the mux, its channels, the handlers and the other connections do.

## 4. Finding

`docs/troubleshooting.md:91` says that PoDorel "filters out old samples from
previous refreshes instead of showing stale CPU or memory as current". The
filter (`freshStatsOnly`) compares `sampled_at`, which is the time of the
INSERT and not of the measurement. A refresh that measured a container, was
overtaken by the container's removal and by the start of a second request, and
then stores its sample, makes the second request report usage of a container
that was gone before it began. `SnapshotsStale` shows the steps. Run alone, a
request does not have the problem (`LiveStatsSoundWhenAlone`).

## 5. The proofs

All theorems hold for every value of the constants that satisfies the named
assumptions.

| Theorem | States |
|---|---|
| `SnapshotsProofs!TypeCorrect` | `Spec => []TypeOK` |
| `SnapshotsProofs!ReferencesAlwaysResolve` | `Spec => []ReferencesResolve` |
| `SnapshotsProofs!ResurrectionNeedsOverlap` | `Spec => ResurrectedOnlyByOverlap` |
| `SnapshotsProofs!LiveListAlwaysComplete` | `Spec => []LiveListComplete` |
| `SnapshotsProofs!DeletedPodAlwaysGone` | `Spec => []DeletedPodIsGone` |
| `SnapshotsProofs!LiveListAlwaysSoundAlone` | `Spec => []LiveListSoundWhenAlone` |
| `SnapshotsProofs!LiveStatsAlwaysSoundAlone` | `Spec => []LiveStatsSoundWhenAlone` |
| `SnapshotsProofs!CreatedPodAlwaysFound` | `Spec => []CreatedPodIsFound` |
| `ImageBuildsProofs!BuildsTypeCorrect` | `SafeSpec => []TypeOK` |
| `ImageBuildsProofs!RowsAlwaysWhole` | `SafeSpec => []RowsAreWhole` |
| `ImageBuildsProofs!RowsImplementLifecycle` | `SafeSpec => RowsFollowLifecycle`, the refinement of `BuildLifecycle` |
| `ImageBuildsProofs!WatcherAlwaysEndsOnFinalStatus` | `SafeSpec => []WatcherEndsOnFinalStatus` |
| `LoginThrottleProofs!ThrottleTypeCorrect` | `Spec => []TypeOK` (no run checks it) |
| `LoginThrottleProofs!GuessesBoundedAlways` | `Spec => []GuessesBounded` |
| `LoginThrottleProofs!ThrottledForCauseAlways` | `Spec => ThrottledForCause` |
| `SessionsProofs!TypeCorrect` | `Spec => []TypeOK` |
| `SessionsProofs!LogoutAlwaysFinal` | `Spec => LogoutIsFinal` |
| `SessionsProofs!EndedSessionsNeverAct` | `Spec => []EndedSessionsDoNothing` |
| `SessionsProofs!StaleSecretsNeverOpen` | `Spec => []StaleSecretsOpenNothing` |
| `SessionsProofs!RotationAlwaysLeavesOne` | `Spec => []RotationLeavesOneToken` |
| `SessionsProofs!CsrfAlwaysKnown` | `Spec => []CsrfStaysKnown` |
| `PasskeysProofs!TypeCorrect` | `Spec => []TypeOK` |
| `PasskeysProofs!OneOutcomeAlways` | `Spec => []OneOutcomePerFlow` |
| `PasskeysProofs!DeletedNeverOpens` | `Spec => []DeletedPasskeyOpensNothing` |
| `PasskeysProofs!DeletedStaysDeleted` | `Spec => DeletedPasskeyStaysDeleted` |
| `AgentCallsProofs!TypeCorrect` | `Spec => []TypeOK` |
| `AgentCallsProofs!Truthful` | `Spec => []AnswersAreTrue` |
| `AgentCallsProofs!FewRepeats` | `Spec => []RepeatedOnlyByFallback` |
| `AgentCallsProofs!WholeBundles` | `Spec => []BundleIsWhole` |
| `AgentCallsProofs!FewLeaks` | `Spec => []FeedersLeakOnlyForPods` |
| `ExecSessionProofs!TypeCorrect` | `Spec => []TypeOK` |
| `ExecSessionProofs!ShellKeepsPromise` | `Spec => KeepsPromise`, the refinement of `RemoteShell` |
| `ExecSessionProofs!HistoriesInOrder` | `Spec => [](ReadInOrder /\ ShownInOrder)`, its meaning for the histories (no run checks it) |
| `WebProcessProofs!ScansAlwaysStored` | `Spec => []ScansStored` |
| `WebProcessProofs!TypeCorrect` | `Spec => []TypeOK` |
| `WebProcessProofs!SettingsAlwaysAgree` | `Spec => []SettingsAgree` |
| `WebProcessProofs!LogsAlwaysKept` | `Spec => []LogsKept` |

**Snapshots, types and references.** `TypeOK` is not inductive: a request's
target is a pod, a container or a name depending on its kind, and the table
functions are applied to it. `TypeInv` adds what a request asks for at each
step. With it, `ReferencesResolve` is inductive by itself: every statement
either checks its parents or removes the children with the parent.

**Snapshots, listings.** `Listings` says that what a request still has to
insert was not gone when it began, and that it is empty outside the two steps
that use it. A row appears only where a refresh inserts it (`PodsWritten`), so
a row that comes back is in some listing and not among that request's dead.
For completeness, `ListInv` adds three parts: a pod's row belongs to the agent
of its host; a pod of `base` that still runs is, step by step, still in the
listing or has a fresh row; a request that is about to delete a row has already
removed the pod. The last part is why a concurrent delete cannot take the row
of a running pod from a listing, and why an answered delete is a fact. Both
need one agent per host and no fallback (`Setting`); the properties say so. The
lemmas called `...Own` treat the request that moves, those called `...Env` the
others. What runs alone is sound because of `Unmixed`: a row or a sample is
fresh for a request only while the request runs; while it runs alone all others
are idle, so the fresh ones are those it wrote itself, and its listings hold
nothing that was gone when it began. A created pod that still runs is found
because of `ListInv`, and nothing else is found because of `Unmixed`.

**ImageBuilds.** `Inv` relates the step of a goroutine to its copy and to the
row: until `Finish` the row is pending with a log without outcome; a copy never
differs from the row in what an earlier step wrote, because one goroutine
writes each row; after `Finish` the row is either ended or, if the write was
lost, still pending. The refinement maps each write to `Accept`,
`Run`, `Finish` or `Record` and everything else to a stutter. An ended status is
never left (from `Inv`), so a socket that closed on it had the final one.

**LoginThrottle.** A failure recorded in the window is also a guess, so the
compacted failures and the guesses in the window have the same size; a login
that has passed the check leaves room for itself among `Limit - 1 +
Concurrency`, and moving from `verify` to `record` to the set keeps the sum.
Finiteness of `Logins` is assumed.

**Sessions.** `TypeInv` adds to `TypeOK` what a request is and carries at each
step (`CallInv`). The table only moves forward (`Forward`): a deleted row stays
deleted and an expired one expired, which is `LogoutIsFinal`. A session that
had ended when a request began therefore stays ended and the request gets no
further than `withSession` (`GoneInv`; `IssuedInv` says that cookies and
requests name sessions that were issued, without which an ended session could
still come to life). A login whose secret has been wrong since its beginning
has not passed its comparison, and the secret is wrong now (`WrongInv`). An
undisturbed rotation finds no live token before it registers its own
(`RotationInv`).

`CsrfStaysKnown` is the hardest: that *some* tab holds the token is kept only
because the tabs that do not are known to be harmless. `KnownInv` adds: tokens
are numbered and each is of one session (`Numbers`); a session is known to one
browser (`Owners`); a waiting answer carries the token of no other session
(`Answers`); nobody knows the session of a login that is not answered yet
(`LoginFresh`); a tab that holds the token of its browser's session asks only
for that session (`HolderAsks`) and no longer holds it when it waits for a newer
one (`RotatorHolds`). So the answer that replaces a tab's token brings the
current one, or the tab did not hold it.

**Passkeys.** At any moment one owner may still bring about the outcome of a
flow (`OneOwner`): nobody before it is issued, the map while it is open, one
request past `consumePasskeyFlow` after that. A credential is made for one flow,
so a stored one means that its flow has had its outcome (`MadeInv`), and no
request can store it again. A request whose passkey was deleted before its
UPDATE carries the id of a deleted row up to that UPDATE (`CutInv`), which finds
none.

**AgentCalls.** `IInv` says of each call how far it is and what it has left with
Podman. `CallOK` counts: a call has run at most once for a socket that is done
and once for a command that is done or that ended on its own, and an "ok" of an
effect needs one of the two or a build whose failure the socket streamed.
`SeenOK`: the host as it is now is among the moments of a call in progress, so
a listing read in one step is true at one of them, and the inspections of a list
of containers add only further ones.
`BundleOK`: what a deployment has written so far stays its own until its "up"
has read it, or the call is marked `mixed`. `LogOK`: the goroutine that relays
one container's log never has more lines, read or waiting, than the handler
still takes, so it has none left when the handler is done; nothing of the kind
holds for the logs of a pod, where the lines of all containers count. A step
changes one call (`PutStep`) or, for Podman's own steps and a kill of the agent,
all calls alike.

**ExecSession.** A message is on its way through up to three places: the two
connections and the terminal. `IInv` says that their contents join. On the way
up (`UpInv`), what the shell has read and what its terminal holds are all
numbers up to some `r` but the void ones (`Fed`); the agent's queue has the
next ones up to some `p` (`Follows`), and the web handler's the rest, up to
`told.n`. On the way down (`DownInv`), the browser has shown `1..s`, its queue
has `s + 1..w`, the next queue `w + 1..b` and the terminal what follows up to
`wrote` (`Waiting`). Each link of these chains is claimed only while somebody is
left to carry on: `Feeding`, `UpOpen` and `DownOpen` name the ends and the
goroutine that must still be there. That is what makes the invariant inductive
with errors dropped everywhere: a goroutine that ends in the middle of a message
loses it, but cuts its link for ever by the same step. `Phases` has what the
control flow rules out, such as a terminal that is open without its reader.
`FirstInv` follows "connected" from the agent to the browser: nothing but a
close frame overtakes it, since the agent has put it into an empty queue. A step
that carries nothing leaves the chains alone (`UpCalm`, `DownCalm`,
`FirstCalm`); the others move one end of one link. In the refinement a message
that the browser takes is `Output` or `Announce`, one that the shell takes
`Read`, and the chains say that it is due.

**WebProcess.** `ScanInv` follows a scan step by step. `FoundOK` says what its
request has stored by then: nothing before its row, exactly the findings it no
longer has ahead while it stores them, all of them from then on; a scan is
complete only if it looked at every image it has behind it. `Renewed` is about
the one scan that last cleared the digests: all other rows are of scans that had
already passed the DELETE or whose DELETE failed (`unclean`), and its own rows
are the images it no longer has ahead. A request that ends, by an error or with
the process, keeps what it stored and is not answered as complete. Steps of
settings, of log histories and of the listener change neither scans nor their
tables (`SameCalm`). `wire` decides nothing but the end of a connection: the invariants
of the handlers leave it out, and its type follows action by action
(`NextWires`).

For settings and log histories every step is one that leaves both alone (`Aside`), a
start, or a step of one handler (`Steps4`).
`WebInv` adds to the types that a request is only at steps of its kind. That
every value has its width comes from `Wrap` being a remainder and `Quotient` no
longer than what it divides; nothing is asked of `Width` but that
`2^Width = 2 * 2^(Width - 1)` (`SettingsAssumption`).

`Agrees` is the invariant behind `SettingsAgree`, for a section that two
requests never worked on at once. Only the last request to begin on it is in
it; from the save on the table has what that request built; a word of memory is
what a start would load or is still ahead of it; and what was asked for is in
what it built, then in the table. A start loads another value than the saved
one for a limit that is not positive. `SaneInv` says that such a limit is the
default, which a start loads too; for limits that are durations this is false,
since a wrapped one may be negative, and there `Fits` is needed.

`Spares` is the invariant behind `LogsKept`. `held` has only files that the
retention and the limit now in force keep. Expired files of a listing are not
held, because the listing was judged by a retention that keeps what is held
later as well. A held file has fewer newer ones than the limit a request prunes
to; all others of a listing are newer than its oldest one; so the oldest file
of a listing over the limit is not held (`OldestNotHeld`, by counting). A request that met no
other has listed the directory as it is, and so never meets a file that is gone.
`AgeAssumption` has finitely many files of different ages, none of age zero.

**Only model-checked.**

- Liveness (`BuildsEnd`, `WatchersEnd`, `HandlersEnd`, `SessionsEnd`,
  `ConnectionsEnd`): fairness and ENABLED are out of the prover's reach.
- `NoStaleStats` is refuted (section 4).

## 6. What is not modelled

- Columns that no property tells apart: names of containers, images, states,
  health, ports, labels; metrics history and its retention.
- Parsing of Podman's output, JSON, wording, audit rows, traces, HTML, tokens
  as strings. The session checks in front of the handlers of other modules are
  those of `Sessions` and change nothing.
- Inside WebAuthn: challenges, origins and signatures are the library's. The
  sign counter is in the JSON it gets and returns, which the code only stores.
- Two agents on one socket: the code does not keep sockets apart, and then each
  refresh takes over the other's rows. `OneAgentPerHost` names the condition.
- `RotateIfNeeded` of `rotation.go`: no code outside its tests calls it.
- The CPU tracker (`cpu_tracker.go`): overlapping calls apply their samples in
  the order of its lock; the number is shown and nothing is decided by it.
- `agents.status`, which a refresh and a probe both write: shown, and nothing is
  decided by it.
- Migrations and bootstrap: every start executes all migrations again before
  the server listens; each statement creates what does not exist yet, so a crash
  among them is made good by the next start.
- The logs and metrics WebSockets: loops that poll what `AgentCalls` and
  `Snapshots` model.
- The agent's image scanner and the parsing of reports: commands without state,
  whose failures are those of `SecurityScans`.
- Formatting, templates, catalogue, command line tool, packaging, scripts and
  the rest of the user interface: no state that others depend on.

A note on large retentions. `retention_hours` takes any positive integer, and
`time.Duration(hours) * time.Hour` wraps from 2562048 hours on. The retention in
force may then be negative, and every log history request fails
(`RemoveExpired` wants a positive one), or short, and logs are deleted; a later
request without the field stores the hours that are left of it. `Settings`
models the wrap. `SettingsAgree` compares memory with the table only where the
durations fit (`Fits`), and `LogsKept` is about the retention in force, wrapped
or not.

## 7. Plan

Done: every component whose order of events matters has a module. What is left,
in this order:

1. A refinement of `WebProcess` by an abstract "connection is answered once or
   closed".
2. The CPU tracker, if anything ever decides by its numbers; the registry's
   status likewise.
