------------------------------ MODULE Snapshots ------------------------------
(***************************************************************************)
(* The control plane's cache of what Podman runs: the pods, containers,    *)
(* resource_samples and secrets_metadata tables of the SQLite store, the   *)
(* refresh that copies an agent's listing into them, and the HTTP handlers *)
(* that read, act on, delete and create pods.                              *)
(*                                                                         *)
(* Every handler runs on its own goroutine.  The store holds one           *)
(* connection, so a statement or a transaction is one atomic step, and     *)
(* anything may happen between two of them and around every agent call.    *)
(* A request may stop at any point: its context is cancelled when the      *)
(* client leaves or the process dies, and each later call then fails.      *)
(*                                                                         *)
(* observed_at and sampled_at are only ever compared with the instant at   *)
(* which a request began (freshAfter, refreshStarted), so the model keeps, *)
(* for each request, the rows stamped since that instant.                  *)
(***************************************************************************)

CONSTANTS
    Agents,        \* registered agents, one Unix socket each
    Pods,          \* ids Podman may give to pods; never reused
    Containers,    \* ids Podman may give to containers; never reused
    Names,         \* pod names a create request may ask for
    Placeholders,  \* the ids "created-<name>" the server makes up itself
    Requests,      \* HTTP requests that may be in flight together
    HostOf,        \* the Podman instance behind an agent, a pod, a container
    PodOf,         \* the pod of a container, or NoPod
    NameOf,        \* the name of a pod
    PlaceholderOf, \* a requested name to its placeholder id (sanitizeName)
    Offered,       \* the kinds of request the clients send
    AllowSnapshotFallback, \* Options.AllowSnapshotFallback in development mode
    NoAgent,       \* stands for "no such row"
    NoPod          \* the NULL of pod_id

PodIds == Pods \cup Placeholders

(* A placeholder and its "-main" container share one identifier here. *)
ContainerIds == Containers \cup Placeholders

RowPod(c) == IF c \in Placeholders THEN c ELSE PodOf[c]

Kinds == {"list", "stats", "action", "delete", "deleteContainer", "create",
          "compose", "secret"}

ASSUME ConstantsAssumption ==
    /\ Pods \cap Placeholders = {}
    /\ Containers \cap Placeholders = {}
    /\ NoAgent \notin Agents
    /\ NoPod \notin PodIds
    /\ PodOf \in [Containers -> Pods \cup {NoPod}]
    /\ NameOf \in [Pods -> Names]
    /\ PlaceholderOf \in [Names -> Placeholders]
    /\ Offered \subseteq Kinds
    /\ AllowSnapshotFallback \in BOOLEAN

(* Two agents registered on one socket would list the same pods. *)
OneAgentPerHost ==
    \A a, b \in Agents : HostOf[a] = HostOf[b] => a = b

-----------------------------------------------------------------------------
VARIABLES
    podman,     \* pod id to its life: "unborn", "alive", "removed"
    podmanC,    \* container id to its life
    pods,       \* the pods table: id to agent_id, or NoAgent
    containers, \* the containers table: id to agent_id, or NoAgent
    samples,    \* resource_samples, as (container, pod) references
    secrets,    \* secrets_metadata.used_by_pod_id
    online,     \* agents whose status column reads "online"
    pc, kind, agent, target, \* where a request is, what it asks, of whom
    live,       \* refreshSucceeded
    todoP,      \* pods listed by the agent and not inserted yet
    todoC,      \* containers listed and not inserted yet
    index,      \* containerSnapshotIndex: the containers listed
    todoS,      \* stats rows not inserted yet
    fresh,      \* pod rows with observed_at >= freshAfter
    freshS,     \* containers sampled at or after freshAfter
    base, dead, deadC, \* history: alive, removed, removed containers at start
    alone       \* history: no other request has overlapped this one

podmanVars  == <<podman, podmanC>>
rowVars     == <<pods, containers, samples, secrets, online>>
callVars    == <<kind, agent, target>>
refreshVars == <<todoP, todoC, index, todoS>>
freshVars   == <<fresh, freshS>>
historyVars == <<base, dead, deadC, alone>>
requestVars == <<pc, live, callVars, refreshVars>>
vars == <<podmanVars, rowVars, requestVars, freshVars, historyVars>>

Lives == {"unborn", "alive", "removed"}

RefreshSteps == {"listPods", "listContainers", "insert", "samples"}

Steps == RefreshSteps \cup {"idle", "agentCall", "store", "dropPlaceholder",
         "lookup", "placeholder", "placeholderMain", "respond"}

AlivePods(h) == {p \in Pods : podman[p] = "alive" /\ HostOf[p] = h}

AliveContainers(h) == {c \in Containers : podmanC[c] = "alive" /\ HostOf[c] = h}

Removed == {p \in Pods : podman[p] = "removed"}

RemovedContainers == {c \in Containers : podmanC[c] = "removed"}

Active(r) == pc[r] # "idle"

-----------------------------------------------------------------------------
(* Podman itself: its users may create and remove pods at any time. *)

CreatePod(p) ==
    /\ podman[p] = "unborn"
    /\ \A q \in AlivePods(HostOf[p]) : NameOf[q] # NameOf[p]
    /\ podman' = [podman EXCEPT ![p] = "alive"]
    /\ UNCHANGED podmanC

CreateContainer(c) ==
    /\ podmanC[c] = "unborn"
    /\ PodOf[c] # NoPod => podman[PodOf[c]] = "alive"
    /\ podmanC' = [podmanC EXCEPT ![c] = "alive"]
    /\ UNCHANGED podman

(* A pod takes its containers with it; their ids are not used again. *)
RemovePod(p) ==
    /\ podman[p] = "alive"
    /\ podman' = [podman EXCEPT ![p] = "removed"]
    /\ podmanC' = [c \in Containers |->
                     IF PodOf[c] = p THEN "removed" ELSE podmanC[c]]

RemoveContainer(c) ==
    /\ podmanC[c] = "alive"
    /\ podmanC' = [podmanC EXCEPT ![c] = "removed"]
    /\ UNCHANGED podman

Podman ==
    /\ \/ \E p \in Pods : CreatePod(p) \/ RemovePod(p)
       \/ \E c \in Containers : CreateContainer(c) \/ RemoveContainer(c)
    /\ UNCHANGED <<rowVars, requestVars, freshVars, historyVars>>

-----------------------------------------------------------------------------
(* The store.  Foreign keys are on: a statement that would leave a         *)
(* reference to a missing row fails and changes nothing.                   *)

PodRow(p) == pods[p] # NoAgent

ContainerRow(c) == containers[c] # NoAgent

(* A row written now is fresh for every request in flight. *)
Stamp(p) == [q \in Requests |-> IF Active(q) THEN fresh[q] \cup {p} ELSE fresh[q]]

StampSample(c) ==
    [q \in Requests |-> IF Active(q) THEN freshS[q] \cup {c} ELSE freshS[q]]

(* Mutant: INSERT OR IGNORE would leave observed_at of an old row alone. *)
InsertPodOrIgnore(p, a) ==
    /\ pods' = IF PodRow(p) THEN pods ELSE [pods EXCEPT ![p] = a]
    /\ fresh' = IF PodRow(p) THEN fresh ELSE Stamp(p)
    /\ UNCHANGED <<containers, samples, secrets, online, freshS>>

(* INSERT OR REPLACE: the row changes owner when another agent lists it. *)
InsertPod(p, a) ==
    /\ pods' = [pods EXCEPT ![p] = a]
    /\ fresh' = Stamp(p)
    /\ UNCHANGED <<containers, samples, secrets, online, freshS>>

ContainerAllowed(c) == RowPod(c) # NoPod => PodRow(RowPod(c))

(* Mutant: the reference to pods left unenforced. *)
InsertContainerUnchecked(c, a) ==
    /\ containers' = [containers EXCEPT ![c] = a]
    /\ UNCHANGED <<pods, samples, secrets, online, freshVars>>

InsertContainer(c, a) ==
    /\ ContainerAllowed(c)
    /\ containers' = [containers EXCEPT ![c] = a]
    /\ UNCHANGED <<pods, samples, secrets, online, freshVars>>

SampleAllowed(c, p) == ContainerRow(c) /\ (p # NoPod => PodRow(p))

InsertResourceSample(c, p) ==
    /\ SampleAllowed(c, p)
    /\ samples' = samples \cup {[container |-> c, pod |-> p]}
    /\ freshS' = StampSample(c)
    /\ UNCHANGED <<pods, containers, secrets, online, fresh>>

(* The rows DeletePod's three child statements remove. *)
ContainersUnder(p) == {c \in ContainerIds : ContainerRow(c) /\ RowPod(c) = p}

SamplesUnder(p) ==
    {s \in samples : s.pod = p \/ s.container \in ContainersUnder(p)}

(* What else may refer to the pod: the secrets' used_by_pod_id. *)
DeletePodBlocked(p) == p \in secrets

DeletePod(p) ==
    /\ ~DeletePodBlocked(p)
    /\ pods' = [pods EXCEPT ![p] = NoAgent]
    /\ containers' = [c \in ContainerIds |->
                        IF c \in ContainersUnder(p) THEN NoAgent ELSE containers[c]]
    /\ samples' = samples \ SamplesUnder(p)
    /\ UNCHANGED <<secrets, online>>

SamplesOf(c) == {s \in samples : s.container = c}

DeleteContainer(c) ==
    /\ containers' = [containers EXCEPT ![c] = NoAgent]
    /\ samples' = samples \ SamplesOf(c)
    /\ UNCHANGED <<pods, secrets, online>>

-----------------------------------------------------------------------------
(* Requests: how one begins, moves on and ends. *)

Goto(r, step) ==
    /\ pc' = [pc EXCEPT ![r] = step]
    /\ UNCHANGED <<callVars, live>>

(* The response is written, or the client is gone: nothing of it is left. *)
EndRequest(r) ==
    /\ pc' = [pc EXCEPT ![r] = "idle"]
    /\ kind' = [kind EXCEPT ![r] = "list"]
    /\ agent' = [agent EXCEPT ![r] = NoAgent]
    /\ target' = [target EXCEPT ![r] = NoPod]
    /\ live' = [live EXCEPT ![r] = FALSE]
    /\ todoP' = [todoP EXCEPT ![r] = {}]
    /\ todoC' = [todoC EXCEPT ![r] = {}]
    /\ index' = [index EXCEPT ![r] = {}]
    /\ todoS' = [todoS EXCEPT ![r] = {}]
    /\ fresh' = [fresh EXCEPT ![r] = {}]
    /\ freshS' = [freshS EXCEPT ![r] = {}]
    /\ base' = [base EXCEPT ![r] = {}]
    /\ dead' = [dead EXCEPT ![r] = {}]
    /\ deadC' = [deadC EXCEPT ![r] = {}]
    /\ alone' = [alone EXCEPT ![r] = FALSE]

Respond(r) ==
    /\ pc[r] = "respond"
    /\ EndRequest(r)
    /\ UNCHANGED <<podmanVars, rowVars>>

Cancel(r) ==
    /\ pc[r] \notin {"idle", "respond"}
    /\ EndRequest(r)
    /\ UNCHANGED <<podmanVars, rowVars>>

Begin(r, k, a, t, step) ==
    /\ pc[r] = "idle"
    /\ k \in Offered
    /\ pc' = [pc EXCEPT ![r] = step]
    /\ kind' = [kind EXCEPT ![r] = k]
    /\ agent' = [agent EXCEPT ![r] = a]
    /\ target' = [target EXCEPT ![r] = t]
    /\ base' = [base EXCEPT ![r] = AlivePods(HostOf[a])]
    /\ dead' = [dead EXCEPT ![r] = Removed]
    /\ deadC' = [deadC EXCEPT ![r] = RemovedContainers]
    /\ alone' = [q \in Requests |-> q = r /\ \A o \in Requests : ~Active(o)]
    /\ UNCHANGED <<podmanVars, rowVars, live, refreshVars, freshVars>>

(* GET /pods, GET /stats and the metrics feeds: take freshAfter, refresh. *)
BeginRead(r) ==
    \E a \in Agents, k \in {"list", "stats"} : Begin(r, k, a, NoPod, "listPods")

(* Actions and deletes look the row up first and take the agent from it. *)
BeginOnRow(r) ==
    \/ \E p \in PodIds, k \in {"action", "delete"} :
          PodRow(p) /\ Begin(r, k, pods[p], p, "agentCall")
    \/ \E c \in ContainerIds :
          /\ ContainerRow(c)
          /\ Begin(r, "deleteContainer", containers[c], c, "agentCall")

BeginCreate(r) ==
    \E a \in Agents :
       \/ \E n \in Names : Begin(r, "create", a, n, "agentCall")
       \/ Begin(r, "compose", a, NoPod, "agentCall")
       \/ \E p \in PodIds \cup {NoPod} : Begin(r, "secret", a, p, "agentCall")

-----------------------------------------------------------------------------
(* The agent call of a handler that changes something. *)

(* What the call does on the host when it is carried out.  Deletes are     *)
(* forced: one that finds nothing to remove succeeds.  The pods of a       *)
(* compose project appear as Podman's own steps.                           *)
Effect(r) ==
    \/ kind[r] \in {"compose", "secret"} /\ UNCHANGED podmanVars
    \/ kind[r] = "action" /\ target[r] \in AlivePods(HostOf[agent[r]])
                          /\ UNCHANGED podmanVars
    \/ kind[r] = "delete" /\ target[r] \in AlivePods(HostOf[agent[r]])
                          /\ RemovePod(target[r])
    \/ kind[r] = "delete" /\ target[r] \notin AlivePods(HostOf[agent[r]])
                          /\ UNCHANGED podmanVars
    \/ /\ kind[r] = "deleteContainer"
       /\ target[r] \in AliveContainers(HostOf[agent[r]])
       /\ RemoveContainer(target[r])
    \/ /\ kind[r] = "deleteContainer"
       /\ target[r] \notin AliveContainers(HostOf[agent[r]])
       /\ UNCHANGED podmanVars
    \/ /\ kind[r] = "create"
       /\ \E p \in Pods : /\ HostOf[p] = HostOf[agent[r]]
                          /\ NameOf[p] = target[r]
                          /\ CreatePod(p)

AfterCall(k, ok) ==
    CASE k = "create"  -> IF ok THEN "dropPlaceholder" ELSE "placeholder"
      [] k = "compose" -> "listPods"
      [] OTHER         -> "store"

(* Mutant: the error of the agent call is logged and forgotten. *)
AgentCallUnchecked(r) ==
    /\ pc[r] = "agentCall"
    /\ \E done \in BOOLEAN : IF done THEN Effect(r) ELSE UNCHANGED podmanVars
    /\ Goto(r, AfterCall(kind[r], TRUE))
    /\ UNCHANGED <<rowVars, refreshVars, freshVars, historyVars>>

(* The reply may be lost after the host has acted: carried out, not ok. *)
AgentCall(r) ==
    /\ pc[r] = "agentCall"
    /\ \E done, ok \in BOOLEAN :
          /\ ok => done
          /\ IF done THEN Effect(r) ELSE UNCHANGED podmanVars
          /\ IF ok \/ (AllowSnapshotFallback /\ kind[r] # "compose")
             THEN /\ Goto(r, AfterCall(kind[r], ok))
                  /\ UNCHANGED <<refreshVars, freshVars, historyVars>>
             ELSE EndRequest(r)
    /\ UNCHANGED rowVars

(* Mutant: the row read before the agent call is written back whole. *)
UpsertPodState(r) ==
    /\ kind[r] = "action"
    /\ pods' = [pods EXCEPT ![target[r]] = agent[r]]
    /\ fresh' = Stamp(target[r])
    /\ Goto(r, "respond")
    /\ UNCHANGED <<containers, samples, secrets, online, refreshVars, freshS,
                   historyVars>>

(* The store step that follows the agent call; an error ends the request. *)
UpdatePodState(r) ==
    /\ kind[r] = "action"
    /\ fresh' = IF PodRow(target[r]) THEN Stamp(target[r]) ELSE fresh
    /\ Goto(r, "respond")
    /\ UNCHANGED <<rowVars, refreshVars, freshS, historyVars>>

DeleteRow(r) ==
    /\ \/ kind[r] = "delete" /\ DeletePod(target[r])
       \/ kind[r] = "deleteContainer" /\ DeleteContainer(target[r])
    /\ Goto(r, "respond")
    /\ UNCHANGED <<refreshVars, freshVars, historyVars>>

(* Mutant: an empty used_by_pod_id is stored as it is, not as NULL. *)
CreateSecretMetadataEmpty(r) ==
    /\ kind[r] = "secret"
    /\ target[r] # NoPod => PodRow(target[r])
    /\ secrets' = secrets \cup {target[r]}
    /\ Goto(r, "respond")
    /\ UNCHANGED <<pods, containers, samples, online, refreshVars, freshVars,
                   historyVars>>

CreateSecretMetadata(r) ==
    /\ kind[r] = "secret"
    /\ target[r] # NoPod => PodRow(target[r])
    /\ secrets' = secrets \cup ({target[r]} \ {NoPod})
    /\ Goto(r, "respond")
    /\ UNCHANGED <<pods, containers, samples, online, refreshVars, freshVars,
                   historyVars>>

StoreRejects(r) ==
    \/ kind[r] = "delete" /\ DeletePodBlocked(target[r])
    \/ kind[r] = "secret" /\ target[r] # NoPod /\ ~PodRow(target[r])

StoreStep(r) ==
    /\ pc[r] = "store"
    /\ \/ UpdatePodState(r) \/ DeleteRow(r) \/ CreateSecretMetadata(r)
       \/ StoreRejects(r) /\ EndRequest(r) /\ UNCHANGED rowVars
    /\ UNCHANGED podmanVars

-----------------------------------------------------------------------------
(* refreshAgentSnapshots: three agent calls and a statement per row. *)

RefreshDone(r) ==
    /\ pc' = [pc EXCEPT ![r] = IF kind[r] = "create" THEN "lookup" ELSE "respond"]
    /\ live' = [live EXCEPT ![r] = TRUE]

(* A failed agent call, or a row whose parent is not in the store. *)
RefreshFailed(r) ==
    IF kind[r] \in {"list", "stats"} /\ ~AllowSnapshotFallback
    THEN EndRequest(r)
    ELSE /\ pc' = [pc EXCEPT ![r] = IF kind[r] = "create" THEN "placeholder"
                                                          ELSE "respond"]
         /\ todoP' = [todoP EXCEPT ![r] = {}]
         /\ todoC' = [todoC EXCEPT ![r] = {}]
         /\ index' = [index EXCEPT ![r] = {}]
         /\ todoS' = [todoS EXCEPT ![r] = {}]
         /\ UNCHANGED <<callVars, live, freshVars, historyVars>>

AgentUnavailable(r) ==
    /\ \/ pc[r] \in {"listPods", "listContainers"}
       \/ pc[r] = "insert" /\ todoP[r] = {} /\ todoC[r] = {}
    /\ RefreshFailed(r)
    /\ UNCHANGED <<podmanVars, rowVars>>

RefreshListPods(r) ==
    /\ pc[r] = "listPods"
    /\ todoP' = [todoP EXCEPT ![r] = AlivePods(HostOf[agent[r]])]
    /\ online' = online \cup {agent[r]}
    /\ Goto(r, "listContainers")
    /\ UNCHANGED <<podmanVars, pods, containers, samples, secrets, todoC, index,
                   todoS, freshVars, historyVars>>

RefreshListContainers(r) ==
    /\ pc[r] = "listContainers"
    /\ todoC' = [todoC EXCEPT ![r] = AliveContainers(HostOf[agent[r]])]
    /\ index' = [index EXCEPT ![r] = AliveContainers(HostOf[agent[r]])]
    /\ Goto(r, "insert")
    /\ UNCHANGED <<podmanVars, rowVars, todoP, todoS, freshVars, historyVars>>

RefreshInsertPod(r) ==
    /\ pc[r] = "insert"
    /\ \E p \in todoP[r] :
          /\ InsertPod(p, agent[r])
          /\ todoP' = [todoP EXCEPT ![r] = @ \ {p}]
    /\ UNCHANGED <<podmanVars, pc, live, callVars, todoC, index, todoS, historyVars>>

RefreshInsertContainer(r) ==
    /\ pc[r] = "insert" /\ todoP[r] = {}
    /\ \E c \in todoC[r] :
          \/ /\ InsertContainer(c, agent[r])
             /\ todoC' = [todoC EXCEPT ![r] = @ \ {c}]
             /\ UNCHANGED <<pc, live, callVars, todoP, index, todoS, historyVars>>
          \/ ~ContainerAllowed(c) /\ RefreshFailed(r) /\ UNCHANGED rowVars
    /\ UNCHANGED podmanVars

(* Podman reports the containers it can sample, which may be any of them. *)
RefreshStats(r) ==
    /\ pc[r] = "insert" /\ todoP[r] = {} /\ todoC[r] = {}
    /\ \E S \in SUBSET AliveContainers(HostOf[agent[r]]) :
          todoS' = [todoS EXCEPT ![r] = S]
    /\ Goto(r, "samples")
    /\ UNCHANGED <<podmanVars, rowVars, todoP, todoC, index, freshVars, historyVars>>

(* resolveStat: a stats row may name the container by its full id, a short *)
(* id or its name, with or without its pod; the index gives the full id    *)
(* and the pod of a container that was listed, and nothing of another.     *)
ResolvedPods(r, c) == IF c \in index[r] THEN {PodOf[c]} ELSE {PodOf[c], NoPod}

Resolvable(r, c, full) == full \/ c \in index[r]

RefreshInsertSample(r) ==
    /\ pc[r] = "samples"
    /\ \E c \in todoS[r], full \in BOOLEAN :
       \E p \in ResolvedPods(r, c) :
          \/ /\ Resolvable(r, c, full)
             /\ InsertResourceSample(c, p)
             /\ todoS' = [todoS EXCEPT ![r] = @ \ {c}]
             /\ UNCHANGED <<pc, live, callVars, todoP, todoC, index, historyVars>>
          \/ /\ ~(Resolvable(r, c, full) /\ SampleAllowed(c, p))
             /\ RefreshFailed(r)
             /\ UNCHANGED rowVars
    /\ UNCHANGED podmanVars

RefreshComplete(r) ==
    /\ pc[r] = "samples" /\ todoS[r] = {}
    /\ RefreshDone(r)
    /\ UNCHANGED <<podmanVars, rowVars, callVars, refreshVars, freshVars, historyVars>>

-----------------------------------------------------------------------------
(* What a handler answers from, once its refresh has succeeded. *)

(* Mutants: answers read from the cache without regard to freshAfter. *)
CachedPods(r) == {p \in PodIds : pods[p] = agent[r]}

CachedStats(r) ==
    {c \in Containers : SamplesOf(c) # {} /\ HostOf[c] = HostOf[agent[r]]}

CachedCandidates(r) ==
    {p \in Pods : pods[p] = agent[r] /\ NameOf[p] = target[r]}

LivePods(r) == {p \in PodIds : pods[p] = agent[r] /\ p \in fresh[r]}

LiveStats(r) ==
    {c \in freshS[r] : /\ SamplesOf(c) # {}
                       /\ HostOf[c] = HostOf[agent[r]]}

(* podByNameObservedAfter *)
Candidates(r) == {p \in LivePods(r) : p \in Pods /\ NameOf[p] = target[r]}

-----------------------------------------------------------------------------
(* handleCreateFromTemplate after the agent call. *)

(* The placeholder of an earlier attempt goes, if nothing refers to it;    *)
(* then refreshStarted is taken, and freshness is judged from here on.     *)
DropPlaceholder(r) ==
    /\ pc[r] = "dropPlaceholder"
    /\ LET p == PlaceholderOf[target[r]] IN
          DeletePod(p) \/ (DeletePodBlocked(p) /\ UNCHANGED rowVars)
    /\ fresh' = [fresh EXCEPT ![r] = {}]
    /\ freshS' = [freshS EXCEPT ![r] = {}]
    /\ base' = [base EXCEPT ![r] = AlivePods(HostOf[agent[r]])]
    /\ dead' = [dead EXCEPT ![r] = Removed]
    /\ deadC' = [deadC EXCEPT ![r] = RemovedContainers]
    /\ Goto(r, "listPods")
    /\ UNCHANGED <<podmanVars, refreshVars, alone>>

LookupCreated(r) ==
    /\ pc[r] = "lookup"
    /\ Goto(r, IF Candidates(r) = {} THEN "placeholder" ELSE "respond")
    /\ UNCHANGED <<podmanVars, rowVars, refreshVars, freshVars, historyVars>>

InsertPlaceholder(r) ==
    /\ pc[r] = "placeholder"
    /\ InsertPod(PlaceholderOf[target[r]], agent[r])
    /\ Goto(r, "placeholderMain")
    /\ UNCHANGED <<podmanVars, refreshVars, historyVars>>

InsertPlaceholderMain(r) ==
    /\ pc[r] = "placeholderMain"
    /\ LET c == PlaceholderOf[target[r]] IN
          \/ /\ InsertContainer(c, agent[r])
             /\ Goto(r, "respond")
             /\ UNCHANGED <<refreshVars, historyVars>>
          \/ ~ContainerAllowed(c) /\ EndRequest(r) /\ UNCHANGED rowVars
    /\ UNCHANGED podmanVars

-----------------------------------------------------------------------------
Refresh(r) ==
    \/ RefreshListPods(r) \/ RefreshListContainers(r) \/ RefreshInsertPod(r)
    \/ RefreshInsertContainer(r) \/ RefreshStats(r) \/ RefreshInsertSample(r)
    \/ RefreshComplete(r) \/ AgentUnavailable(r)

Create(r) ==
    \/ DropPlaceholder(r) \/ LookupCreated(r)
    \/ InsertPlaceholder(r) \/ InsertPlaceholderMain(r)

Handle(r) == AgentCall(r) \/ StoreStep(r) \/ Refresh(r) \/ Create(r)

Step(r) ==
    \/ BeginRead(r) \/ BeginOnRow(r) \/ BeginCreate(r)
    \/ Handle(r) \/ Respond(r) \/ Cancel(r)

Init ==
    /\ podman = [p \in Pods |-> "unborn"]
    /\ podmanC = [c \in Containers |-> "unborn"]
    /\ pods = [p \in PodIds |-> NoAgent]
    /\ containers = [c \in ContainerIds |-> NoAgent]
    /\ samples = {}
    /\ secrets = {}
    /\ online = {}
    /\ pc = [r \in Requests |-> "idle"]
    /\ kind = [r \in Requests |-> "list"]
    /\ agent = [r \in Requests |-> NoAgent]
    /\ target = [r \in Requests |-> NoPod]
    /\ live = [r \in Requests |-> FALSE]
    /\ todoP = [r \in Requests |-> {}]
    /\ todoC = [r \in Requests |-> {}]
    /\ index = [r \in Requests |-> {}]
    /\ todoS = [r \in Requests |-> {}]
    /\ fresh = [r \in Requests |-> {}]
    /\ freshS = [r \in Requests |-> {}]
    /\ base = [r \in Requests |-> {}]
    /\ dead = [r \in Requests |-> {}]
    /\ deadC = [r \in Requests |-> {}]
    /\ alone = [r \in Requests |-> FALSE]

Next == Podman \/ \E r \in Requests : Step(r)

Spec == Init /\ [][Next]_vars

-----------------------------------------------------------------------------
(* Correctness. *)

Targets == PodIds \cup Containers \cup Names \cup {NoPod}

(* The variables keep their types: tables, requests and their listings. *)
TypeOK ==
    /\ podman \in [Pods -> Lives]
    /\ podmanC \in [Containers -> Lives]
    /\ pods \in [PodIds -> Agents \cup {NoAgent}]
    /\ containers \in [ContainerIds -> Agents \cup {NoAgent}]
    /\ samples \subseteq [container : ContainerIds, pod : PodIds \cup {NoPod}]
    /\ secrets \subseteq PodIds
    /\ online \subseteq Agents
    /\ pc \in [Requests -> Steps]
    /\ kind \in [Requests -> Kinds]
    /\ agent \in [Requests -> Agents \cup {NoAgent}]
    /\ target \in [Requests -> Targets]
    /\ live \in [Requests -> BOOLEAN]
    /\ todoP \in [Requests -> SUBSET Pods]
    /\ todoC \in [Requests -> SUBSET Containers]
    /\ index \in [Requests -> SUBSET Containers]
    /\ todoS \in [Requests -> SUBSET Containers]
    /\ fresh \in [Requests -> SUBSET PodIds]
    /\ freshS \in [Requests -> SUBSET ContainerIds]
    /\ base \in [Requests -> SUBSET Pods]
    /\ dead \in [Requests -> SUBSET Pods]
    /\ deadC \in [Requests -> SUBSET Containers]
    /\ alone \in [Requests -> BOOLEAN]

(* No row refers to a missing row, whatever the order in which refreshes,  *)
(* deletes and creates interleave (the foreign keys of 001_initial.sql).   *)
ReferencesResolve ==
    /\ \A c \in ContainerIds : ContainerRow(c) => ContainerAllowed(c)
    /\ \A s \in samples : SampleAllowed(s.container, s.pod)
    /\ \A p \in secrets : PodRow(p)

(* handleDeletePod: "deleted" is answered only once Podman no longer runs  *)
(* the pod, although the agent is asked after the row was read and the row *)
(* may have changed hands, gone or come back meanwhile.  It needs one      *)
(* agent per host, and no fallback (which answers without the agent).      *)
DeletedPodIsGone ==
    OneAgentPerHost /\ ~AllowSnapshotFallback =>
      \A r \in Requests :
        pc[r] = "respond" /\ kind[r] = "delete" /\ target[r] \in Pods =>
          podman[target[r]] = "removed"

(* handleListPods: a pod that ran from before freshAfter until the answer  *)
(* is in the answer, whatever other requests did meanwhile.  It needs one  *)
(* agent per host, and no fallback (which deletes rows of running pods).   *)
LiveListComplete ==
    OneAgentPerHost /\ ~AllowSnapshotFallback =>
      \A r \in Requests :
        pc[r] = "respond" /\ kind[r] = "list" /\ live[r] =>
          base[r] \cap AlivePods(HostOf[agent[r]]) \subseteq LivePods(r)

(* handleListPods: no pod that was gone before freshAfter, and no          *)
(* placeholder, is called live, unless another request overlapped.         *)
LiveListSoundWhenAlone ==
    \A r \in Requests :
      pc[r] = "respond" /\ kind[r] = "list" /\ live[r] /\ alone[r] =>
        LivePods(r) \subseteq Pods \ dead[r]

(* handleCurrentStats: no container that was gone before freshAfter is     *)
(* reported with current usage, unless another request overlapped.         *)
LiveStatsSoundWhenAlone ==
    \A r \in Requests :
      pc[r] = "respond" /\ kind[r] = "stats" /\ live[r] /\ alone[r] =>
        LiveStats(r) \cap deadC[r] = {}

(* docs/troubleshooting.md: "PoDorel filters out old samples from previous *)
(* refreshes instead of showing stale CPU or memory as current."           *)
NoStaleStats ==
    \A r \in Requests :
      pc[r] = "respond" /\ kind[r] = "stats" /\ live[r] =>
        LiveStats(r) \cap deadC[r] = {}

(* podByNameObservedAfter: after a successful create and refresh, a pod of *)
(* that name that still runs is always found, so no placeholder is stored  *)
(* for it; and without overlap the pod found is not an earlier namesake.   *)
CreatedPodIsFound ==
    OneAgentPerHost /\ ~AllowSnapshotFallback =>
      \A r \in Requests : pc[r] = "lookup" =>
        /\ {p \in base[r] \cap AlivePods(HostOf[agent[r]]) : NameOf[p] = target[r]}
             \subseteq Candidates(r)
        /\ alone[r] => Candidates(r) \cap dead[r] = {}

(* The row of a pod Podman has removed comes back only through a refresh   *)
(* that began before the removal: once those end, a deleted row stays      *)
(* deleted.                                                                *)
ResurrectedOnlyByOverlap ==
    [][\A p \in Pods :
         podman[p] = "removed" /\ pods[p] = NoAgent /\ pods'[p] # NoAgent =>
           \E r \in Requests : p \in todoP[r] \ dead[r]]_vars

=============================================================================
