--------------------------- MODULE SnapshotsProofs ---------------------------
(***************************************************************************)
(* Proofs about Snapshots, for every set of agents, pods, containers,      *)
(* names and requests, and in both settings of AllowSnapshotFallback.      *)
(***************************************************************************)
EXTENDS Snapshots, TLAPS

CreateSteps == {"dropPlaceholder", "lookup", "placeholder", "placeholderMain"}

(* What a request in flight is about: its kind decides what its target is  *)
(* and which steps it can be at.                                           *)
RequestOK(r) ==
    /\ Active(r) => agent[r] \in Agents
    /\ kind[r] \in {"action", "delete"} => target[r] \in PodIds
    /\ kind[r] = "deleteContainer" => target[r] \in ContainerIds
    /\ kind[r] = "create" => target[r] \in Names
    /\ kind[r] = "secret" => target[r] \in PodIds \cup {NoPod}
    /\ pc[r] \in CreateSteps => kind[r] = "create"

RequestsOK == \A r \in Requests : RequestOK(r)

TypeInv == TypeOK /\ RequestsOK

LEMMA InitType == Init => TypeInv
  BY ConstantsAssumption DEF Init, TypeInv, TypeOK, RequestsOK, RequestOK, Active,
     Lives, Steps, RefreshSteps, CreateSteps, Kinds, Targets, PodIds, ContainerIds

LEMMA PodmanType == TypeInv /\ Podman => TypeInv'
<1> SUFFICES ASSUME TypeInv, Podman PROVE TypeInv'
  OBVIOUS
<1>1. podman' \in [Pods -> Lives] /\ podmanC' \in [Containers -> Lives]
  BY DEF TypeInv, TypeOK, Podman, CreatePod, RemovePod, CreateContainer,
         RemoveContainer, Lives
<1>2. UNCHANGED <<rowVars, requestVars, freshVars, historyVars>>
  BY DEF Podman
<1> QED
  BY <1>1, <1>2 DEF TypeInv, TypeOK, RequestsOK, RequestOK, Active, rowVars,
     requestVars, callVars, refreshVars, freshVars, historyVars

LEMMA EndRequestType ==
  ASSUME TypeInv, NEW r \in Requests, EndRequest(r)
  PROVE  /\ pc' \in [Requests -> Steps]
         /\ kind' \in [Requests -> Kinds]
         /\ agent' \in [Requests -> Agents \cup {NoAgent}]
         /\ target' \in [Requests -> Targets]
         /\ live' \in [Requests -> BOOLEAN]
         /\ todoP' \in [Requests -> SUBSET Pods]
         /\ todoC' \in [Requests -> SUBSET Containers]
         /\ index' \in [Requests -> SUBSET Containers]
         /\ todoS' \in [Requests -> SUBSET Containers]
         /\ fresh' \in [Requests -> SUBSET PodIds]
         /\ freshS' \in [Requests -> SUBSET ContainerIds]
         /\ base' \in [Requests -> SUBSET Pods]
         /\ dead' \in [Requests -> SUBSET Pods]
         /\ deadC' \in [Requests -> SUBSET Containers]
         /\ alone' \in [Requests -> BOOLEAN]
         /\ RequestsOK'
<1>1. "idle" \in Steps /\ "list" \in Kinds /\ NoPod \in Targets
  BY DEF Steps, Kinds, Targets
<1>2. RequestsOK'
  BY <1>1 DEF TypeInv, TypeOK, RequestsOK, RequestOK, EndRequest, Active, CreateSteps
<1> QED
  BY <1>1, <1>2 DEF TypeInv, TypeOK, EndRequest


LEMMA ClosingType ==
  ASSUME TypeInv, NEW r \in Requests, Respond(r) \/ Cancel(r)
  PROVE  TypeInv'
<1>1. EndRequest(r) /\ UNCHANGED <<podmanVars, rowVars>>
  BY DEF Respond, Cancel
<1> QED
  BY <1>1, EndRequestType DEF TypeInv, TypeOK, podmanVars, rowVars

LEMMA BeginType ==
  ASSUME TypeInv, NEW r \in Requests, BeginRead(r) \/ BeginOnRow(r) \/ BeginCreate(r)
  PROVE  TypeInv'
<1>1. PICK k \in Kinds, a \in Agents, t \in Targets, step \in {"listPods", "agentCall"} :
        /\ Begin(r, k, a, t, step)
        /\ k \in {"action", "delete"} => t \in PodIds
        /\ k = "deleteContainer" => t \in ContainerIds
        /\ k = "create" => t \in Names
        /\ k = "secret" => t \in PodIds \cup {NoPod}
  <2>1. CASE BeginRead(r)
    BY <2>1 DEF BeginRead, Kinds, Targets
  <2>2. CASE BeginOnRow(r)
    BY <2>2 DEF BeginOnRow, Kinds, Targets, TypeInv, TypeOK, PodRow, ContainerRow,
                ContainerIds, PodIds
  <2>3. CASE BeginCreate(r)
    BY <2>3 DEF BeginCreate, Kinds, Targets
  <2> QED
    BY <2>1, <2>2, <2>3
<1>2. /\ AlivePods(HostOf[a]) \subseteq Pods
      /\ Removed \subseteq Pods
      /\ RemovedContainers \subseteq Containers
  BY DEF AlivePods, Removed, RemovedContainers
<1>3. TypeOK'
  BY <1>1, <1>2 DEF Begin, TypeInv, TypeOK, podmanVars, rowVars, refreshVars,
     freshVars, Steps, RefreshSteps, Active
<1>4. RequestsOK'
  BY <1>1 DEF Begin, TypeInv, TypeOK, RequestsOK, RequestOK, Active, CreateSteps
<1> QED
  BY <1>3, <1>4 DEF TypeInv

(* Moving one request to a step of its kind keeps what requests are about. *)
LEMMA GotoType ==
  ASSUME TypeInv, NEW r \in Requests, NEW step \in Steps, Goto(r, step),
         Active(r), step \in CreateSteps => kind[r] = "create"
  PROVE  /\ pc' \in [Requests -> Steps]
         /\ kind' \in [Requests -> Kinds]
         /\ agent' \in [Requests -> Agents \cup {NoAgent}]
         /\ target' \in [Requests -> Targets]
         /\ live' \in [Requests -> BOOLEAN]
         /\ RequestsOK'
  BY DEF Goto, TypeInv, TypeOK, RequestsOK, RequestOK, Active, CreateSteps, callVars

LEMMA StampType ==
  ASSUME TypeInv, NEW p \in PodIds
  PROVE  Stamp(p) \in [Requests -> SUBSET PodIds]
  BY DEF Stamp, TypeInv, TypeOK

LEMMA StampSampleType ==
  ASSUME TypeInv, NEW c \in ContainerIds
  PROVE  StampSample(c) \in [Requests -> SUBSET ContainerIds]
  BY DEF StampSample, TypeInv, TypeOK

LEMMA EffectType ==
  ASSUME TypeInv, NEW r \in Requests, Effect(r) \/ UNCHANGED podmanVars
  PROVE  podman' \in [Pods -> Lives] /\ podmanC' \in [Containers -> Lives]
  BY DEF Effect, TypeInv, TypeOK, CreatePod, RemovePod, RemoveContainer, Lives,
         podmanVars, AlivePods, AliveContainers

LEMMA AgentCallType ==
  ASSUME TypeInv, NEW r \in Requests, AgentCall(r)
  PROVE  TypeInv'
<1>1. podman' \in [Pods -> Lives] /\ podmanC' \in [Containers -> Lives]
  BY EffectType DEF AgentCall
<1>2. UNCHANGED rowVars
  BY DEF AgentCall
<1>3. CASE EndRequest(r)
  BY <1>1, <1>2, <1>3, EndRequestType DEF TypeInv, TypeOK, rowVars
<1>4. ASSUME NEW ok \in BOOLEAN, Goto(r, AfterCall(kind[r], ok)),
             UNCHANGED <<refreshVars, freshVars, historyVars>>
      PROVE  TypeInv'
  <2>1. /\ AfterCall(kind[r], ok) \in Steps
        /\ AfterCall(kind[r], ok) \in CreateSteps => kind[r] = "create"
    BY DEF AfterCall, Steps, RefreshSteps, CreateSteps
  <2>2. Active(r)
    BY DEF AgentCall, Active
  <2> QED
    BY <1>1, <1>2, <1>4, <2>1, <2>2, GotoType
       DEF TypeInv, TypeOK, rowVars, refreshVars, freshVars, historyVars
<1> QED
  BY <1>3, <1>4 DEF AgentCall

LEMMA StoreStepType ==
  ASSUME TypeInv, NEW r \in Requests, StoreStep(r)
  PROVE  TypeInv'
<1> USE DEF podmanVars, rowVars, refreshVars, freshVars, historyVars
<1>1. /\ Active(r) /\ kind[r] \in Kinds /\ "respond" \in Steps
      /\ "respond" \notin CreateSteps
  BY DEF StoreStep, Active, TypeInv, TypeOK, Steps, CreateSteps
<1>2. podman' = podman /\ podmanC' = podmanC
  BY DEF StoreStep
<1>3. CASE UpdatePodState(r)
  <2>1. fresh' \in [Requests -> SUBSET PodIds]
    BY <1>3, StampType DEF UpdatePodState, TypeInv, TypeOK, RequestsOK, RequestOK
  <2> QED
    BY <1>1, <1>2, <1>3, <2>1, GotoType DEF UpdatePodState, TypeInv, TypeOK
<1>4. CASE DeleteRow(r)
  <2>1. /\ pods' \in [PodIds -> Agents \cup {NoAgent}]
        /\ containers' \in [ContainerIds -> Agents \cup {NoAgent}]
        /\ samples' \subseteq samples
        /\ UNCHANGED <<secrets, online>>
    BY <1>4 DEF DeleteRow, DeletePod, DeleteContainer, TypeInv, TypeOK
  <2> QED
    BY <1>1, <1>2, <1>4, <2>1, GotoType DEF DeleteRow, TypeInv, TypeOK
<1>5. CASE CreateSecretMetadata(r)
  <2>1. secrets' \subseteq PodIds
    BY <1>5 DEF CreateSecretMetadata, TypeInv, TypeOK, RequestsOK, RequestOK
  <2> QED
    BY <1>1, <1>2, <1>5, <2>1, GotoType DEF CreateSecretMetadata, TypeInv, TypeOK
<1>6. CASE EndRequest(r) /\ UNCHANGED rowVars
  BY <1>2, <1>6, EndRequestType DEF TypeInv, TypeOK
<1> QED
  BY <1>3, <1>4, <1>5, <1>6 DEF StoreStep

(* A refresh that fails ends its request or moves it on. *)
LEMMA RefreshFailedType ==
  ASSUME TypeInv, NEW r \in Requests, Active(r), RefreshFailed(r),
         UNCHANGED <<podmanVars, rowVars>>
  PROVE  TypeInv'
<1> USE DEF podmanVars, rowVars, callVars, refreshVars, freshVars, historyVars
<1>1. CASE EndRequest(r)
  BY <1>1, EndRequestType DEF TypeInv, TypeOK
<1>2. CASE ~EndRequest(r)
  <2>1. RequestsOK'
    BY <1>2 DEF RefreshFailed, TypeInv, TypeOK, RequestsOK, RequestOK, Active, CreateSteps
  <2> QED
    BY <1>2, <2>1 DEF RefreshFailed, TypeInv, TypeOK, Steps
<1> QED
  BY <1>1, <1>2

LEMMA RefreshType ==
  ASSUME TypeInv, NEW r \in Requests, Refresh(r)
  PROVE  TypeInv'
<1> USE DEF podmanVars, rowVars, callVars, refreshVars, freshVars, historyVars
<1>0. Active(r)
  BY DEF Refresh, Active, RefreshListPods, RefreshListContainers, RefreshInsertPod,
     RefreshInsertContainer, RefreshStats, RefreshInsertSample, RefreshComplete,
     AgentUnavailable
<1>1. CASE RefreshListPods(r)
  <2>1. agent[r] \in Agents /\ AlivePods(HostOf[agent[r]]) \subseteq Pods
    BY <1>0 DEF TypeInv, RequestsOK, RequestOK, AlivePods
  <2> QED
    BY <1>0, <1>1, <2>1, GotoType DEF RefreshListPods, TypeInv, TypeOK, Steps,
       RefreshSteps, CreateSteps
<1>2. CASE RefreshListContainers(r)
  <2>1. AliveContainers(HostOf[agent[r]]) \subseteq Containers
    BY DEF AliveContainers
  <2> QED
    BY <1>0, <1>2, <2>1, GotoType DEF RefreshListContainers, TypeInv, TypeOK, Steps,
       RefreshSteps, CreateSteps
<1>3. CASE RefreshInsertPod(r)
  <2>1. PICK p \in todoP[r] : InsertPod(p, agent[r])
                            /\ todoP' = [todoP EXCEPT ![r] = @ \ {p}]
    BY <1>3 DEF RefreshInsertPod
  <2>2. p \in PodIds /\ agent[r] \in Agents
    BY <1>0 DEF TypeInv, TypeOK, RequestsOK, RequestOK, PodIds
  <2>3. fresh' \in [Requests -> SUBSET PodIds]
    BY <2>1, <2>2, StampType DEF InsertPod
  <2> QED
    BY <1>3, <2>1, <2>2, <2>3 DEF RefreshInsertPod, InsertPod, TypeInv, TypeOK,
       RequestsOK, RequestOK, Active
<1>4. CASE RefreshInsertContainer(r)
  <2>1. PICK c \in todoC[r] :
          \/ /\ InsertContainer(c, agent[r])
             /\ todoC' = [todoC EXCEPT ![r] = @ \ {c}]
             /\ UNCHANGED <<pc, live, callVars, todoP, index, todoS, historyVars>>
          \/ RefreshFailed(r) /\ UNCHANGED rowVars
    BY <1>4 DEF RefreshInsertContainer
  <2>2. UNCHANGED podmanVars /\ agent[r] \in Agents
    BY <1>0, <1>4 DEF RefreshInsertContainer, TypeInv, RequestsOK, RequestOK
  <2>3. CASE RefreshFailed(r) /\ UNCHANGED rowVars
    BY <1>0, <2>2, <2>3, RefreshFailedType
  <2>4. CASE InsertContainer(c, agent[r])
             /\ todoC' = [todoC EXCEPT ![r] = @ \ {c}]
             /\ UNCHANGED <<pc, live, callVars, todoP, index, todoS, historyVars>>
    BY <2>2, <2>4 DEF InsertContainer, TypeInv, TypeOK, RequestsOK, RequestOK, Active
  <2> QED
    BY <2>1, <2>3, <2>4
<1>5. CASE RefreshStats(r)
  <2>1. todoS' \in [Requests -> SUBSET Containers]
    BY <1>5 DEF RefreshStats, AliveContainers, TypeInv, TypeOK
  <2> QED
    BY <1>0, <1>5, <2>1, GotoType DEF RefreshStats, TypeInv, TypeOK, Steps,
       RefreshSteps, CreateSteps
<1>6. CASE RefreshInsertSample(r)
  <2>1. PICK c \in todoS[r], full \in BOOLEAN : \E p \in ResolvedPods(r, c) :
          \/ /\ InsertResourceSample(c, p)
             /\ todoS' = [todoS EXCEPT ![r] = @ \ {c}]
             /\ UNCHANGED <<pc, live, callVars, todoP, todoC, index, historyVars>>
          \/ RefreshFailed(r) /\ UNCHANGED rowVars
    BY <1>6 DEF RefreshInsertSample
  <2>2. /\ UNCHANGED podmanVars /\ c \in Containers /\ c \in ContainerIds
        /\ ResolvedPods(r, c) \subseteq PodIds \cup {NoPod}
    BY <1>6, ConstantsAssumption DEF RefreshInsertSample, ResolvedPods, TypeInv, TypeOK,
       ContainerIds, PodIds
  <2>3. CASE RefreshFailed(r) /\ UNCHANGED rowVars
    BY <1>0, <2>2, <2>3, RefreshFailedType
  <2>4. ASSUME NEW p \in ResolvedPods(r, c), InsertResourceSample(c, p),
               todoS' = [todoS EXCEPT ![r] = @ \ {c}],
               UNCHANGED <<pc, live, callVars, todoP, todoC, index, historyVars>>
        PROVE  TypeInv'
    <3>1. freshS' \in [Requests -> SUBSET ContainerIds]
      BY <2>2, <2>4, StampSampleType DEF InsertResourceSample
    <3>2. [container |-> c, pod |-> p] \in [container : ContainerIds, pod : PodIds \cup {NoPod}]
      BY <2>2
    <3> QED
      BY <2>2, <2>4, <3>1, <3>2 DEF InsertResourceSample, TypeInv, TypeOK, RequestsOK,
         RequestOK, Active
  <2> QED
    BY <2>1, <2>3, <2>4
<1>7. CASE RefreshComplete(r)
  BY <1>0, <1>7 DEF RefreshComplete, RefreshDone, TypeInv, TypeOK, RequestsOK, RequestOK,
     Active, Steps, CreateSteps
<1>8. CASE AgentUnavailable(r)
  BY <1>0, <1>8, RefreshFailedType DEF AgentUnavailable
<1> QED
  BY <1>1, <1>2, <1>3, <1>4, <1>5, <1>6, <1>7, <1>8 DEF Refresh

LEMMA CreateType ==
  ASSUME TypeInv, NEW r \in Requests, Create(r)
  PROVE  TypeInv'
<1> USE DEF podmanVars, rowVars, callVars, refreshVars, freshVars, historyVars
<1>0. /\ Active(r) /\ kind[r] = "create" /\ agent[r] \in Agents
      /\ PlaceholderOf[target[r]] \in PodIds /\ PlaceholderOf[target[r]] \in ContainerIds
  <2>1. pc[r] \in CreateSteps /\ Active(r)
    BY DEF Create, DropPlaceholder, LookupCreated, InsertPlaceholder,
       InsertPlaceholderMain, CreateSteps, Active
  <2> QED
    BY <2>1, ConstantsAssumption DEF TypeInv, RequestsOK, RequestOK, PodIds, ContainerIds
<1>1. CASE DropPlaceholder(r)
  <2>1. /\ pods' \in [PodIds -> Agents \cup {NoAgent}]
        /\ containers' \in [ContainerIds -> Agents \cup {NoAgent}]
        /\ samples' \subseteq samples
        /\ UNCHANGED <<secrets, online>>
    BY <1>1 DEF DropPlaceholder, DeletePod, TypeInv, TypeOK
  <2>2. /\ AlivePods(HostOf[agent[r]]) \subseteq Pods
        /\ Removed \subseteq Pods
        /\ RemovedContainers \subseteq Containers
    BY DEF AlivePods, Removed, RemovedContainers
  <2> QED
    BY <1>0, <1>1, <2>1, <2>2, GotoType DEF DropPlaceholder, TypeInv, TypeOK, Steps,
       RefreshSteps, CreateSteps
<1>2. CASE LookupCreated(r)
  BY <1>0, <1>2, GotoType DEF LookupCreated, TypeInv, TypeOK, Steps
<1>3. CASE InsertPlaceholder(r)
  <2>1. fresh' \in [Requests -> SUBSET PodIds]
    BY <1>0, <1>3, StampType DEF InsertPlaceholder, InsertPod
  <2> QED
    BY <1>0, <1>3, <2>1, GotoType DEF InsertPlaceholder, InsertPod, TypeInv, TypeOK, Steps
<1>4. CASE InsertPlaceholderMain(r)
  <2>1. CASE EndRequest(r) /\ UNCHANGED rowVars
    BY <1>4, <2>1, EndRequestType DEF InsertPlaceholderMain, TypeInv, TypeOK
  <2>2. CASE ~(EndRequest(r) /\ UNCHANGED rowVars)
    BY <1>0, <1>4, <2>2, GotoType DEF InsertPlaceholderMain, InsertContainer, TypeInv,
       TypeOK, Steps, CreateSteps
  <2> QED
    BY <2>1, <2>2
<1> QED
  BY <1>1, <1>2, <1>3, <1>4 DEF Create

LEMMA StepType == TypeInv /\ [Next]_vars => TypeInv'
<1> SUFFICES ASSUME TypeInv, [Next]_vars PROVE TypeInv'
  OBVIOUS
<1>1. CASE Podman
  BY <1>1, PodmanType
<1>2. ASSUME NEW r \in Requests, Step(r) PROVE TypeInv'
  BY <1>2, BeginType, AgentCallType, StoreStepType, RefreshType, CreateType, ClosingType
     DEF Step, Handle
<1>3. CASE UNCHANGED vars
  BY <1>3 DEF vars, podmanVars, rowVars, requestVars, callVars, refreshVars, freshVars,
     historyVars, TypeInv, TypeOK, RequestsOK, RequestOK, Active
<1> QED
  BY <1>1, <1>2, <1>3 DEF Next

(* The tables, the requests and their listings keep their types, whatever  *)
(* the handlers of store.go, resources.go and agent_proxy.go interleave.   *)
THEOREM TypeCorrect == Spec => []TypeOK
<1>1. Spec => []TypeInv
  BY InitType, StepType, PTL DEF Spec
<1>2. TypeInv => TypeOK
  BY DEF TypeInv
<1> QED
  BY <1>1, <1>2, PTL

-----------------------------------------------------------------------------
(* References between rows: one lemma per statement of the store. *)

LEMMA RowPodType ==
  ASSUME NEW c \in ContainerIds PROVE RowPod(c) \in PodIds \cup {NoPod}
  BY ConstantsAssumption DEF RowPod, ContainerIds, PodIds

LEMMA InsertPodRefs ==
  ASSUME TypeOK, ReferencesResolve, NEW p \in PodIds, NEW a \in Agents, InsertPod(p, a)
  PROVE  ReferencesResolve'
  BY ConstantsAssumption, RowPodType DEF InsertPod, ReferencesResolve, ContainerRow,
     ContainerAllowed, SampleAllowed, PodRow, TypeOK

LEMMA InsertContainerRefs ==
  ASSUME TypeOK, ReferencesResolve, NEW c \in ContainerIds, NEW a \in Agents,
         InsertContainer(c, a)
  PROVE  ReferencesResolve'
  BY ConstantsAssumption, RowPodType DEF InsertContainer, ReferencesResolve, ContainerRow,
     ContainerAllowed, SampleAllowed, PodRow, TypeOK

LEMMA InsertSampleRefs ==
  ASSUME TypeOK, ReferencesResolve, NEW c \in ContainerIds, NEW p,
         InsertResourceSample(c, p)
  PROVE  ReferencesResolve'
  BY DEF InsertResourceSample, ReferencesResolve, ContainerRow, ContainerAllowed,
     SampleAllowed, PodRow

LEMMA DeletePodRefs ==
  ASSUME TypeOK, ReferencesResolve, NEW p, DeletePod(p)
  PROVE  ReferencesResolve'
<1>1. ASSUME NEW c \in ContainerIds, ContainerRow(c)' PROVE ContainerAllowed(c)'
  <2>1. ContainerRow(c) /\ RowPod(c) # p
    BY <1>1 DEF DeletePod, ContainerRow, ContainersUnder
  <2>2. RowPod(c) # NoPod => PodRow(RowPod(c))'
    BY <2>1, RowPodType DEF DeletePod, ReferencesResolve, ContainerAllowed, PodRow, TypeOK
  <2> QED
    BY <2>2 DEF ContainerAllowed
<1>2. ASSUME NEW s \in samples' PROVE SampleAllowed(s.container, s.pod)'
  <2>1. /\ s \in samples /\ SampleAllowed(s.container, s.pod)
        /\ s.pod # p /\ s.container \notin ContainersUnder(p)
        /\ s.container \in ContainerIds /\ s.pod \in PodIds \cup {NoPod}
    BY <1>2 DEF DeletePod, SamplesUnder, ReferencesResolve, TypeOK
  <2> QED
    BY <2>1 DEF DeletePod, SampleAllowed, ContainerRow, PodRow, TypeOK
<1>3. ASSUME NEW q \in secrets' PROVE PodRow(q)'
  BY <1>3 DEF DeletePod, DeletePodBlocked, ReferencesResolve, PodRow, TypeOK
<1> QED
  BY <1>1, <1>2, <1>3 DEF ReferencesResolve

LEMMA DeleteContainerRefs ==
  ASSUME TypeOK, ReferencesResolve, NEW c, DeleteContainer(c)
  PROVE  ReferencesResolve'
<1>1. ASSUME NEW d \in ContainerIds, ContainerRow(d)' PROVE ContainerAllowed(d)'
  BY <1>1 DEF DeleteContainer, ReferencesResolve, ContainerRow, ContainerAllowed, PodRow,
     TypeOK
<1>2. ASSUME NEW s \in samples' PROVE SampleAllowed(s.container, s.pod)'
  <2>1. /\ s.container # c /\ s.container \in ContainerIds
        /\ SampleAllowed(s.container, s.pod)
    BY <1>2 DEF DeleteContainer, SamplesOf, ReferencesResolve, TypeOK
  <2> QED
    BY <2>1 DEF DeleteContainer, SampleAllowed, ContainerRow, PodRow, TypeOK
<1>3. ASSUME NEW q \in secrets' PROVE PodRow(q)'
  BY <1>3 DEF DeleteContainer, ReferencesResolve, PodRow
<1> QED
  BY <1>1, <1>2, <1>3 DEF ReferencesResolve

LEMMA QuietRefs ==
  ASSUME ReferencesResolve, UNCHANGED <<pods, containers, samples, secrets>>
  PROVE  ReferencesResolve'
  BY DEF ReferencesResolve, ContainerRow, ContainerAllowed, SampleAllowed, PodRow

LEMMA StoreStepRefs ==
  ASSUME TypeInv, ReferencesResolve, NEW r \in Requests, StoreStep(r)
  PROVE  ReferencesResolve'
<1>1. CASE UpdatePodState(r) \/ UNCHANGED rowVars
  BY <1>1, QuietRefs DEF UpdatePodState, rowVars
<1>2. CASE DeleteRow(r)
  <2>1. PICK t : t = target[r]
    OBVIOUS
  <2>2. DeletePod(t) \/ DeleteContainer(t)
    BY <1>2, <2>1 DEF DeleteRow
  <2> QED
    BY <2>2, DeletePodRefs, DeleteContainerRefs DEF TypeInv
<1>3. CASE CreateSecretMetadata(r)
  BY <1>3 DEF CreateSecretMetadata, ReferencesResolve, ContainerRow, ContainerAllowed,
     SampleAllowed, PodRow
<1> QED
  BY <1>1, <1>2, <1>3 DEF StoreStep

LEMMA RefreshRefs ==
  ASSUME TypeInv, ReferencesResolve, NEW r \in Requests, Refresh(r)
  PROVE  ReferencesResolve'
<1>1. CASE UNCHANGED <<pods, containers, samples, secrets>>
  BY <1>1, QuietRefs
<1>2. CASE RefreshInsertPod(r)
  <2>0. PICK a : a = agent[r]
    OBVIOUS
  <2>1. PICK p \in todoP[r] : InsertPod(p, a)
    BY <1>2, <2>0 DEF RefreshInsertPod
  <2>2. p \in PodIds /\ a \in Agents
    BY <1>2, <2>0, <2>1 DEF RefreshInsertPod, TypeInv, TypeOK, RequestsOK, RequestOK, Active, PodIds
  <2> QED
    BY <2>1, <2>2, InsertPodRefs DEF TypeInv
<1>3. CASE RefreshInsertContainer(r) /\ ~UNCHANGED rowVars
  <2>0. PICK a : a = agent[r]
    OBVIOUS
  <2>1. PICK c \in todoC[r] : InsertContainer(c, a)
    BY <1>3, <2>0 DEF RefreshInsertContainer
  <2>2. c \in ContainerIds /\ a \in Agents
    BY <1>3, <2>0, <2>1 DEF RefreshInsertContainer, TypeInv, TypeOK, RequestsOK, RequestOK, Active,
       ContainerIds
  <2> QED
    BY <2>1, <2>2, InsertContainerRefs DEF TypeInv
<1>4. CASE RefreshInsertSample(r) /\ ~UNCHANGED rowVars
  <2>1. PICK c \in todoS[r] : \E p : InsertResourceSample(c, p)
    BY <1>4 DEF RefreshInsertSample
  <2>2. c \in ContainerIds
    BY <2>1 DEF TypeInv, TypeOK, ContainerIds
  <2> QED
    BY <2>1, <2>2, InsertSampleRefs DEF TypeInv
<1> QED
  BY <1>1, <1>2, <1>3, <1>4 DEF Refresh, RefreshListPods, RefreshListContainers,
     RefreshStats, RefreshComplete, AgentUnavailable, rowVars

LEMMA CreateRefs ==
  ASSUME TypeInv, ReferencesResolve, NEW r \in Requests, Create(r)
  PROVE  ReferencesResolve'
<1>1. CASE UNCHANGED rowVars
  BY <1>1, QuietRefs DEF rowVars
<1>2. PICK t, a : t = PlaceholderOf[target[r]] /\ a = agent[r]
  OBVIOUS
<1>3. CASE DropPlaceholder(r) /\ ~UNCHANGED rowVars
  BY <1>2, <1>3, DeletePodRefs DEF DropPlaceholder, TypeInv
<1>4. pc[r] \in CreateSteps => t \in PodIds /\ t \in ContainerIds /\ a \in Agents
  BY <1>2, ConstantsAssumption DEF TypeInv, TypeOK, RequestsOK, RequestOK, Active,
     CreateSteps, PodIds, ContainerIds
<1>5. CASE InsertPlaceholder(r)
  BY <1>2, <1>4, <1>5, InsertPodRefs DEF InsertPlaceholder, CreateSteps, TypeInv
<1>6. CASE InsertPlaceholderMain(r) /\ ~UNCHANGED rowVars
  BY <1>2, <1>4, <1>6, InsertContainerRefs DEF InsertPlaceholderMain, CreateSteps, TypeInv
<1> QED
  BY <1>1, <1>3, <1>5, <1>6 DEF Create, LookupCreated

LEMMA StepRefs == TypeInv /\ ReferencesResolve /\ [Next]_vars => ReferencesResolve'
<1> SUFFICES ASSUME TypeInv, ReferencesResolve, [Next]_vars PROVE ReferencesResolve'
  OBVIOUS
<1>1. CASE UNCHANGED rowVars
  BY <1>1, QuietRefs DEF rowVars
<1>2. CASE \E r \in Requests : StoreStep(r) \/ Refresh(r) \/ Create(r)
  BY <1>2, StoreStepRefs, RefreshRefs, CreateRefs
<1> QED
  BY <1>1, <1>2 DEF Next, Podman, vars, Step, BeginRead, BeginOnRow, BeginCreate, Begin,
     Handle, AgentCall, Respond, Cancel

(* SnapshotsDelete checks this on a small instance: no interleaving of     *)
(* refreshes, deletes and creates leaves a reference to a missing row.     *)
THEOREM ReferencesAlwaysResolve == Spec => []ReferencesResolve
<1>1. Init => ReferencesResolve
  BY DEF Init, ReferencesResolve, ContainerRow
<1>2. TypeInv /\ [Next]_vars => TypeInv'
  BY StepType
<1> QED
  BY <1>1, <1>2, InitType, StepRefs, PTL DEF Spec

-----------------------------------------------------------------------------
(* The pods a refresh copies into the store: what brings a deleted row back,*)
(* and that a live listing is complete.                                     *)
(*                                                                          *)
(* Each step belongs to one request or to Podman.  The lemmas called ...Env *)
(* say what a step leaves to the other requests, those called ...Own what it*)
(* does to its own.                                                         *)

(* A listing holds no pod that was gone when the request began, and is     *)
(* used up before the request asks for statistics.                         *)
Listing(r) ==
    /\ dead[r] \subseteq Removed
    /\ todoP[r] \cap dead[r] = {}
    /\ todoP[r] # {} => pc[r] \in {"listContainers", "insert"}

Listings == \A r \in Requests : Listing(r)

(* What any step leaves to a request q that is not its own.                *)
Spares(q) ==
    /\ pc'[q] = pc[q] /\ kind'[q] = kind[q] /\ agent'[q] = agent[q]
    /\ target'[q] = target[q] /\ live'[q] = live[q] /\ todoP'[q] = todoP[q]
    /\ base'[q] = base[q] /\ dead'[q] = dead[q]
    /\ fresh[q] \subseteq fresh'[q]

(* Lives only move on. *)
Ages ==
    \A p \in Pods :
      /\ podman[p] = "removed" => podman'[p] = "removed"
      /\ podman[p] # "unborn" => podman'[p] # "unborn"
      /\ podman[p] # "unborn" /\ podman'[p] = "alive" => podman[p] = "alive"

LEMMA AgesEnv == ASSUME TypeInv, [Next]_vars PROVE Ages
<1>1. CASE UNCHANGED podman
  BY <1>1 DEF Ages
<1>2. \/ UNCHANGED podman
      \/ \E p \in Pods : CreatePod(p) \/ RemovePod(p)
  BY DEF Next, Podman, CreateContainer, RemoveContainer, Step, BeginRead, BeginOnRow,
     BeginCreate, Begin, Handle, AgentCall, Effect, AlivePods, StoreStep, Refresh,
     RefreshListPods, RefreshListContainers, RefreshInsertPod, RefreshInsertContainer,
     RefreshStats, RefreshInsertSample, RefreshComplete, AgentUnavailable, Create,
     DropPlaceholder, LookupCreated, InsertPlaceholder, InsertPlaceholderMain, Respond,
     Cancel, vars, podmanVars
<1>3. ASSUME NEW p \in Pods, CreatePod(p) \/ RemovePod(p) PROVE Ages
  BY <1>3 DEF CreatePod, RemovePod, Ages, TypeInv, TypeOK
<1> QED
  BY <1>1, <1>2, <1>3

LEMMA StampEnv ==
  ASSUME TypeInv, NEW p, NEW q \in Requests
  PROVE  fresh[q] \subseteq Stamp(p)[q] /\ (Active(q) => p \in Stamp(p)[q])
  BY DEF Stamp

LEMMA SparesEnv ==
  ASSUME TypeInv, NEW r \in Requests, Step(r), NEW q \in Requests, q # r
  PROVE  Spares(q)
<1> USE DEF podmanVars, rowVars, callVars, refreshVars, freshVars, historyVars
<1>1. CASE BeginRead(r) \/ BeginOnRow(r) \/ BeginCreate(r)
  BY <1>1 DEF BeginRead, BeginOnRow, BeginCreate, Begin, Spares, TypeInv, TypeOK
<1>2. CASE EndRequest(r)
  BY <1>2 DEF EndRequest, Spares, TypeInv, TypeOK
<1>3. CASE AgentCall(r) /\ ~EndRequest(r)
  BY <1>3 DEF AgentCall, Goto, Spares, TypeInv, TypeOK
<1>4. CASE StoreStep(r) /\ ~EndRequest(r)
  BY <1>4, StampEnv DEF StoreStep, UpdatePodState, DeleteRow, CreateSecretMetadata, Goto,
     Spares, TypeInv, TypeOK
<1>5. CASE Refresh(r) /\ ~EndRequest(r)
  BY <1>5, StampEnv DEF Refresh, RefreshListPods, RefreshListContainers, RefreshInsertPod,
     RefreshInsertContainer, RefreshStats, RefreshInsertSample, RefreshComplete,
     RefreshDone, RefreshFailed, AgentUnavailable, InsertPod, InsertContainer,
     InsertResourceSample, Goto, Spares, TypeInv, TypeOK
<1>6. CASE Create(r) /\ ~EndRequest(r)
  BY <1>6, StampEnv DEF Create, DropPlaceholder, LookupCreated, InsertPlaceholder,
     InsertPlaceholderMain, InsertPod, InsertContainer, Goto, Spares, TypeInv, TypeOK
<1> QED
  BY <1>1, <1>2, <1>3, <1>4, <1>5, <1>6 DEF Step, Handle, Respond, Cancel

-----------------------------------------------------------------------------
(* What brings a row back. *)

LEMMA ListingOwn ==
  ASSUME TypeInv, NEW r \in Requests, Listing(r), Step(r)
  PROVE  Listing(r)'
<1> USE DEF podmanVars, rowVars, callVars, refreshVars, freshVars, historyVars
<1>0. Ages
  BY AgesEnv DEF Next
<1>a. dead'[r] = dead[r] => dead'[r] \subseteq Removed'
  BY <1>0 DEF Ages, Listing, Removed
<1>1. CASE BeginRead(r) \/ BeginOnRow(r) \/ BeginCreate(r)
  <2>1. pc[r] = "idle" /\ dead'[r] = Removed /\ todoP' = todoP /\ podman' = podman
    BY <1>1 DEF BeginRead, BeginOnRow, BeginCreate, Begin, TypeInv, TypeOK
  <2> QED
    BY <2>1 DEF Listing, Removed
<1>2. CASE EndRequest(r)
  BY <1>2 DEF EndRequest, Listing, TypeInv, TypeOK
<1>3. CASE AgentCall(r) /\ ~EndRequest(r)
  BY <1>3, <1>a DEF AgentCall, Goto, Listing, TypeInv, TypeOK
<1>4. CASE StoreStep(r) /\ ~EndRequest(r)
  BY <1>4, <1>a DEF StoreStep, UpdatePodState, DeleteRow, CreateSecretMetadata, Goto,
     Listing, TypeInv, TypeOK
<1>5. CASE RefreshListPods(r)
  BY <1>5, <1>a DEF RefreshListPods, Goto, Listing, TypeInv, TypeOK, AlivePods, Removed
<1>6. CASE RefreshListContainers(r) \/ RefreshInsertPod(r) \/ RefreshStats(r)
  BY <1>6, <1>a DEF RefreshListContainers, RefreshInsertPod, RefreshStats, Goto, Listing,
     TypeInv, TypeOK
<1>7. CASE /\ RefreshInsertContainer(r) \/ RefreshInsertSample(r)
           /\ ~RefreshFailed(r)
  BY <1>7, <1>a DEF RefreshInsertContainer, RefreshInsertSample, Listing, TypeInv, TypeOK
<1>8. CASE RefreshComplete(r)
  BY <1>8, <1>a DEF RefreshComplete, RefreshDone, Listing, TypeInv, TypeOK
<1>9. CASE RefreshFailed(r) /\ ~EndRequest(r)
  BY <1>9, <1>a DEF RefreshFailed, Listing, TypeInv, TypeOK
<1>10. CASE Create(r) /\ ~EndRequest(r)
  <2>1. CASE DropPlaceholder(r)
    BY <2>1 DEF DropPlaceholder, Goto, Listing, TypeInv, TypeOK, Removed
  <2> QED
    BY <1>10, <1>a, <2>1 DEF Create, LookupCreated, InsertPlaceholder,
       InsertPlaceholderMain, Goto, Listing, TypeInv, TypeOK
<1> QED
  BY <1>1, <1>2, <1>3, <1>4, <1>5, <1>6, <1>7, <1>8, <1>9, <1>10
     DEF Step, Handle, Respond, Cancel, Refresh, AgentUnavailable

LEMMA ListingEnv ==
  ASSUME TypeInv, NEW q \in Requests, Listing(q), Spares(q), Ages
  PROVE  Listing(q)'
  BY DEF Listing, Spares, Ages, Removed

LEMMA SparesPodman ==
  ASSUME TypeInv, Podman \/ UNCHANGED vars, NEW q \in Requests
  PROVE  Spares(q)
  BY DEF Podman, vars, requestVars, callVars, refreshVars, freshVars, historyVars, Spares

LEMMA ListingsStep == TypeInv /\ Listings /\ [Next]_vars => Listings'
<1> SUFFICES ASSUME TypeInv, Listings, [Next]_vars, NEW q \in Requests
             PROVE  Listing(q)'
  BY DEF Listings
<1>1. Listing(q) /\ Ages
  BY AgesEnv DEF Listings
<1>2. CASE Podman \/ UNCHANGED vars
  BY <1>1, <1>2, SparesPodman, ListingEnv
<1>3. CASE \E r \in Requests : Step(r)
  <2>1. PICK r \in Requests : Step(r)
    BY <1>3
  <2>2. CASE r = q
    BY <2>1, <2>2, <1>1, ListingOwn
  <2>3. CASE r # q
    BY <2>1, <2>3, <1>1, SparesEnv, ListingEnv
  <2> QED
    BY <2>2, <2>3
<1> QED
  BY <1>2, <1>3 DEF Next

(* A row appears or changes hands only where a refresh inserts it from its *)
(* listing, and goes only where a delete of that pod reaches the store.    *)
LEMMA PodsWritten ==
  ASSUME TypeInv, [Next]_vars, NEW p \in Pods, pods'[p] # pods[p]
  PROVE  \E r \in Requests :
           \/ pc[r] = "insert" /\ p \in todoP[r] /\ pods'[p] = agent[r]
           \/ /\ pc[r] = "store" /\ kind[r] = "delete" /\ target[r] = p
              /\ pods'[p] = NoAgent
<1> USE DEF rowVars
<1>1. CASE Podman \/ UNCHANGED vars
  BY <1>1 DEF Podman, vars
<1>2. CASE \E r \in Requests : Step(r)
  <2>1. PICK r \in Requests : Step(r)
    BY <1>2
  <2>2. CASE RefreshInsertPod(r)
    BY <2>2 DEF RefreshInsertPod, InsertPod, TypeInv, TypeOK, PodIds
  <2>3. PlaceholderOf[target[r]] # p \/ pc[r] \notin CreateSteps
    BY ConstantsAssumption DEF TypeInv, TypeOK, RequestsOK, RequestOK
  <2>4. CASE InsertPlaceholder(r)
    BY <2>3, <2>4 DEF InsertPlaceholder, InsertPod, CreateSteps, TypeInv, TypeOK, PodIds
  <2>5. CASE DropPlaceholder(r)
    BY <2>3, <2>5 DEF DropPlaceholder, DeletePod, CreateSteps, TypeInv, TypeOK, PodIds
  <2>6. CASE StoreStep(r)
    BY <2>6 DEF StoreStep, UpdatePodState, DeleteRow, DeletePod, DeleteContainer,
       CreateSecretMetadata, TypeInv, TypeOK, PodIds
  <2>7. CASE ~RefreshInsertPod(r) /\ ~InsertPlaceholder(r) /\ ~DropPlaceholder(r)
             /\ ~StoreStep(r)
    <3>1. pods' = pods
      BY <2>1, <2>7 DEF Step, BeginRead, BeginOnRow, BeginCreate, Begin, Handle, AgentCall,
         Refresh, RefreshListPods, RefreshListContainers, RefreshInsertContainer,
         RefreshStats, RefreshInsertSample, RefreshComplete, AgentUnavailable, Create,
         LookupCreated, InsertPlaceholderMain, InsertContainer, InsertResourceSample,
         Respond, Cancel
    <3> QED
      BY <3>1
  <2> QED
    BY <2>2, <2>4, <2>5, <2>6, <2>7
<1> QED
  BY <1>1, <1>2 DEF Next

(* SnapshotsPods checks this on a small instance: the row of a removed pod *)
(* is written again only by a refresh that began before the removal.       *)
THEOREM ResurrectionNeedsOverlap == Spec => ResurrectedOnlyByOverlap
<1>1. Init => TypeInv /\ Listings
  BY InitType DEF Init, Listings, Listing
<1>2. TypeInv /\ Listings /\ [Next]_vars => TypeInv' /\ Listings'
  BY StepType, ListingsStep
<1>3. ASSUME TypeInv, Listings, [Next]_vars
      PROVE  \A p \in Pods :
               podman[p] = "removed" /\ pods[p] = NoAgent /\ pods'[p] # NoAgent =>
                 \E r \in Requests : p \in todoP[r] \ dead[r]
  <2> SUFFICES ASSUME NEW p \in Pods, podman[p] = "removed", pods[p] = NoAgent,
                      pods'[p] # NoAgent
               PROVE  \E r \in Requests : p \in todoP[r] \ dead[r]
    OBVIOUS
  <2>1. PICK r \in Requests : p \in todoP[r]
    BY <1>3, PodsWritten
  <2> QED
    BY <1>3, <2>1 DEF Listings, Listing
<1> QED
  BY <1>1, <1>2, <1>3, PTL DEF Spec, ResurrectedOnlyByOverlap

-----------------------------------------------------------------------------
(* A live listing is complete, and a delete that is answered is done.      *)

Setting == OneAgentPerHost /\ ~AllowSnapshotFallback

(* A pod's row belongs to the agent of the pod's host. *)
Hosted ==
    \A p \in Pods : PodRow(p) => HostOf[pods[p]] = HostOf[p] /\ podman[p] # "unborn"

Copying == {"listContainers", "insert", "samples", "lookup"}

(* What ran when the request began and runs still is yet to be inserted,   *)
(* or has a fresh row.                                                     *)
Copied(r) ==
    \A p \in base[r] :
      podman[p] = "alive" =>
        HostOf[p] = HostOf[agent[r]] /\ (p \in todoP[r] \/ (PodRow(p) /\ p \in fresh[r]))

Listed(r) ==
    /\ \A p \in todoP[r] : HostOf[p] = HostOf[agent[r]] /\ podman[p] # "unborn"
    /\ \A p \in base[r] : podman[p] # "unborn" /\ HostOf[p] = HostOf[agent[r]]
    /\ pc[r] \in Copying \/ (pc[r] = "respond" /\ kind[r] = "list") => Copied(r)

(* A delete is of a pod of the agent's host, gone once the agent says so.  *)
Deleting(r) ==
    kind[r] = "delete" =>
      /\ pc[r] \in {"agentCall", "store", "respond"}
      /\ target[r] \in Pods =>
           /\ podman[target[r]] # "unborn"
           /\ HostOf[target[r]] = HostOf[agent[r]]
           /\ pc[r] \in {"store", "respond"} => podman[target[r]] = "removed"

ListInv == Hosted /\ \A r \in Requests : Listed(r) /\ Deleting(r)

(* A row of a pod that still runs stays. *)
LEMMA RowsKept ==
  ASSUME TypeInv, ListInv, [Next]_vars, NEW p \in Pods, PodRow(p), podman'[p] = "alive"
  PROVE  PodRow(p)'
<1>1. podman[p] = "alive"
  BY AgesEnv DEF Ages, ListInv, Hosted
<1>2. SUFFICES ASSUME pods'[p] = NoAgent PROVE FALSE
  BY DEF PodRow
<1>3. PICK r \in Requests :
        \/ pc[r] = "insert" /\ pods'[p] = agent[r]
        \/ pc[r] = "store" /\ kind[r] = "delete" /\ target[r] = p
  BY <1>2, PodsWritten DEF PodRow
<1>4. pc[r] = "insert" => agent[r] # NoAgent
  BY ConstantsAssumption DEF TypeInv, RequestsOK, RequestOK, Active
<1> QED
  BY <1>1, <1>2, <1>3, <1>4 DEF ListInv, Deleting

LEMMA HostedStep == ASSUME TypeInv, ListInv, [Next]_vars PROVE Hosted'
<1> SUFFICES ASSUME NEW p \in Pods, PodRow(p)'
             PROVE  HostOf[pods'[p]] = HostOf[p] /\ podman'[p] # "unborn"
  BY DEF Hosted, PodRow
<1>1. Ages
  BY AgesEnv
<1>2. CASE pods'[p] = pods[p]
  BY <1>1, <1>2 DEF Ages, ListInv, Hosted, PodRow
<1>3. CASE pods'[p] # pods[p]
  <2>1. PICK r \in Requests : p \in todoP[r] /\ pods'[p] = agent[r]
    BY <1>3, PodsWritten DEF PodRow
  <2> QED
    BY <1>1, <2>1 DEF Ages, ListInv, Listed
<1> QED
  BY <1>2, <1>3

LEMMA ListedEnv ==
  ASSUME TypeInv, ListInv, [Next]_vars, NEW q \in Requests, Spares(q)
  PROVE  Listed(q)' /\ Deleting(q)'
<1>1. Ages
  BY AgesEnv
<1>2. Deleting(q)'
  <2>1. Deleting(q)
    BY DEF ListInv
  <2>2. target[q] \in Pods /\ podman[target[q]] # "unborn" => podman'[target[q]] # "unborn"
    BY <1>1 DEF Ages
  <2>3. target[q] \in Pods /\ podman[target[q]] = "removed" => podman'[target[q]] = "removed"
    BY <1>1 DEF Ages
  <2> QED
    BY <2>1, <2>2, <2>3 DEF Spares, Deleting
<1>3. base[q] \subseteq Pods /\ todoP[q] \subseteq Pods
  BY DEF TypeInv, TypeOK
<1>4. ASSUME Copied(q) PROVE Copied(q)'
  <2> SUFFICES ASSUME NEW p \in base[q], podman'[p] = "alive"
               PROVE  /\ HostOf[p] = HostOf[agent[q]]
                      /\ p \in todoP[q] \/ (PodRow(p)' /\ p \in fresh'[q])
    BY DEF Copied, Spares, PodRow
  <2>1. podman[p] = "alive"
    BY <1>1, <1>3 DEF Ages, ListInv, Listed
  <2> QED
    BY <1>3, <1>4, <2>1, RowsKept DEF Copied, Spares
<1> QED
  BY <1>1, <1>2, <1>3, <1>4 DEF Ages, Spares, ListInv, Listed

(* What a request's own steps make of its listing, one lemma per kind.     *)

LEMMA BeginListed ==
  ASSUME TypeInv, Listings, ListInv, NEW r \in Requests,
         BeginRead(r) \/ BeginOnRow(r) \/ BeginCreate(r)
  PROVE  Listed(r)' /\ Deleting(r)'
<1> USE DEF rowVars, podmanVars, callVars, refreshVars, freshVars
<1>1. /\ pc[r] = "idle" /\ todoP' = todoP /\ podman' = podman
      /\ base'[r] = AlivePods(HostOf[agent'[r]])
      /\ pc'[r] \in {"listPods", "agentCall"}
  BY DEF BeginRead, BeginOnRow, BeginCreate, Begin, TypeInv, TypeOK
<1>2. todoP[r] = {}
  BY <1>1 DEF Listings, Listing
<1>3. kind'[r] = "delete" =>
        /\ pc'[r] = "agentCall" /\ target'[r] \in PodIds
        /\ PodRow(target'[r]) /\ agent'[r] = pods[target'[r]]
  <2>1. CASE BeginRead(r) \/ BeginCreate(r)
    BY <2>1 DEF BeginRead, BeginCreate, Begin, TypeInv, TypeOK
  <2>2. CASE BeginOnRow(r)
    BY <2>2 DEF BeginOnRow, Begin, TypeInv, TypeOK
  <2> QED
    BY <2>1, <2>2
<1>4. Deleting(r)'
  BY <1>1, <1>3 DEF Deleting, ListInv, Hosted
<1> QED
  BY <1>1, <1>2, <1>4 DEF Listed, Copying, AlivePods

LEMMA EndListed ==
  ASSUME TypeInv, NEW r \in Requests, EndRequest(r) PROVE Listed(r)' /\ Deleting(r)'
  BY DEF EndRequest, Listed, Copied, Deleting, TypeInv, TypeOK

LEMMA CallListed ==
  ASSUME TypeInv, ListInv, Setting, [Next]_vars, NEW r \in Requests, AgentCall(r),
         ~EndRequest(r)
  PROVE  Listed(r)' /\ Deleting(r)'
<1> USE DEF rowVars, callVars, refreshVars, freshVars, historyVars
<1>1. Ages
  BY AgesEnv
<1>2. /\ Effect(r) /\ pc[r] = "agentCall"
      /\ pc'[r] = AfterCall(kind[r], TRUE)
      /\ UNCHANGED <<kind, agent, target, todoP, base>>
  BY DEF AgentCall, Goto, Setting, TypeInv, TypeOK
<1>3. pc'[r] \in {"dropPlaceholder", "listPods", "store"}
  BY <1>2 DEF AfterCall
<1>4. Listed(r)'
  <2>1. Listed(r) /\ base[r] \subseteq Pods /\ todoP[r] \subseteq Pods
    BY DEF ListInv, TypeInv, TypeOK
  <2> QED
    BY <1>1, <1>2, <1>3, <2>1 DEF Ages, Listed, Copying
<1>5. Deleting(r)'
  <2> SUFFICES ASSUME kind[r] = "delete" PROVE Deleting(r)'
    BY <1>2 DEF Deleting
  <2>1. pc'[r] = "store"
    BY <1>2 DEF AfterCall
  <2>2. ASSUME target[r] \in Pods PROVE podman'[target[r]] = "removed"
    <3>1. podman[target[r]] # "unborn" /\ HostOf[target[r]] = HostOf[agent[r]]
      BY <2>2 DEF ListInv, Deleting
    <3>2. CASE target[r] \in AlivePods(HostOf[agent[r]])
      BY <1>2, <2>2, <3>2 DEF Effect, RemovePod, TypeInv, TypeOK
    <3>3. CASE target[r] \notin AlivePods(HostOf[agent[r]])
      <4>1. podman[target[r]] = "removed"
        BY <2>2, <3>1, <3>3 DEF AlivePods, TypeInv, TypeOK, Lives
      <4> QED
        BY <1>1, <2>2, <4>1 DEF Ages
    <3> QED
      BY <3>2, <3>3
  <2> QED
    BY <1>2, <2>1, <2>2 DEF Deleting, ListInv
<1> QED
  BY <1>4, <1>5

LEMMA StoreListed ==
  ASSUME TypeInv, ListInv, NEW r \in Requests, StoreStep(r), ~EndRequest(r)
  PROVE  Listed(r)' /\ Deleting(r)'
<1> USE DEF rowVars, podmanVars, callVars, refreshVars, freshVars, historyVars
<1>1. /\ pc'[r] = "respond" /\ pc[r] = "store" /\ kind[r] # "list"
      /\ UNCHANGED <<kind, agent, target, todoP, base, podman>>
  BY DEF StoreStep, UpdatePodState, DeleteRow, CreateSecretMetadata, Goto, TypeInv, TypeOK
<1>2. Listed(r) /\ Deleting(r)
  BY DEF ListInv
<1> QED
  BY <1>1, <1>2 DEF Listed, Deleting, Copying

LEMMA RefreshListed ==
  ASSUME TypeInv, Listings, ListInv, Setting, NEW r \in Requests, Refresh(r),
         ~EndRequest(r)
  PROVE  Listed(r)' /\ Deleting(r)'
<1> USE DEF rowVars, podmanVars, callVars, refreshVars, freshVars, historyVars
<1>0. /\ Listed(r) /\ Listing(r) /\ pc[r] \in RefreshSteps
      /\ UNCHANGED <<kind, agent, target, base, podman>>
      /\ base[r] \subseteq Pods /\ todoP[r] \subseteq Pods
  BY DEF Refresh, RefreshListPods, RefreshListContainers, RefreshInsertPod,
     RefreshInsertContainer, RefreshStats, RefreshInsertSample, RefreshComplete,
     RefreshFailed, RefreshDone, AgentUnavailable, Goto, RefreshSteps, ListInv, Listings,
     TypeInv, TypeOK
<1>1. Deleting(r)'
  BY <1>0 DEF ListInv, Deleting, RefreshSteps
<1>2. CASE RefreshListPods(r)
  <2>1. todoP'[r] = AlivePods(HostOf[agent[r]])
    BY <1>2 DEF RefreshListPods, TypeInv, TypeOK
  <2> QED
    BY <1>0, <1>1, <2>1 DEF Listed, Copied, AlivePods
<1>3. CASE RefreshInsertPod(r)
  <2>1. PICK p \in todoP[r] : /\ InsertPod(p, agent[r])
                              /\ todoP' = [todoP EXCEPT ![r] = @ \ {p}]
    BY <1>3 DEF RefreshInsertPod
  <2>2. /\ agent[r] # NoAgent /\ pc[r] = "insert" /\ pc'[r] = "insert"
        /\ todoP'[r] = todoP[r] \ {p}
    BY <1>3, <2>1, ConstantsAssumption
       DEF RefreshInsertPod, TypeInv, TypeOK, RequestsOK, RequestOK, Active
  <2>3. PodRow(p)' /\ \A q \in Pods : PodRow(q) => PodRow(q)'
    BY <2>1, <2>2 DEF InsertPod, PodRow, TypeInv, TypeOK, PodIds
  <2>4. p \in fresh'[r] /\ fresh[r] \subseteq fresh'[r]
    BY <2>1, <2>2, StampEnv DEF InsertPod, Active
  <2> QED
    BY <1>0, <1>1, <2>2, <2>3, <2>4 DEF Listed, Copied, Copying, PodRow
<1>4. CASE RefreshListContainers(r) \/ RefreshStats(r) \/ RefreshComplete(r)
  <2>1. /\ UNCHANGED <<todoP, pods, fresh>> /\ pc[r] \in Copying
    BY <1>4 DEF RefreshListContainers, RefreshStats, RefreshComplete, Copying
  <2> QED
    BY <1>0, <1>1, <2>1 DEF Listed, Copied, PodRow
<1>5. CASE /\ RefreshInsertContainer(r) \/ RefreshInsertSample(r)
           /\ ~RefreshFailed(r)
  <2>1. /\ UNCHANGED <<todoP, pods, fresh, pc>> /\ pc[r] \in Copying
    BY <1>5 DEF RefreshInsertContainer, RefreshInsertSample, InsertContainer,
       InsertResourceSample, Copying
  <2> QED
    BY <1>0, <1>1, <2>1 DEF Listed, Copied, PodRow
<1>6. CASE RefreshFailed(r)
  <2>1. /\ todoP'[r] = {} /\ kind[r] # "list"
        /\ pc'[r] \in {"respond", "placeholder"}
    BY <1>6 DEF RefreshFailed, Setting, TypeInv, TypeOK
  <2> QED
    BY <1>0, <1>1, <2>1 DEF Listed, Copying
<1> QED
  BY <1>2, <1>3, <1>4, <1>5, <1>6 DEF Refresh, AgentUnavailable

LEMMA CreateListed ==
  ASSUME TypeInv, Listings, ListInv, NEW r \in Requests, Create(r), ~EndRequest(r)
  PROVE  Listed(r)' /\ Deleting(r)'
<1> USE DEF rowVars, podmanVars, callVars, refreshVars, freshVars, historyVars
<1>0. /\ Listed(r) /\ Listing(r) /\ pc[r] \in CreateSteps /\ kind[r] = "create"
      /\ UNCHANGED <<kind, agent, target, podman, todoP>>
      /\ base[r] \subseteq Pods
  BY DEF Create, DropPlaceholder, LookupCreated, InsertPlaceholder, InsertPlaceholderMain,
     Goto, CreateSteps, ListInv, Listings, TypeInv, TypeOK, RequestsOK, RequestOK
<1>1. Deleting(r)'
  BY <1>0 DEF Deleting
<1>2. CASE DropPlaceholder(r)
  <2>1. base'[r] = AlivePods(HostOf[agent[r]]) /\ pc'[r] = "listPods"
    BY <1>2 DEF DropPlaceholder, Goto, TypeInv, TypeOK
  <2> QED
    BY <1>0, <1>1, <2>1 DEF Listed, AlivePods, Copying
<1>3. CASE LookupCreated(r) \/ InsertPlaceholder(r) \/ InsertPlaceholderMain(r)
  <2>1. base' = base /\ pc'[r] \in {"placeholder", "respond", "placeholderMain"}
    BY <1>3 DEF LookupCreated, InsertPlaceholder, InsertPlaceholderMain, Goto,
       TypeInv, TypeOK
  <2> QED
    BY <1>0, <1>1, <2>1 DEF Listed, Copying
<1> QED
  BY <1>2, <1>3 DEF Create

LEMMA ListInvStep ==
  ASSUME TypeInv, Listings, ListInv, Setting, [Next]_vars PROVE ListInv'
<1> SUFFICES ASSUME NEW q \in Requests PROVE Listed(q)' /\ Deleting(q)'
  BY HostedStep DEF ListInv
<1>1. CASE Podman \/ UNCHANGED vars
  BY <1>1, SparesPodman, ListedEnv
<1>2. CASE \E r \in Requests : Step(r)
  <2>1. PICK r \in Requests : Step(r)
    BY <1>2
  <2>2. CASE r # q
    BY <2>1, <2>2, SparesEnv, ListedEnv
  <2>3. CASE EndRequest(q)
    BY <2>3, EndListed
  <2>4. CASE r = q /\ ~EndRequest(q)
    BY <2>1, <2>4, BeginListed, CallListed, StoreListed, RefreshListed, CreateListed
       DEF Step, Handle, Respond, Cancel
  <2> QED
    BY <2>2, <2>3, <2>4
<1> QED
  BY <1>1, <1>2 DEF Next

LEMMA ListInvInit == Init => ListInv
  BY DEF Init, ListInv, Hosted, PodRow, PodIds, Listed, Copied, Copying, Deleting

(* What the invariant says of an answered list: its row is the agent's.    *)
LEMMA ListInvComplete ==
  ASSUME TypeInv, Listings, ListInv PROVE LiveListComplete /\ DeletedPodIsGone
<1>1. SUFFICES ASSUME Setting PROVE LiveListComplete /\ DeletedPodIsGone
  BY DEF Setting, LiveListComplete, DeletedPodIsGone
<1>2. DeletedPodIsGone
  BY DEF DeletedPodIsGone, ListInv, Deleting
<1>3. LiveListComplete
  <2> SUFFICES ASSUME NEW r \in Requests, pc[r] = "respond", kind[r] = "list",
                      NEW p \in base[r], p \in AlivePods(HostOf[agent[r]])
               PROVE  p \in LivePods(r)
    BY DEF LiveListComplete
  <2>1. p \in Pods /\ podman[p] = "alive" /\ HostOf[p] = HostOf[agent[r]]
    BY DEF AlivePods
  <2>2. PodRow(p) /\ p \in fresh[r]
    BY <2>1 DEF ListInv, Listed, Copied, Listings, Listing
  <2>3. pods[p] \in Agents /\ HostOf[pods[p]] = HostOf[agent[r]]
    BY <2>1, <2>2 DEF ListInv, Hosted, PodRow, TypeInv, TypeOK, PodIds
  <2>4. agent[r] \in Agents
    BY DEF TypeInv, RequestsOK, RequestOK, Active
  <2> QED
    BY <1>1, <2>1, <2>2, <2>3, <2>4 DEF Setting, OneAgentPerHost, LivePods, PodIds
<1> QED
  BY <1>2, <1>3

LEMMA ListSafety ==
  Spec => [](LiveListComplete /\ DeletedPodIsGone)
<1>1. CASE Setting
  <2>1. Init => TypeInv /\ Listings /\ ListInv
    BY InitType, ListInvInit DEF Init, Listings, Listing
  <2>2. TypeInv /\ Listings /\ ListInv /\ [Next]_vars => TypeInv' /\ Listings' /\ ListInv'
    BY <1>1, StepType, ListingsStep, ListInvStep
  <2> QED
    BY <2>1, <2>2, ListInvComplete, PTL DEF Spec
<1>2. CASE ~Setting
  <2>1. LiveListComplete /\ DeletedPodIsGone
    BY <1>2 DEF Setting, LiveListComplete, DeletedPodIsGone
  <2> QED
    BY <2>1, PTL
<1> QED
  BY <1>1, <1>2

(* SnapshotsPods checks this on a small instance: with one agent per host  *)
(* a live listing misses no pod that ran all along.                        *)
THEOREM LiveListAlwaysComplete == Spec => []LiveListComplete
  BY ListSafety, PTL

(* SnapshotsPods checks this too: whoever is told "deleted" is told so of  *)
(* a pod that is gone from the host.                                       *)
THEOREM DeletedPodAlwaysGone == Spec => []DeletedPodIsGone
  BY ListSafety, PTL

-----------------------------------------------------------------------------
(* What a request that no other has overlapped calls live.                 *)

(* Rows are fresh for a request only while it runs, and when it runs alone *)
(* only those it wrote itself, from listings that hold nothing that was    *)
(* gone when it began.                                                     *)
Unmixed(r) ==
    /\ pc[r] = "idle" => fresh[r] = {} /\ freshS[r] = {} /\ ~alone[r]
    /\ alone[r] => \A q \in Requests \ {r} : pc[q] = "idle"
    /\ deadC[r] \subseteq RemovedContainers
    /\ todoS[r] \cap deadC[r] = {}
    /\ todoS[r] # {} => pc[r] = "samples"
    /\ alone[r] => freshS[r] \cap deadC[r] = {}
    /\ alone[r] /\ kind[r] \in {"list", "create"} => fresh[r] \cap dead[r] = {}
    /\ alone[r] /\ kind[r] = "list" => fresh[r] \subseteq Pods

AloneInv == \A r \in Requests : Unmixed(r)

LEMMA ContainersAge ==
  ASSUME TypeInv, [Next]_vars
  PROVE  RemovedContainers \subseteq RemovedContainers'
<1>1. CASE UNCHANGED podmanC
  BY <1>1 DEF RemovedContainers
<1>2. \/ UNCHANGED podmanC
      \/ \E p \in Pods : CreatePod(p) \/ RemovePod(p)
      \/ \E c \in Containers : CreateContainer(c) \/ RemoveContainer(c)
  BY DEF Next, Podman, Step, BeginRead, BeginOnRow, BeginCreate, Begin, Handle, AgentCall,
     Effect, AlivePods, AliveContainers, StoreStep, Refresh, RefreshListPods,
     RefreshListContainers, RefreshInsertPod, RefreshInsertContainer, RefreshStats,
     RefreshInsertSample, RefreshComplete, AgentUnavailable, Create, DropPlaceholder,
     LookupCreated, InsertPlaceholder, InsertPlaceholderMain, Respond, Cancel, vars,
     podmanVars
<1>3. ASSUME NEW p \in Pods, CreatePod(p) \/ RemovePod(p)
      PROVE  RemovedContainers \subseteq RemovedContainers'
  BY <1>3 DEF CreatePod, RemovePod, RemovedContainers, TypeInv, TypeOK
<1>4. ASSUME NEW c \in Containers, CreateContainer(c) \/ RemoveContainer(c)
      PROVE  RemovedContainers \subseteq RemovedContainers'
  BY <1>4 DEF CreateContainer, RemoveContainer, RemovedContainers, TypeInv, TypeOK
<1> QED
  BY <1>1, <1>2, <1>3, <1>4

(* What a step leaves to a request that is not its own, and does not run   *)
(* alone afterwards.                                                       *)
Overlaps(q) ==
    /\ pc'[q] = pc[q] /\ todoS'[q] = todoS[q] /\ deadC'[q] = deadC[q]
    /\ pc[q] = "idle" => fresh'[q] = fresh[q] /\ freshS'[q] = freshS[q]
    /\ ~alone'[q]

LEMMA OverlapsEnv ==
  ASSUME TypeInv, AloneInv, NEW r \in Requests, Step(r), NEW q \in Requests, q # r
  PROVE  Overlaps(q)
<1> USE DEF podmanVars, rowVars, callVars, refreshVars, freshVars, historyVars
<1>1. CASE BeginRead(r) \/ BeginOnRow(r) \/ BeginCreate(r)
  <2>1. PICK k, a, t, step : Begin(r, k, a, t, step)
    BY <1>1 DEF BeginRead, BeginOnRow, BeginCreate
  <2>2. pc'[q] = pc[q] /\ deadC'[q] = deadC[q] /\ UNCHANGED <<todoS, fresh, freshS>>
    BY <2>1 DEF Begin, TypeInv, TypeOK
  <2>3. ~alone'[q]
    BY <2>1 DEF Begin
  <2> QED
    BY <2>2, <2>3 DEF Overlaps
<1>2. CASE ~(BeginRead(r) \/ BeginOnRow(r) \/ BeginCreate(r))
  <2>1. pc[r] # "idle"
    BY <1>2 DEF Step, Handle, Respond, Cancel, AgentCall, StoreStep, Refresh,
       RefreshListPods, RefreshListContainers, RefreshInsertPod, RefreshInsertContainer,
       RefreshStats, RefreshInsertSample, RefreshComplete, AgentUnavailable, Create,
       DropPlaceholder, LookupCreated, InsertPlaceholder, InsertPlaceholderMain
  <2>2. ~alone[q]
    BY <2>1 DEF AloneInv, Unmixed
  <2>3. ASSUME NEW p PROVE pc[q] = "idle" => Stamp(p)[q] = fresh[q]
    BY DEF Stamp, Active
  <2>4. ASSUME NEW c PROVE pc[q] = "idle" => StampSample(c)[q] = freshS[q]
    BY DEF StampSample, Active
  <2>5. CASE EndRequest(r)
    BY <2>2, <2>5 DEF EndRequest, Overlaps, TypeInv, TypeOK
  <2>6. CASE AgentCall(r) /\ ~EndRequest(r)
    BY <2>2, <2>6 DEF AgentCall, Goto, Overlaps, TypeInv, TypeOK
  <2>7. CASE StoreStep(r) /\ ~EndRequest(r)
    BY <2>2, <2>3, <2>7 DEF StoreStep, UpdatePodState, DeleteRow, CreateSecretMetadata,
       Goto, Overlaps, TypeInv, TypeOK
  <2>8. CASE Refresh(r) /\ ~EndRequest(r)
    BY <2>2, <2>3, <2>4, <2>8 DEF Refresh, RefreshListPods, RefreshListContainers,
       RefreshInsertPod, RefreshInsertContainer, RefreshStats, RefreshInsertSample,
       RefreshComplete, RefreshDone, RefreshFailed, AgentUnavailable, InsertPod,
       InsertContainer, InsertResourceSample, Goto, Overlaps, TypeInv, TypeOK
  <2>9. CASE Create(r) /\ ~EndRequest(r)
    BY <2>2, <2>3, <2>9 DEF Create, DropPlaceholder, LookupCreated, InsertPlaceholder,
       InsertPlaceholderMain, InsertPod, InsertContainer, Goto, Overlaps, TypeInv, TypeOK
  <2> QED
    BY <1>2, <2>5, <2>6, <2>7, <2>8, <2>9 DEF Step, Handle, Respond, Cancel
<1> QED
  BY <1>1, <1>2

LEMMA UnmixedEnv ==
  ASSUME NEW q \in Requests, Unmixed(q), Overlaps(q),
         RemovedContainers \subseteq RemovedContainers'
  PROVE  Unmixed(q)'
  BY DEF Unmixed, Overlaps

LEMMA UnmixedOwn ==
  ASSUME TypeInv, Listings, NEW r \in Requests, Unmixed(r), Step(r)
  PROVE  Unmixed(r)'
<1> USE DEF podmanVars, rowVars, callVars, refreshVars, freshVars, historyVars
<1>0. RemovedContainers \subseteq RemovedContainers'
  BY ContainersAge DEF Next
<1>1. CASE BeginRead(r) \/ BeginOnRow(r) \/ BeginCreate(r)
  <2>1. PICK k, a, t, step : Begin(r, k, a, t, step) /\ step # "idle"
    BY <1>1 DEF BeginRead, BeginOnRow, BeginCreate
  <2>2. /\ pc[r] = "idle" /\ \A q \in Requests \ {r} : pc'[q] = pc[q]
        /\ pc'[r] # "idle" /\ deadC'[r] = RemovedContainers
        /\ UNCHANGED <<podmanC, todoS, fresh, freshS>>
    BY <2>1 DEF Begin, TypeInv, TypeOK
  <2>3. alone'[r] => \A p \in Requests : ~Active(p)
    BY <2>1 DEF Begin
  <2> QED
    BY <2>2, <2>3 DEF Unmixed, Active, RemovedContainers
<1>2. CASE EndRequest(r)
  BY <1>2 DEF EndRequest, Unmixed, TypeInv, TypeOK
<1>3. CASE AgentCall(r) /\ ~EndRequest(r)
  <2>1. pc'[r] # "idle"
    BY <1>3 DEF AgentCall, Goto, AfterCall, TypeInv, TypeOK
  <2> QED
    BY <1>0, <1>3, <2>1 DEF AgentCall, Goto, Unmixed, TypeInv, TypeOK
<1>4. CASE StoreStep(r) /\ ~EndRequest(r)
  <2>1. CASE UpdatePodState(r)
    BY <1>0, <1>4, <2>1 DEF StoreStep, UpdatePodState, Goto, Unmixed, TypeInv, TypeOK
  <2>2. CASE DeleteRow(r) \/ CreateSecretMetadata(r)
    BY <1>0, <1>4, <2>2 DEF StoreStep, DeleteRow, CreateSecretMetadata, Goto, Unmixed,
       TypeInv, TypeOK
  <2> QED
    BY <1>4, <2>1, <2>2 DEF StoreStep
<1>5. CASE RefreshListPods(r) \/ RefreshListContainers(r)
  BY <1>0, <1>5 DEF RefreshListPods, RefreshListContainers, Goto, Unmixed, TypeInv, TypeOK
<1>6. CASE RefreshInsertPod(r)
  <2>1. PICK p \in todoP[r] : fresh'[r] = fresh[r] \cup {p}
    BY <1>6 DEF RefreshInsertPod, InsertPod, Stamp, Active, TypeInv, TypeOK
  <2>2. p \in Pods /\ p \notin dead[r]
    BY <2>1 DEF Listings, Listing, TypeInv, TypeOK
  <2> QED
    BY <1>0, <1>6, <2>1, <2>2 DEF RefreshInsertPod, InsertPod, Unmixed, TypeInv, TypeOK
<1>7. CASE RefreshStats(r)
  <2>1. todoS'[r] \cap RemovedContainers = {}
    BY <1>7 DEF RefreshStats, AliveContainers, RemovedContainers, TypeInv, TypeOK
  <2> QED
    BY <1>0, <1>7, <2>1 DEF RefreshStats, Goto, Unmixed, TypeInv, TypeOK
<1>8. CASE RefreshInsertContainer(r) /\ ~RefreshFailed(r)
  BY <1>0, <1>8 DEF RefreshInsertContainer, InsertContainer, Unmixed, TypeInv, TypeOK
<1>9. CASE RefreshInsertSample(r) /\ ~RefreshFailed(r)
  <2>1. PICK c \in todoS[r] : /\ freshS'[r] = freshS[r] \cup {c}
                              /\ todoS' = [todoS EXCEPT ![r] = @ \ {c}]
    BY <1>9 DEF RefreshInsertSample, InsertResourceSample, StampSample, Active,
       TypeInv, TypeOK
  <2>2. UNCHANGED <<pc, kind, fresh, dead, deadC, alone>>
    BY <1>9 DEF RefreshInsertSample, InsertResourceSample
  <2>3. todoS'[r] \subseteq todoS[r]
    BY <2>1 DEF TypeInv, TypeOK
  <2>4. c \notin deadC[r]
    BY <2>1 DEF Unmixed
  <2> QED
    BY <1>0, <1>9, <2>1, <2>2, <2>3, <2>4 DEF RefreshInsertSample, Unmixed
<1>10. CASE RefreshComplete(r)
  BY <1>0, <1>10 DEF RefreshComplete, RefreshDone, Unmixed, TypeInv, TypeOK
<1>11. CASE RefreshFailed(r) /\ ~EndRequest(r) /\ pc[r] # "idle"
  BY <1>0, <1>11 DEF RefreshFailed, Unmixed, TypeInv, TypeOK
<1>12. CASE DropPlaceholder(r)
  BY <1>12 DEF DropPlaceholder, Goto, Unmixed, RemovedContainers, TypeInv, TypeOK
<1>13. CASE LookupCreated(r)
  BY <1>0, <1>13 DEF LookupCreated, Goto, Unmixed, TypeInv, TypeOK
<1>14. CASE InsertPlaceholder(r)
  <2>1. /\ kind[r] = "create"
        /\ PlaceholderOf[target[r]] \notin dead[r]
    BY <1>14, ConstantsAssumption
       DEF InsertPlaceholder, CreateSteps, TypeInv, TypeOK, RequestsOK, RequestOK, Active
  <2>2. fresh'[r] = fresh[r] \cup {PlaceholderOf[target[r]]}
    BY <1>14 DEF InsertPlaceholder, InsertPod, Stamp, Active
  <2> QED
    BY <1>0, <1>14, <2>1, <2>2
       DEF InsertPlaceholder, InsertPod, Goto, Unmixed, TypeInv, TypeOK
<1>15. CASE InsertPlaceholderMain(r) /\ ~EndRequest(r)
  BY <1>0, <1>15 DEF InsertPlaceholderMain, InsertContainer, Goto, Unmixed, TypeInv, TypeOK
<1> QED
  BY <1>1, <1>2, <1>3, <1>4, <1>5, <1>6, <1>7, <1>8, <1>9, <1>10, <1>11, <1>12, <1>13,
     <1>14, <1>15
     DEF Step, Handle, Respond, Cancel, Refresh, Create, AgentUnavailable,
         RefreshInsertContainer, RefreshInsertSample

LEMMA AloneStep == TypeInv /\ Listings /\ AloneInv /\ [Next]_vars => AloneInv'
<1> SUFFICES ASSUME TypeInv, Listings, AloneInv, [Next]_vars, NEW q \in Requests
             PROVE  Unmixed(q)'
  BY DEF AloneInv
<1>1. Unmixed(q) /\ RemovedContainers \subseteq RemovedContainers'
  BY ContainersAge DEF AloneInv
<1>2. CASE Podman \/ UNCHANGED vars
  BY <1>1, <1>2 DEF Podman, vars, requestVars, callVars, refreshVars, freshVars,
     historyVars, Unmixed
<1>3. CASE \E r \in Requests : Step(r)
  <2>1. PICK r \in Requests : Step(r)
    BY <1>3
  <2>2. CASE r = q
    BY <1>1, <2>1, <2>2, UnmixedOwn
  <2>3. CASE r # q
    BY <1>1, <2>1, <2>3, OverlapsEnv, UnmixedEnv
  <2> QED
    BY <2>2, <2>3
<1> QED
  BY <1>2, <1>3 DEF Next

LEMMA AloneInit == Init => TypeInv /\ Listings /\ AloneInv
  BY InitType DEF Init, Listings, Listing, AloneInv, Unmixed

(* SnapshotsPods checks this on a small instance: a listing that no other  *)
(* request overlapped names no pod that was gone when it began, and no     *)
(* placeholder.                                                            *)
THEOREM LiveListAlwaysSoundAlone == Spec => []LiveListSoundWhenAlone
<1>1. AloneInv => LiveListSoundWhenAlone
  BY DEF AloneInv, Unmixed, LiveListSoundWhenAlone, LivePods
<1> QED
  BY <1>1, AloneInit, StepType, ListingsStep, AloneStep, PTL DEF Spec

(* SnapshotsStats checks this on a small instance: statistics that no      *)
(* other request overlapped are of no container that was gone when the     *)
(* request began.                                                          *)
THEOREM LiveStatsAlwaysSoundAlone == Spec => []LiveStatsSoundWhenAlone
<1>1. AloneInv => LiveStatsSoundWhenAlone
  BY DEF AloneInv, Unmixed, LiveStatsSoundWhenAlone, LiveStats
<1> QED
  BY <1>1, AloneInit, StepType, ListingsStep, AloneStep, PTL DEF Spec

LEMMA FoundSafety ==
  ASSUME TypeInv, Listings, AloneInv, Setting => ListInv PROVE CreatedPodIsFound
<1>1. SUFFICES ASSUME Setting, NEW r \in Requests, pc[r] = "lookup"
               PROVE  /\ {p \in base[r] \cap AlivePods(HostOf[agent[r]]) :
                            NameOf[p] = target[r]} \subseteq Candidates(r)
                      /\ alone[r] => Candidates(r) \cap dead[r] = {}
  BY DEF Setting, CreatedPodIsFound
<1>2. ASSUME NEW p \in base[r], p \in AlivePods(HostOf[agent[r]]), NameOf[p] = target[r]
      PROVE  p \in Candidates(r)
  <2>1. p \in Pods /\ podman[p] = "alive" /\ HostOf[p] = HostOf[agent[r]]
    BY <1>2 DEF AlivePods
  <2>2. PodRow(p) /\ p \in fresh[r]
    BY <1>1, <1>2, <2>1 DEF ListInv, Listed, Copied, Copying, Listings, Listing
  <2>3. pods[p] \in Agents /\ HostOf[pods[p]] = HostOf[agent[r]]
    BY <1>1, <2>1, <2>2 DEF ListInv, Hosted, PodRow, TypeInv, TypeOK, PodIds
  <2>4. agent[r] \in Agents
    BY <1>1 DEF TypeInv, RequestsOK, RequestOK, Active
  <2> QED
    BY <1>1, <1>2, <2>1, <2>2, <2>3, <2>4
       DEF Setting, OneAgentPerHost, Candidates, LivePods, PodIds
<1>3. kind[r] = "create"
  BY <1>1 DEF TypeInv, RequestsOK, RequestOK, CreateSteps
<1>4. alone[r] => Candidates(r) \cap dead[r] = {}
  BY <1>3 DEF AloneInv, Unmixed, Candidates, LivePods
<1> QED
  BY <1>2, <1>4

(* SnapshotsPods checks this on a small instance: a pod that was created   *)
(* and still runs is found by its name, and without overlap nothing else   *)
(* is.                                                                     *)
THEOREM CreatedPodAlwaysFound == Spec => []CreatedPodIsFound
<1> DEFINE Kept == Setting => ListInv
<1>1. Init => TypeInv /\ Listings /\ AloneInv /\ Kept
  BY AloneInit, ListInvInit
<1>2. TypeInv /\ Listings /\ AloneInv /\ Kept /\ [Next]_vars
        => TypeInv' /\ Listings' /\ AloneInv' /\ Kept'
  BY StepType, ListingsStep, AloneStep, ListInvStep DEF Setting, OneAgentPerHost
<1>3. TypeInv /\ Listings /\ AloneInv /\ Kept => CreatedPodIsFound
  BY FoundSafety
<1> QED
  BY <1>1, <1>2, <1>3, PTL DEF Spec

=============================================================================
