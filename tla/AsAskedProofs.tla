---------------------------- MODULE AsAskedProofs ---------------------------
(***************************************************************************)
(* Proofs about what a container gets of what was asked for, for any       *)
(* number of mounts, of calls beside it and of faults, and for any output  *)
(* of its process: its limits, its runtime and its mounts (AsAsked: the    *)
(* modules Resources, Runtimes and Mounts), and the lines of its log       *)
(* (LogLines).  The mounts and the log rest on facts about sequences and   *)
(* about joining them.                                                     *)
(***************************************************************************)
EXTENDS AsAsked, LogLines, Integers, Sequences, FiniteSets, TLAPS

-----------------------------------------------------------------------------
(* What a container was asked to run with: its limits *)

LimitConstants == "nobody" \notin Updaters /\ MaxUpdateFaults \in Nat

InTransaction == {"spec", "task", "reset"}

\* One update at a time holds the status lock.
UpdateLocked ==
    /\ DOMAIN upc = Updaters /\ DOMAIN oldLimit = Updaters /\ DOMAIN newLimit = Updaters
    /\ \A u \in Updaters : upc[u] \in InTransaction <=> lockedBy = u

\* The task is there from its creation to its exit, which the status follows.
TaskFollows ==
    /\ starter \in {"idle", "starting", "created", "done"}
    /\ starter \in {"idle", "starting"} => state = "CREATED" /\ taskLimit = "none"
    /\ starter = "created" => state = "CREATED"
    /\ starter = "done" => state \in {"RUNNING", "EXITED"}
    /\ state = "EXITED" => taskLimit = "none"

\* The spec and the task have the same limit, but for an update that has changed the spec and is
\* about to change the task or to reset the spec; that one knows both limits.
LimitsFollow ==
    /\ \A u \in Updaters : upc[u] = "spec" => oldLimit[u] = specLimit
    /\ \A u \in Updaters : upc[u] \in {"task", "reset"} =>
          /\ state = "RUNNING" /\ newLimit[u] = specLimit
          /\ apart = "" => taskLimit \in {"none", oldLimit[u]}
    /\ apart = "" /\ (\A u \in Updaters : upc[u] \notin {"task", "reset"})
       => taskLimit \in {"none", specLimit}

LimitInv == UpdateLocked /\ TaskFollows /\ LimitsFollow

\* StartContainer, the exit of the task and RemoveContainer.
LEMMA StartLimits ==
    ASSUME LimitInv, "nobody" \notin Updaters,
           \/ setContainerStarting \/ NewTask \/ StartedOrFailed
           \/ TaskExits \/ handleContainerExit \/ setContainerRemoving
    PROVE  LimitInv'
<1>1. UNCHANGED <<specLimit, lockedBy, upc, oldLimit, newLimit, apart>>
  BY Zenon DEF setContainerStarting, NewTask, StartedOrFailed, TaskExits, handleContainerExit,
      setContainerRemoving
<1>2. UpdateLocked'
  BY <1>1, Zenon DEF LimitInv, UpdateLocked
<1>3. TaskFollows'
  BY Zenon DEF setContainerStarting, NewTask, StartedOrFailed, TaskExits, handleContainerExit,
      setContainerRemoving, LimitInv, TaskFollows
<1>4. /\ state' = state \/ lockedBy = "nobody"
      /\ taskLimit' \in {taskLimit, "none"} \/ (taskLimit' = specLimit /\ state = "CREATED")
  BY Zenon DEF setContainerStarting, NewTask, StartedOrFailed, TaskExits, handleContainerExit,
      setContainerRemoving, LimitInv, TaskFollows
<1>5. LimitsFollow'
  BY <1>1, <1>4, Zenon DEF LimitInv, UpdateLocked, LimitsFollow, InTransaction
<1> QED BY <1>2, <1>3, <1>5, Zenon DEF LimitInv

\* A step of an update leaves the task and the other updates alone, and keeps or frees the lock.
LEMMA UpdateKeepsLock ==
    ASSUME LimitInv, "nobody" \notin Updaters, NEW u \in Updaters,
           \/ \E l \in Limits : UpdateContainerResources(u, l)
           \/ updateContainerSpec(u) \/ TaskUpdate(u) \/ ResetSpec(u)
    PROVE  UpdateLocked' /\ TaskFollows' /\ \A v \in Updaters : v # u => upc'[v] = upc[v] /\ upc[v] \notin InTransaction
<1>1. UNCHANGED <<state, starter>> /\ taskLimit' = IF taskLimit = "none" THEN "none" ELSE taskLimit'
  BY Zenon DEF UpdateContainerResources, updateContainerSpec, TaskUpdate, ResetSpec
<1>2. PICK step \in InTransaction \cup {"done"} :
         upc' = [upc EXCEPT ![u] = step] /\ lockedBy' = IF step = "done" THEN "nobody" ELSE u
  BY DEF UpdateContainerResources, updateContainerSpec, TaskUpdate, ResetSpec, Leave,
      LimitInv, UpdateLocked, InTransaction
<1>3. lockedBy \in {"nobody", u}
  BY Zenon DEF UpdateContainerResources, updateContainerSpec, TaskUpdate, ResetSpec, LimitInv,
      UpdateLocked, InTransaction
<1>4. DOMAIN oldLimit' = Updaters /\ DOMAIN newLimit' = Updaters
  BY Zenon DEF UpdateContainerResources, updateContainerSpec, TaskUpdate, ResetSpec, LimitInv,
      UpdateLocked
<1>5. TaskFollows'
  BY <1>1, Zenon DEF LimitInv, TaskFollows
<1>6. UpdateLocked'
  BY <1>2, <1>3, <1>4, Zenon DEF LimitInv, UpdateLocked, InTransaction
<1> QED BY <1>2, <1>3, <1>5, <1>6, Zenon DEF LimitInv, UpdateLocked

\* UpdateContainerResources, from one step to the next.
LEMMA UpdateLimits ==
    ASSUME LimitInv, "nobody" \notin Updaters, NEW u \in Updaters,
           \/ \E l \in Limits : UpdateContainerResources(u, l)
           \/ updateContainerSpec(u) \/ TaskUpdate(u) \/ ResetSpec(u)
    PROVE  LimitInv'
<1>1. /\ UpdateLocked' /\ TaskFollows' /\ DOMAIN upc = Updaters
      /\ \A v \in Updaters : v # u => upc'[v] = upc[v] /\ upc[v] \notin {"spec", "task", "reset"}
  BY UpdateKeepsLock, Zenon DEF LimitInv, UpdateLocked, InTransaction
<1>2. CASE \E l \in Limits : UpdateContainerResources(u, l)
  <2>1. /\ UNCHANGED <<specLimit, taskLimit, apart>> /\ upc[u] = "idle"
        /\ upc'[u] = "done" \/ (upc'[u] = "spec" /\ oldLimit'[u] = specLimit)
    BY <1>2, Zenon DEF UpdateContainerResources, Leave, LimitInv, UpdateLocked
  <2> QED BY <1>1, <2>1, Zenon DEF LimitInv, LimitsFollow
<1>3. CASE updateContainerSpec(u)
  <2>1. /\ UNCHANGED <<taskLimit, state, starter, oldLimit, newLimit>> /\ upc[u] = "spec"
        /\ \/ upc'[u] = "done" /\ UNCHANGED <<specLimit, apart>>
           \/ /\ upc'[u] = "done" /\ specLimit' = newLimit[u] /\ state # "RUNNING"
              /\ apart' = IF starter = "created" THEN "start" ELSE apart
           \/ upc'[u] = "task" /\ specLimit' = newLimit[u] /\ state = "RUNNING" /\ apart' = apart
    BY <1>1, <1>3, Zenon DEF updateContainerSpec, Leave
  <2>2. state # "RUNNING" /\ starter # "created" => taskLimit = "none"
    BY Zenon DEF LimitInv, TaskFollows
  <2> QED BY <1>1, <2>1, <2>2, Zenon DEF LimitInv, LimitsFollow
<1>4. CASE TaskUpdate(u)
  <2>1. /\ UNCHANGED <<specLimit, state, oldLimit, newLimit, apart>> /\ upc[u] = "task"
        /\ \/ upc'[u] = "done" /\ taskLimit' \in {"none", newLimit[u]}
           \/ upc'[u] = "reset" /\ taskLimit' = taskLimit
    BY <1>1, <1>4, Zenon DEF TaskUpdate, Leave
  <2> QED BY <1>1, <2>1, Zenon DEF LimitInv, LimitsFollow
<1>5. CASE ResetSpec(u)
  <2>1. /\ UNCHANGED taskLimit /\ upc[u] = "reset" /\ upc'[u] = "done"
        /\ (specLimit' = oldLimit[u] /\ apart' = apart) \/ apart' = "reset"
    BY <1>1, <1>5, Zenon DEF ResetSpec, Leave
  <2> QED BY <1>1, <2>1, Zenon DEF LimitInv, LimitsFollow
<1> QED BY <1>2, <1>3, <1>4, <1>5, Zenon

\* The types.
LEMMA LimitTypes ==
    ASSUME LimitConstants, LimitTypeOK, [LimitNext]_resVars PROVE LimitTypeOK'
<1> USE DEF LimitTypeOK, NoFault
<1>1. /\ UpdateFault => updateFaults' \in 0 .. MaxUpdateFaults
      /\ NoFault => updateFaults' \in 0 .. MaxUpdateFaults
  <2>1. updateFaults \in 0 .. MaxUpdateFaults /\ MaxUpdateFaults \in Nat
    BY Zenon DEF LimitConstants
  <2> HIDE DEF LimitTypeOK
  <2> QED BY <2>1 DEF UpdateFault
<1>2. CASE UNCHANGED resVars
  BY <1>2, ZenonT(60) DEF resVars
<1>3. CASE setContainerStarting
  BY <1>3, Zenon DEF setContainerStarting
<1>4. CASE NewTask
  BY <1>4, Zenon DEF NewTask
<1>5. CASE StartedOrFailed
  BY <1>1, <1>5, Zenon DEF StartedOrFailed
<1>6. CASE TaskExits \/ handleContainerExit \/ setContainerRemoving
  BY <1>6, ZenonT(60) DEF TaskExits, handleContainerExit, setContainerRemoving
<1>7. ASSUME NEW u \in Updaters PROVE Leave(u) =>
         /\ upc' \in [Updaters -> {"idle", "spec", "task", "reset", "done"}]
         /\ lockedBy' \in Updaters \cup {"nobody"}
  BY DEF Leave
<1>8. ASSUME NEW u \in Updaters, NEW l \in Limits, UpdateContainerResources(u, l) PROVE LimitTypeOK'
  <2>1. CASE Leave(u) /\ UNCHANGED <<oldLimit, newLimit>>
    BY <1>1, <1>7, <1>8, <2>1, ZenonT(60) DEF UpdateContainerResources
  <2>2. CASE /\ upc' = [upc EXCEPT ![u] = "spec"] /\ lockedBy' = u
             /\ oldLimit' = [oldLimit EXCEPT ![u] = specLimit]
             /\ newLimit' = [newLimit EXCEPT ![u] = l]
    <3>1. /\ upc' \in [Updaters -> {"idle", "spec", "task", "reset", "done"}]
          /\ oldLimit' \in [Updaters -> Limits \cup {""}]
          /\ newLimit' \in [Updaters -> Limits \cup {""}]
      BY <2>2
    <3> QED BY <1>1, <1>8, <2>2, <3>1, Zenon DEF UpdateContainerResources
  <2> QED BY <1>8, <2>1, <2>2, Zenon DEF UpdateContainerResources
<1>9. ASSUME NEW u \in Updaters, updateContainerSpec(u) PROVE LimitTypeOK'
  <2>1. newLimit[u] \in Limits \cup {""}
    BY Zenon
  <2>2. [upc EXCEPT ![u] = "task"] \in [Updaters -> {"idle", "spec", "task", "reset", "done"}]
    OBVIOUS
  <2> QED BY <1>1, <1>7, <1>9, <2>1, <2>2, ZenonT(60) DEF updateContainerSpec
<1>10. ASSUME NEW u \in Updaters, TaskUpdate(u) PROVE LimitTypeOK'
  <2>1. newLimit[u] \in Limits \cup {""}
    BY Zenon
  <2>2. [upc EXCEPT ![u] = "reset"] \in [Updaters -> {"idle", "spec", "task", "reset", "done"}]
    OBVIOUS
  <2> QED BY <1>1, <1>7, <1>10, <2>1, <2>2, ZenonT(60) DEF TaskUpdate
<1>11. ASSUME NEW u \in Updaters, ResetSpec(u) PROVE LimitTypeOK'
  BY <1>1, <1>7, <1>11, Zenon DEF ResetSpec
<1> QED BY <1>2, <1>3, <1>4, <1>5, <1>6, <1>8, <1>9, <1>10, <1>11, Zenon DEF LimitNext

\* Updates of any number of callers (container_update_resources_unix.go) leave the spec and the task
\* with the same limits, when none of them met the end of the start or failed to reset the spec.
LEMMA LimitsDoAgree ==
    ASSUME LimitConstants
    PROVE  LimitSpec => [](LimitTypeOK /\ LimitsAgree)
<1>0. "nobody" \notin Updaters
  BY Zenon DEF LimitConstants
<1>1. LimitInit => LimitInv
  BY <1>0, Zenon DEF LimitInit, LimitInv, UpdateLocked, TaskFollows, LimitsFollow, InTransaction
<1>2. LimitInv /\ [LimitNext]_(resVars) => LimitInv'
  <2> SUFFICES ASSUME LimitInv, [LimitNext]_(resVars) PROVE LimitInv'
    BY Zenon
  <2>1. CASE UNCHANGED resVars
    BY <2>1, Zenon DEF resVars, LimitInv, UpdateLocked, TaskFollows, LimitsFollow
  <2> QED BY <1>0, <2>1, StartLimits, UpdateLimits, Zenon DEF LimitNext
<1>3. LimitInv => LimitsAgree
  BY <1>0, Zenon DEF LimitInv, UpdateLocked, LimitsFollow, InTransaction, LimitsAgree, Settled
<1>4. LimitInit => LimitTypeOK
  <2>1. 0 \in 0 .. MaxUpdateFaults
    BY DEF LimitConstants
  <2> QED BY <2>1, Zenon DEF LimitInit, LimitTypeOK
<1>5. LimitTypeOK /\ [LimitNext]_resVars => LimitTypeOK'
  BY LimitTypes, Zenon
<1> QED BY <1>1, <1>2, <1>3, <1>4, <1>5, PTL DEF LimitSpec

-----------------------------------------------------------------------------

(* The runtime of a pod *)

(* The name that is looked up under a configuration. *)
HandlerIn(c) ==
    IF pod.untrusted THEN RuntimeUntrusted ELSE IF pod.handler = "" THEN c.defaultName ELSE pod.handler

(* A runtime that was looked up is that of the handler in one configuration, and was allowed. *)
Resolved(r) ==
    \/ r = Unset
    \/ /\ NotAllowed = ""
       /\ \E c : /\ r = [type |-> c.runtimes[HandlerIn(c)], from |-> {c}]
                 /\ c.runtimes[HandlerIn(c)] # Absent

RuntimeInv ==
    /\ plugin = "running" => config.runtimes[config.defaultName] # Absent
    /\ plugin = "running" /\ ~pod.untrusted /\ pod.handler = "" => refused = ""
    /\ Resolved(sandboxRuntime) /\ Resolved(ctrRuntime)
    /\ plugin = "starting" => refused = ""

\* What getSandboxRuntime finds is configured; without a handler it always finds the default.
LEMMA LookUp ==
    /\ Resolved(getSandboxRuntime.runtime)
    /\ RuntimeInv /\ plugin = "running" /\ ~pod.untrusted /\ pod.handler = "" => getSandboxRuntime.err = ""
<1> USE DEF untrustedWorkload, hostAccessingSandbox
<1>1. Resolved(getSandboxRuntime.runtime)
  <2>1. CASE NotAllowed # "" \/ config.runtimes[runtimeHandler] = Absent
    BY <2>1, Zenon DEF getSandboxRuntime, Resolved
  <2>2. CASE ~(NotAllowed # "" \/ config.runtimes[runtimeHandler] = Absent)
    <3>1. getSandboxRuntime.runtime = [type |-> config.runtimes[runtimeHandler], from |-> {config}]
      BY <2>2, Zenon DEF getSandboxRuntime, Chosen
    <3>2. runtimeHandler = HandlerIn(config)
      BY Zenon DEF runtimeHandler, HandlerIn
    <3> QED BY <2>2, <3>1, <3>2, Zenon DEF Resolved
  <2> QED BY <2>1, <2>2, Zenon
<1>2. ASSUME RuntimeInv, plugin = "running", ~pod.untrusted, pod.handler = ""
      PROVE  getSandboxRuntime.err = ""
  <2>1. NotAllowed = ""
    BY <1>2, Zenon DEF NotAllowed
  <2>2. runtimeHandler = config.defaultName
    BY <1>2, Zenon DEF runtimeHandler
  <2> QED BY <1>2, <2>1, <2>2, Zenon DEF getSandboxRuntime, RuntimeInv
<1> QED BY <1>1, <1>2, Zenon

\* Every step keeps the runtimes resolved: a restart with another configuration changes none that is in use.
LEMMA RuntimeStep ==
    ASSUME RuntimeInv, [RuntimeNext]_(runtimeVars)
    PROVE  RuntimeInv'
<1> USE DEF Resolved, HandlerIn, NotAllowed, untrustedWorkload, hostAccessingSandbox
<1>1. CASE UNCHANGED runtimeVars
  BY <1>1, Zenon DEF runtimeVars, RuntimeInv
<1>2. CASE ValidatePluginConfig
  <2>1. /\ pod' = pod /\ sandboxRuntime' = sandboxRuntime /\ ctrRuntime' = ctrRuntime /\ refused' = refused
        /\ plugin = "starting" /\ plugin' \in {"running", "refused"}
    BY <1>2, Zenon DEF ValidatePluginConfig
  <2>2. plugin' = "running" => config'.runtimes[config'.defaultName] # Absent
    BY <1>2, Zenon DEF ValidatePluginConfig, Valid
  <2> QED BY <2>1, <2>2, Zenon DEF RuntimeInv
<1>3. CASE RunPodSandbox
  <2>1. /\ plugin = "running" /\ refused' = getSandboxRuntime.err
        /\ sandboxRuntime' = getSandboxRuntime.runtime
        /\ UNCHANGED <<config, plugin, pod, ctrRuntime>>
    BY <1>3, Zenon DEF RunPodSandbox
  <2> QED BY <2>1, LookUp, Zenon DEF RuntimeInv
<1>4. CASE CreateContainer
  <2>1. /\ plugin = "running" /\ refused' = getSandboxRuntime.err
        /\ ctrRuntime' = getSandboxRuntime.runtime
        /\ UNCHANGED <<config, plugin, pod, sandboxRuntime>>
    BY <1>4, Zenon DEF CreateContainer
  <2> QED BY <2>1, LookUp, Zenon DEF RuntimeInv
<1>5. CASE Reconfigure
  BY <1>5, Zenon DEF Reconfigure, RuntimeInv
<1> QED BY <1>1, <1>2, <1>3, <1>4, <1>5, Zenon DEF RuntimeNext

\* What a configuration is made of; the names of the two deprecated entries are names.
Config ==
    [runtimes : [RuntimeNames -> Types], untrustedRuntime : Types, defaultRuntime : Types,
     defaultName : RuntimeNames \cup {""}, noPivot : BOOLEAN, withEngine : SUBSET RuntimeNames]
RuntimeConstants == Configs \subseteq Config /\ {RuntimeUntrusted, RuntimeDefault} \subseteq RuntimeNames

\* The types; the entries that migrated makes are those of the deprecated fields.
RuntimeTypes == config \in Config /\ RuntimeTypeOK

\* Every step keeps the types.
LEMMA RuntimeTyped ==
    ASSUME RuntimeConstants, RuntimeTypes, [RuntimeNext]_runtimeVars PROVE RuntimeTypes'
<1>1. \A c \in Config : migrated(c) \in Config
  BY DEF migrated, Config, RuntimeConstants
<1>2. \A c \in Config : c.runtimes \in [RuntimeNames -> Types] /\ c.defaultName \in RuntimeNames \cup {""}
  BY DEF Config
<1>3. getSandboxRuntime.err \in {"", "handler", "host access", "no runtime"}
  BY DEF getSandboxRuntime, NotAllowed
<1>4. CASE ValidatePluginConfig
  <2>1. config' \in Config /\ plugin' \in {"starting", "running", "refused"} /\ pod' = pod /\ refused' = refused
    BY <1>1, <1>4, Zenon DEF ValidatePluginConfig, RuntimeTypes
  <2> QED BY <1>2, <2>1, Zenon DEF RuntimeTypes, RuntimeTypeOK
<1>5. CASE RunPodSandbox \/ CreateContainer
  BY <1>3, <1>5, Zenon DEF RunPodSandbox, CreateContainer, RuntimeTypes, RuntimeTypeOK
<1>6. CASE Reconfigure
  <2>1. config' \in Config /\ plugin' = "starting" /\ pod' = pod /\ refused' = ""
    BY <1>6, Zenon DEF Reconfigure, RuntimeConstants
  <2> QED BY <1>2, <2>1, Zenon DEF RuntimeTypes, RuntimeTypeOK
<1>7. CASE UNCHANGED runtimeVars
  BY <1>7, Zenon DEF runtimeVars, RuntimeTypes, RuntimeTypeOK
<1> QED BY <1>4, <1>5, <1>6, <1>7, Zenon DEF RuntimeNext

(* A pod or container that is not refused runs on the runtime it was configured for,
   whatever the configurations are (ValidatePluginConfig, getSandboxRuntime). *)
LEMMA RuntimesAreRight ==
    ASSUME RuntimeConstants
    PROVE  RuntimeSpec => [](RuntimeTypeOK /\ RuntimesRight)
<1>1. RuntimeInit => RuntimeInv
  BY Zenon DEF RuntimeInit, RuntimeInv, Resolved
<1>2. RuntimeInv => RuntimesRight
  <2> SUFFICES ASSUME RuntimeInv PROVE RuntimesRight
    BY Zenon
  <2>1. \A r \in {sandboxRuntime, ctrRuntime} : \A c \in r.from :
          /\ NotAllowed = ""
          /\ r.type = c.runtimes[HandlerIn(c)] /\ r.type # Absent
    <3> SUFFICES ASSUME NEW r \in {sandboxRuntime, ctrRuntime}, NEW c \in r.from
                 PROVE  /\ NotAllowed = ""
                        /\ r.type = c.runtimes[HandlerIn(c)] /\ r.type # Absent
      BY Zenon
    <3>1. Resolved(r) /\ r # Unset
      <4>1. Resolved(r)
        BY Zenon DEF RuntimeInv
      <4>2. r # Unset
        BY DEF Unset
      <4> QED BY <4>1, <4>2, Zenon
    <3>2. PICK d : /\ r = [type |-> d.runtimes[HandlerIn(d)], from |-> {d}]
                   /\ d.runtimes[HandlerIn(d)] # Absent
      BY <3>1, Zenon DEF Resolved
    <3>3. c = d
      BY <3>2, Zenon
    <3> QED BY <3>1, <3>2, <3>3, Zenon DEF Resolved
  <2>2. NotAllowed = "" => (pod.untrusted => ~pod.host /\ pod.handler \in {"", RuntimeUntrusted})
    BY Zenon DEF NotAllowed, untrustedWorkload, hostAccessingSandbox
  <2>3. ASSUME NEW s \in sandboxRuntime.from, NEW c \in ctrRuntime.from,
               \/ s = c
               \/ pod.handler # "" /\ s.runtimes[pod.handler] = c.runtimes[pod.handler]
        PROVE  ctrRuntime.type = sandboxRuntime.type
    <3>1. sandboxRuntime.type = s.runtimes[HandlerIn(s)] /\ ctrRuntime.type = c.runtimes[HandlerIn(c)]
      BY <2>1, Zenon
    <3>2. pod.untrusted => pod.handler \in {"", RuntimeUntrusted}
      BY <2>1, <2>2, Zenon
    <3> QED BY <2>3, <3>1, <3>2, Zenon DEF HandlerIn
  <2>4. \A r \in {sandboxRuntime, ctrRuntime} : \A c \in r.from :
          /\ r.type # Absent
          /\ pod.untrusted => ~pod.host /\ r.type = c.runtimes[RuntimeUntrusted]
    BY <2>1, <2>2, Zenon DEF HandlerIn
  <2> QED BY <2>3, <2>4, Zenon DEF RuntimeInv, RuntimesRight
<1>3. RuntimeInv /\ [RuntimeNext]_runtimeVars => RuntimeInv'
  BY RuntimeStep, Zenon
<1>4. RuntimeInit => RuntimeTypes
  BY Zenon DEF RuntimeInit, RuntimeTypes, RuntimeTypeOK, RuntimeConstants, Config
<1>5. RuntimeTypes /\ [RuntimeNext]_runtimeVars => RuntimeTypes'
  BY RuntimeTyped, Zenon
<1>6. RuntimeTypes => RuntimeTypeOK
  BY Zenon DEF RuntimeTypes
<1> QED BY <1>1, <1>2, <1>3, <1>4, <1>5, <1>6, PTL DEF RuntimeSpec

-----------------------------------------------------------------------------

(* Sequences *)

\* An element of a sequence is one of the values.
LEMMA Element == ASSUME NEW V, NEW s \in Seq(V), NEW i \in 1 .. Len(s) PROVE s[i] \in V
OBVIOUS

\* Sequences with the same elements are the same.
LEMMA SequencesEqual ==
    ASSUME NEW V, NEW s \in Seq(V), NEW t \in Seq(V), Len(s) = Len(t),
           \A i \in 1 .. Len(s) : s[i] = t[i]
    PROVE  s = t
OBVIOUS

\* What is in two sequences, one after the other.
LEMMA Concatenation ==
    ASSUME NEW V, NEW s \in Seq(V), NEW t \in Seq(V)
    PROVE  /\ s \o t \in Seq(V) /\ Len(s \o t) = Len(s) + Len(t)
           /\ \A i \in 1 .. Len(s) + Len(t) :
                 (s \o t)[i] = IF i <= Len(s) THEN s[i] ELSE t[i - Len(s)]
OBVIOUS

\* The empty sequence adds nothing.
LEMMA EmptyNeutral == ASSUME NEW V, NEW s \in Seq(V) PROVE s \o <<>> = s /\ <<>> \o s = s
OBVIOUS

\* Concatenation may be regrouped.
LEMMA Grouping ==
    ASSUME NEW V, NEW s \in Seq(V), NEW t \in Seq(V), NEW u \in Seq(V)
    PROVE  (s \o t) \o u = s \o (t \o u)
OBVIOUS

-----------------------------------------------------------------------------

INSTANCE WellFoundedInduction

(* Induction over the naturals, as a fact about sets *)

\* A set of naturals that is not empty has a least element.
LEMMA LeastNatural == \A T \in SUBSET Nat : T # {} => \E n \in T : \A m \in T : n <= m
<1> DEFINE R == OpToRel(<, Nat)
<1>1. IsWellFoundedOn(R, Nat)
  BY NatLessThanWellFounded, Zenon
<1>2. \A x, y \in Nat : <<x, y>> \in R <=> x < y
  BY Zenon DEF OpToRel
<1> HIDE DEF R
<1> SUFFICES ASSUME NEW T \in SUBSET Nat, T # {} PROVE \E n \in T : \A m \in T : n <= m
  BY Zenon
<1>3. PICK n \in T : \A m \in T : ~ (<<m, n>> \in R)
  BY <1>1, WFMin, Zenon
<1>4. ASSUME NEW m \in T PROVE n <= m
  <2>1. m \in Nat /\ n \in Nat /\ ~ (<<m, n>> \in R)
    BY <1>3, Zenon
  <2>2. ~ (m < n)
    BY <1>2, <2>1, Zenon
  <2> QED BY <2>1, <2>2
<1> QED BY <1>4, Zenon

\* A set that has 0 and, with each number below N, the next one has all up to N.
LEMMA UpTo ==
    ASSUME NEW N \in Nat, NEW S, 0 \in S, \A n \in 0 .. N - 1 : n \in S => n + 1 \in S
    PROVE  0 .. N \subseteq S
<1> DEFINE T == (0 .. N) \ S
<1> SUFFICES ASSUME T # {} PROVE FALSE
  BY Zenon
<1>1. T \in SUBSET Nat
  OBVIOUS
<1>2. PICK n \in T : \A m \in T : n <= m
  BY <1>1, LeastNatural, Zenon
<1>3. n \in 0 .. N /\ n \notin S /\ n # 0
  BY Zenon
<1>4. n - 1 \in 0 .. N - 1 /\ n - 1 \notin T
  BY <1>2, <1>3
<1>5. n - 1 \in S
  BY <1>4
<1>6. n - 1 + 1 \in S
  BY <1>4, <1>5, Zenon
<1> QED BY <1>3, <1>6

\* f[n] is what the steps G[1], ..., G[n] make of v.
Iterates(N, G, v, f) == f[0] = v /\ \A n \in 1 .. N : f[n] = G[n][f[n - 1]]

\* A step that is given as a function can be iterated.
LEMMA Iteration ==
    ASSUME NEW N \in Nat, NEW V, NEW v \in V, NEW G \in [1 .. N -> [V -> V]]
    PROVE  \E f \in [0 .. N -> V] : Iterates(N, G, v, f)
<1> DEFINE Upto(f, m) == f[0] = v /\ \A n \in 1 .. m : f[n] = G[n][f[n - 1]]
           S == {m \in 0 .. N : \E f \in [0 .. N -> V] : Upto(f, m)}
<1>1. 0 \in S
  <2> DEFINE f == [n \in 0 .. N |-> v]
  <2>1. f \in [0 .. N -> V] /\ Upto(f, 0) /\ 0 \in 0 .. N
    OBVIOUS
  <2> HIDE DEF f, Upto
  <2> QED BY <2>1, Zenon
<1>2. ASSUME NEW m \in 0 .. N - 1, m \in S PROVE m + 1 \in S
  <2>1. PICK f \in [0 .. N -> V] : Upto(f, m)
    BY <1>2, Zenon
  <2>2. f[m] \in V /\ m + 1 \in 1 .. N /\ G[m + 1] \in [V -> V] /\ G[m + 1][f[m]] \in V
    OBVIOUS
  <2> DEFINE g == [f EXCEPT ![m + 1] = G[m + 1][f[m]]]
  <2>3. g \in [0 .. N -> V] /\ g[0] = f[0] /\ g[m + 1] = G[m + 1][f[m]]
    BY <2>2
  <2>4. \A n \in 0 .. m : g[n] = f[n]
    BY <2>2
  <2> HIDE DEF g
  <2>5. Upto(g, m + 1)
    <3>1. ASSUME NEW n \in 1 .. m + 1 PROVE g[n] = G[n][g[n - 1]]
      <4>1. CASE n = m + 1
        <5>1. n - 1 = m /\ g[m] = f[m]
          BY <2>4, <4>1
        <5> QED BY <2>3, <4>1, <5>1, Zenon
      <4>2. CASE n \in 1 .. m
        BY <2>1, <2>4, <4>2
      <4> QED BY <4>1, <4>2
    <3> QED BY <2>1, <2>3, <3>1, Zenon
  <2> HIDE DEF Upto
  <2> QED BY <2>2, <2>3, <2>5
<1> HIDE DEF S
<1>3. 0 .. N \subseteq S
  BY <1>1, <1>2, UpTo, Zenon
<1>4. N \in S
  BY <1>3
<1> QED BY <1>4, Zenon DEF S, Upto, Iterates

\* A set that has the empty sequence and, with each sequence over V, the ones that are longer
\* by one element has all sequences over V.
LEMMA SeqInduction ==
    ASSUME NEW V, NEW S, <<>> \in S, \A s \in Seq(V), e \in V : s \in S => Append(s, e) \in S
    PROVE  \A s \in Seq(V) : s \in S
<1> SUFFICES ASSUME NEW s \in Seq(V) PROVE s \in S
  BY Zenon
<1> DEFINE N == Len(s)
           T == {n \in 0 .. N : SubSeq(s, 1, n) \in S}
<1>1. N \in Nat /\ SubSeq(s, 1, N) = s /\ SubSeq(s, 1, 0) = <<>>
  OBVIOUS
<1>2. 0 \in T
  <2>1. 0 \in 0 .. N
    BY <1>1
  <2> QED BY <1>1, <2>1, Zenon
<1>3. ASSUME NEW n \in 0 .. N - 1, n \in T PROVE n + 1 \in T
  <2>1. SubSeq(s, 1, n) \in Seq(V) /\ s[n + 1] \in V /\ n + 1 \in 0 .. N
    OBVIOUS
  <2>2. SubSeq(s, 1, n + 1) = Append(SubSeq(s, 1, n), s[n + 1])
    OBVIOUS
  <2>3. SubSeq(s, 1, n) \in S
    BY <1>3, Zenon
  <2> QED BY <2>1, <2>2, <2>3, Zenon
<1> HIDE DEF T
<1>4. 0 .. N \subseteq T
  BY <1>1, <1>2, <1>3, UpTo, Zenon
<1>5. N \in T
  BY <1>1, <1>4
<1> QED BY <1>1, <1>5, Zenon DEF T

-----------------------------------------------------------------------------
(* The two parts of a sequence *)

\* A sequence cut after its k-th element: both parts, and that they make up the whole.
LEMMA CutAt ==
    ASSUME NEW V, NEW s \in Seq(V), NEW k \in 0 .. Len(s)
    PROVE  /\ SubSeq(s, 1, k) \in Seq(V) /\ Len(SubSeq(s, 1, k)) = k
           /\ \A i \in 1 .. k : SubSeq(s, 1, k)[i] = s[i]
           /\ SubSeq(s, k + 1, Len(s)) \in Seq(V) /\ Len(SubSeq(s, k + 1, Len(s))) = Len(s) - k
           /\ \A j \in 1 .. Len(s) - k : SubSeq(s, k + 1, Len(s))[j] = s[k + j]
           /\ SubSeq(s, 1, k) \o SubSeq(s, k + 1, Len(s)) = s
<1>1. k \in Nat /\ Len(s) \in Nat /\ k <= Len(s)
  OBVIOUS
<1>2. SubSeq(s, 1, k) \in Seq(V) /\ Len(SubSeq(s, 1, k)) = k
  OBVIOUS
<1>3. \A i \in 1 .. k : SubSeq(s, 1, k)[i] = s[i]
  OBVIOUS
<1>4. SubSeq(s, k + 1, Len(s)) \in Seq(V) /\ Len(SubSeq(s, k + 1, Len(s))) = Len(s) - k
  BY <1>1
<1>5. \A j \in 1 .. Len(s) - k : SubSeq(s, k + 1, Len(s))[j] = s[k + j]
  BY <1>1
<1>6. SubSeq(s, 1, k) \o SubSeq(s, k + 1, Len(s)) = s
  <2> DEFINE p == SubSeq(s, 1, k)
             q == SubSeq(s, k + 1, Len(s))
  <2>1. p \in Seq(V) /\ Len(p) = k /\ q \in Seq(V) /\ Len(q) = Len(s) - k
    BY <1>2, <1>4
  <2>2. \A i \in 1 .. k : p[i] = s[i]
    BY <1>3
  <2>3. \A j \in 1 .. Len(s) - k : q[j] = s[k + j]
    BY <1>5
  <2> HIDE DEF p, q
  <2>4. p \o q \in Seq(V) /\ Len(p \o q) = Len(s)
    BY <1>1, <2>1
  <2>5. ASSUME NEW i \in 1 .. Len(s) PROVE (p \o q)[i] = s[i]
    <3>1. CASE i <= k
      BY <1>1, <2>1, <2>2, <3>1
    <3>2. CASE ~ (i <= k)
      <4>1. (p \o q)[i] = q[i - k] /\ i - k \in 1 .. Len(s) - k /\ k + (i - k) = i
        BY <1>1, <2>1, <3>2
      <4> QED BY <2>3, <4>1, Zenon
    <3> QED BY <3>1, <3>2, Zenon
  <2> QED BY <2>4, <2>5, SequencesEqual, Zenon DEF p, q
<1> QED BY <1>2, <1>3, <1>4, <1>5, <1>6, Zenon

\* What is left of what is left.
LEMMA LeftOf ==
    ASSUME NEW V, NEW s \in Seq(V), NEW k \in 0 .. Len(s), NEW t, t = SubSeq(s, k + 1, Len(s)),
           NEW m \in 0 .. Len(t)
    PROVE  k + m \in 0 .. Len(s) /\ SubSeq(t, m + 1, Len(t)) = SubSeq(s, k + m + 1, Len(s))
<1>1. /\ t \in Seq(V) /\ Len(t) = Len(s) - k /\ Len(s) \in Nat /\ k \in Nat /\ m \in Nat
      /\ \A j \in 1 .. Len(s) - k : t[j] = s[k + j]
  <2>1. /\ t \in Seq(V) /\ Len(t) = Len(s) - k
        /\ \A j \in 1 .. Len(s) - k : t[j] = s[k + j]
    BY CutAt, ZenonT(60)
  <2>2. Len(s) \in Nat /\ Len(t) \in Nat
    BY <2>1
  <2> QED BY <2>1, <2>2
<1>2. k + m \in 0 .. Len(s)
  BY <1>1
<1> DEFINE u == SubSeq(t, m + 1, Len(t))
           w == SubSeq(s, k + m + 1, Len(s))
<1>3. u \in Seq(V) /\ Len(u) = Len(t) - m /\ \A j \in 1 .. Len(t) - m : u[j] = t[m + j]
  <2> SUFFICES ASSUME NEW x \in Seq(V), NEW n \in 0 .. Len(x)
               PROVE  LET y == SubSeq(x, n + 1, Len(x))
                      IN  y \in Seq(V) /\ Len(y) = Len(x) - n /\ \A j \in 1 .. Len(x) - n : y[j] = x[n + j]
    BY <1>1, Zenon
  <2> QED BY CutAt, Zenon
<1>4. w \in Seq(V) /\ Len(w) = Len(s) - (k + m) /\ \A j \in 1 .. Len(s) - (k + m) : w[j] = s[k + m + j]
  BY <1>2, CutAt, Zenon
<1> HIDE DEF u, w
<1>5. Len(u) = Len(w) /\ Len(u) = Len(t) - m
  BY <1>1, <1>3, <1>4, SMTT(60)
<1>6. ASSUME NEW j \in 1 .. Len(u) PROVE u[j] = w[j]
  <2>1. j \in 1 .. Len(t) - m /\ m + j \in 1 .. Len(s) - k /\ k + (m + j) = k + m + j
    BY <1>1, <1>5, SMTT(60)
  <2>2. j \in 1 .. Len(s) - (k + m)
    BY <1>1, <1>4, <1>5
  <2> QED BY <1>1, <1>3, <1>4, <2>1, <2>2, Zenon
<1> QED BY <1>2, <1>3, <1>4, <1>5, <1>6, SequencesEqual, Zenon DEF u, w

-----------------------------------------------------------------------------
(* The elements of a sequence *)

Elements(s) == {s[i] : i \in DOMAIN s}

\* The elements of a longer sequence.
LEMMA ElementsAppend ==
    ASSUME NEW V, NEW s \in Seq(V), NEW e \in V PROVE Elements(Append(s, e)) = Elements(s) \cup {e}
<1>1. /\ DOMAIN Append(s, e) = DOMAIN s \cup {Len(s) + 1} /\ Append(s, e)[Len(s) + 1] = e
      /\ \A i \in DOMAIN s : Append(s, e)[i] = s[i]
  OBVIOUS
<1> QED BY <1>1, Zenon DEF Elements

\* The elements of two sequences, one after the other.
LEMMA ElementsConcat ==
    ASSUME NEW V, NEW s \in Seq(V), NEW t \in Seq(V) PROVE Elements(s \o t) = Elements(s) \cup Elements(t)
<1>1. DOMAIN s = 1 .. Len(s) /\ DOMAIN t = 1 .. Len(t) /\ DOMAIN (s \o t) = 1 .. Len(s) + Len(t)
  OBVIOUS
<1>2. \A i \in 1 .. Len(s) : i \in 1 .. Len(s) + Len(t) /\ (s \o t)[i] = s[i]
  OBVIOUS
<1>3. \A i \in 1 .. Len(t) : Len(s) + i \in 1 .. Len(s) + Len(t) /\ (s \o t)[Len(s) + i] = t[i]
  OBVIOUS
<1>4. ASSUME NEW i \in 1 .. Len(s) + Len(t), i \notin 1 .. Len(s)
      PROVE  \E j \in 1 .. Len(t) : (s \o t)[i] = t[j]
  <2>1. i - Len(s) \in 1 .. Len(t) /\ (s \o t)[i] = t[i - Len(s)]
    BY <1>4
  <2> QED BY <2>1, Zenon
<1> DEFINE u == s \o t
<1> HIDE DEF u
<1>5. Elements(u) \subseteq Elements(s) \cup Elements(t)
  BY <1>1, <1>2, <1>4, Zenon DEF Elements, u
<1>6. Elements(s) \subseteq Elements(u)
  BY <1>1, <1>2, Zenon DEF Elements, u
<1>7. Elements(t) \subseteq Elements(u)
  BY <1>1, <1>3, Zenon DEF Elements, u
<1> QED BY <1>5, <1>6, <1>7, Zenon DEF u

-----------------------------------------------------------------------------
(* Sequences put together from others *)

\* f[n] is what the first n of ss make up.
Joins(V, ss, f) ==
    /\ f \in [0 .. Len(ss) -> Seq(V)] /\ f[0] = <<>> /\ Join(ss) = f[Len(ss)]
    /\ \A n \in 1 .. Len(ss) : f[n] = f[n - 1] \o ss[n]

\* What Join makes, without its recursion.
LEMMA JoinSteps ==
    ASSUME NEW V, NEW ss \in Seq(Seq(V)) PROVE \E f : Joins(V, ss, f)
<1> DEFINE N == Len(ss)
           G == [n \in 1 .. N |-> [s \in Seq(V) |-> s \o ss[n]]]
           join[n \in 0 .. N] == IF n = 0 THEN <<>> ELSE join[n - 1] \o ss[n]
           Def(f) == f = [n \in 0 .. N |-> IF n = 0 THEN <<>> ELSE f[n - 1] \o ss[n]]
<1>1. N \in Nat /\ <<>> \in Seq(V)
  OBVIOUS
<1>2. G \in [1 .. N -> [Seq(V) -> Seq(V)]]
  <2>1. ASSUME NEW n \in 1 .. N, NEW s \in Seq(V) PROVE s \o ss[n] \in Seq(V)
    <3>1. ss[n] \in Seq(V)
      BY Element, Zenon
    <3> QED BY <3>1, Concatenation, Zenon
  <2> QED BY <2>1, Zenon
<1>3. \A n \in 1 .. N, s \in Seq(V) : G[n][s] = s \o ss[n]
  BY Zenon
<1>4. \A n \in 1 .. N : n # 0 /\ n - 1 \in 0 .. N
  BY <1>1
<1>5. \A n \in 0 .. N : n # 0 => n \in 1 .. N
  BY <1>1
<1> HIDE DEF N, G, join, Def
<1>6. PICK f \in [0 .. N -> Seq(V)] : Iterates(N, G, <<>>, f)
  BY <1>1, <1>2, Iteration, Zenon
<1>7. \A n \in 1 .. N : f[n] = f[n - 1] \o ss[n]
  <2> TAKE n \in 1 .. N
  <2>1. f[n - 1] \in Seq(V)
    BY <1>4, Zenon
  <2> QED BY <1>3, <1>6, <2>1, Zenon DEF Iterates
<1>8. Def(f)
  <2>1. \A n \in 0 .. N : f[n] = IF n = 0 THEN <<>> ELSE f[n - 1] \o ss[n]
    BY <1>5, <1>6, <1>7, Zenon DEF Iterates
  <2> QED BY <2>1, Zenon DEF Def
<1>9. join = CHOOSE g : Def(g)
  BY Zenon DEF join, Def
<1>10. Def(join)
  BY <1>8, <1>9, Zenon
<1>11. Join(ss) = join[N]
  BY Zenon DEF Join, join, N
<1>12. join[N] = f[N]
  <2> DEFINE S == {n \in 0 .. N : join[n] = f[n]}
  <2>1. \A n \in 0 .. N : join[n] = IF n = 0 THEN <<>> ELSE join[n - 1] \o ss[n]
    BY <1>10, Zenon DEF Def
  <2>2. 0 \in S
    <3>1. 0 \in 0 .. N
      BY <1>1
    <3> QED BY <1>6, <2>1, <3>1, Zenon DEF Iterates
  <2>3. ASSUME NEW n \in 0 .. N - 1, n \in S PROVE n + 1 \in S
    <3>1. PICK m \in 1 .. N : m = n + 1 /\ m \in 0 .. N /\ m # 0 /\ m - 1 = n
      BY <1>1
    <3>2. f[m] = f[n] \o ss[m]
      BY <1>7, <3>1, Zenon
    <3>3. join[m] = join[n] \o ss[m]
      BY <2>1, <3>1, Zenon
    <3>4. join[n] = f[n]
      BY <2>3, Zenon
    <3> QED BY <3>1, <3>2, <3>3, <3>4, Zenon
  <2> HIDE DEF S
  <2>4. 0 .. N \subseteq S
    BY <1>1, <2>2, <2>3, UpTo, Zenon
  <2> QED BY <1>1, <2>4 DEF S
<1> QED BY <1>6, <1>7, <1>11, <1>12, Zenon DEF N, Joins, Iterates

\* Nothing joined is nothing.
LEMMA JoinEmpty == Join(<<>>) = <<>>
<1>1. <<>> \in Seq(Seq({})) /\ Len(<<>>) = 0
  OBVIOUS
<1>2. PICK f : Joins({}, <<>>, f)
  BY <1>1, JoinSteps, Zenon
<1> QED BY <1>1, <1>2 DEF Joins

\* What is joined has the values of its parts.
LEMMA JoinType == ASSUME NEW V, NEW ss \in Seq(Seq(V)) PROVE Join(ss) \in Seq(V)
<1>1. PICK f : Joins(V, ss, f)
  BY JoinSteps, Zenon
<1>2. Len(ss) \in 0 .. Len(ss)
  OBVIOUS
<1> QED BY <1>1, <1>2, Zenon DEF Joins

\* One more sequence is added at the end.
LEMMA JoinAppend ==
    ASSUME NEW V, NEW ss \in Seq(Seq(V)), NEW s \in Seq(V)
    PROVE  Join(Append(ss, s)) = Join(ss) \o s
<1> DEFINE N == Len(ss)
           tt == Append(ss, s)
           S == {n \in 0 .. N : \A f, g : Joins(V, ss, f) /\ Joins(V, tt, g) => f[n] = g[n]}
<1>1. N \in Nat /\ tt \in Seq(Seq(V)) /\ Len(tt) = N + 1 /\ tt[N + 1] = s
  OBVIOUS
<1>2. \A n \in 1 .. N : tt[n] = ss[n] /\ n \in 1 .. N + 1
  OBVIOUS
<1> HIDE DEF tt, N
<1>3. 0 \in S
  <2>1. 0 \in 0 .. N
    BY <1>1
  <2> QED BY <2>1, Zenon DEF Joins
<1>4. ASSUME NEW n \in 0 .. N - 1, n \in S PROVE n + 1 \in S
  <2>1. PICK m \in 1 .. N : m = n + 1 /\ m \in 0 .. N /\ m - 1 = n
    BY <1>1
  <2>2. ASSUME NEW f, NEW g, Joins(V, ss, f), Joins(V, tt, g) PROVE f[m] = g[m]
    <3>1. f[m] = f[n] \o ss[m]
      BY <2>1, <2>2, Zenon DEF Joins, N
    <3>2. g[m] = g[n] \o ss[m]
      BY <1>1, <1>2, <2>1, <2>2, Zenon DEF Joins
    <3>3. f[n] = g[n]
      BY <1>4, <2>2, Zenon
    <3> QED BY <3>1, <3>2, <3>3, Zenon
  <2> QED BY <2>1, <2>2, Zenon
<1> HIDE DEF S
<1>5. 0 .. N \subseteq S
  BY <1>1, <1>3, <1>4, UpTo, Zenon
<1>6. PICK f : Joins(V, ss, f)
  BY JoinSteps, Zenon
<1>7. PICK g : Joins(V, tt, g)
  BY <1>1, JoinSteps, Zenon
<1>8. f[N] = g[N]
  <2>1. N \in S
    BY <1>1, <1>5
  <2> QED BY <1>6, <1>7, <2>1, Zenon DEF S
<1>9. PICK m \in 1 .. N + 1 : m = N + 1 /\ m - 1 = N
  BY <1>1
<1>10. g[m] = g[N] \o tt[m]
  BY <1>1, <1>7, <1>9, Zenon DEF Joins
<1>11. Join(ss) = f[N] /\ Join(tt) = g[m] /\ tt[m] = s
  BY <1>1, <1>6, <1>7, <1>9, Zenon DEF Joins, N
<1> QED BY <1>8, <1>10, <1>11, Zenon DEF tt

\* What is joined of two sequences is joined of each.
LEMMA JoinConcat ==
    ASSUME NEW V, NEW ss \in Seq(Seq(V)), NEW tt \in Seq(Seq(V))
    PROVE  Join(ss \o tt) = Join(ss) \o Join(tt)
<1> DEFINE S == {u \in Seq(Seq(V)) : Join(ss \o u) = Join(ss) \o Join(u)}
<1>1. <<>> \in S
  <2>1. <<>> \in Seq(Seq(V)) /\ ss \o <<>> = ss
    OBVIOUS
  <2>2. Join(ss) \o <<>> = Join(ss)
    BY JoinType
  <2> QED BY <2>1, <2>2, JoinEmpty, Zenon
<1>2. ASSUME NEW u \in Seq(Seq(V)), NEW e \in Seq(V), u \in S PROVE Append(u, e) \in S
  <2>1. Append(u, e) \in Seq(Seq(V)) /\ ss \o u \in Seq(Seq(V)) /\ ss \o Append(u, e) = Append(ss \o u, e)
    BY SMTT(60)
  <2>2. Join(ss \o Append(u, e)) = Join(ss \o u) \o e /\ Join(Append(u, e)) = Join(u) \o e
    BY <2>1, JoinAppend, Zenon
  <2>3. Join(ss) \in Seq(V) /\ Join(u) \in Seq(V)
    BY JoinType, Zenon
  <2>4. (Join(ss) \o Join(u)) \o e = Join(ss) \o (Join(u) \o e)
    BY <2>3, SMTT(60)
  <2>5. Join(ss \o u) = Join(ss) \o Join(u)
    BY <1>2, Zenon
  <2> QED BY <2>1, <2>2, <2>4, <2>5, Zenon
<1> HIDE DEF S
<1>3. tt \in S
  BY <1>1, <1>2, SeqInduction, Zenon
<1> QED BY <1>3, Zenon DEF S
-----------------------------------------------------------------------------
(* Selections *)

\* The sequences that Select joins.
Picks(s, I) == [i \in DOMAIN s |-> IF i \in I THEN <<s[i]>> ELSE <<>>]

\* To select is to join the elements that are picked, each a sequence of its own.
LEMMA SelectJoins == \A s, I : Select(s, I) = Join(Picks(s, I))
BY Zenon DEF Select, Picks

\* What is picked of each element.
LEMMA PicksType ==
    ASSUME NEW V, NEW s \in Seq(V), NEW I
    PROVE  /\ Picks(s, I) \in Seq(Seq(V)) /\ DOMAIN Picks(s, I) = 1 .. Len(s) /\ Len(Picks(s, I)) = Len(s)
           /\ \A i \in 1 .. Len(s) : Picks(s, I)[i] = IF i \in I THEN <<s[i]>> ELSE <<>>
<1>1. DOMAIN s = 1 .. Len(s) /\ Len(s) \in Nat
  OBVIOUS
<1>2. \A i \in 1 .. Len(s) : (IF i \in I THEN <<s[i]>> ELSE <<>>) \in Seq(V)
  <2> TAKE i \in 1 .. Len(s)
  <2>1. s[i] \in V
    OBVIOUS
  <2> QED BY <2>1
<1> DEFINE P == [i \in 1 .. Len(s) |-> IF i \in I THEN <<s[i]>> ELSE <<>>]
<1>3. P = Picks(s, I)
  BY <1>1, Zenon DEF Picks
<1>4. P \in [1 .. Len(s) -> Seq(V)]
  BY <1>2, Zenon
<1>5. /\ DOMAIN P = 1 .. Len(s)
      /\ \A i \in 1 .. Len(s) : P[i] = IF i \in I THEN <<s[i]>> ELSE <<>>
  BY Zenon
<1> HIDE DEF P
<1>6. P \in Seq(Seq(V)) /\ Len(P) = Len(s)
  BY <1>1, <1>4, <1>5
<1> QED BY <1>3, <1>5, <1>6, Zenon

\* What is selected are values of the sequence.
LEMMA SelectType == ASSUME NEW V, NEW s \in Seq(V), NEW I PROVE Select(s, I) \in Seq(V)
<1>1. Picks(s, I) \in Seq(Seq(V))
  BY PicksType, Zenon
<1> QED BY <1>1, SelectJoins, JoinType, Zenon

\* There is nothing to select from nothing.
LEMMA SelectEmpty == \A I : Select(<<>>, I) = <<>>
<1> TAKE I
<1>1. <<>> \in Seq({}) /\ Len(<<>>) = 0
  OBVIOUS
<1>2. Picks(<<>>, I) \in Seq(Seq({})) /\ Len(Picks(<<>>, I)) = 0
  BY <1>1, PicksType, Zenon
<1>3. Picks(<<>>, I) = <<>>
  BY <1>2
<1> QED BY <1>3, JoinEmpty, SelectJoins, Zenon

\* Only the positions of the sequence matter.
LEMMA SelectSame ==
    ASSUME NEW s, NEW I, NEW J, \A i \in DOMAIN s : i \in I <=> i \in J
    PROVE  Select(s, I) = Select(s, J)
<1>1. Picks(s, I) = Picks(s, J)
  BY Zenon DEF Picks
<1> QED BY <1>1, SelectJoins, Zenon

\* J has the positions that I has after the first n, of the next m.
After(n, m, I, J) == \A j \in 1 .. m : j \in J <=> n + j \in I

\* Of two sequences one after the other the first keeps its positions.
LEMMA SelectConcat ==
    ASSUME NEW V, NEW s \in Seq(V), NEW t \in Seq(V), NEW I, NEW J, After(Len(s), Len(t), I, J)
    PROVE  Select(s \o t, I) = Select(s, I) \o Select(t, J)
<1> DEFINE P == Picks(s, I)
           Q == Picks(t, J)
           R == Picks(s \o t, I)
<1>1. s \o t \in Seq(V) /\ Len(s \o t) = Len(s) + Len(t) /\ Len(s) \in Nat /\ Len(t) \in Nat
  OBVIOUS
<1>2. P \in Seq(Seq(V)) /\ Q \in Seq(Seq(V)) /\ R \in Seq(Seq(V))
  BY <1>1, PicksType, Zenon
<1>3. Len(P) = Len(s) /\ Len(Q) = Len(t) /\ Len(R) = Len(s) + Len(t)
  BY <1>1, PicksType, ZenonT(60)
<1>4. /\ \A i \in 1 .. Len(s) : P[i] = IF i \in I THEN <<s[i]>> ELSE <<>>
      /\ \A i \in 1 .. Len(t) : Q[i] = IF i \in J THEN <<t[i]>> ELSE <<>>
      /\ \A i \in 1 .. Len(s \o t) : R[i] = IF i \in I THEN <<(s \o t)[i]>> ELSE <<>>
  <2>1. \A K : \A u \in Seq(V) : \A i \in 1 .. Len(u) : Picks(u, K)[i] = IF i \in K THEN <<u[i]>> ELSE <<>>
    BY PicksType, Zenon
  <2> QED BY <1>1, <2>1, Zenon
<1> HIDE DEF P, Q, R
<1>5. ASSUME NEW i \in 1 .. Len(s) PROVE R[i] = P[i]
  <2>1. (s \o t)[i] = s[i] /\ i \in 1 .. Len(s \o t)
    BY <1>1
  <2> QED BY <1>4, <2>1, Zenon
<1>6. ASSUME NEW j \in 1 .. Len(t) PROVE R[Len(s) + j] = Q[j]
  <2>1. (s \o t)[Len(s) + j] = t[j] /\ Len(s) + j \in 1 .. Len(s \o t)
    BY <1>1
  <2>2. j \in J <=> Len(s) + j \in I
    BY Zenon DEF After
  <2> QED BY <1>4, <2>1, <2>2, Zenon
<1>7. R = P \o Q
  <2>1. P \o Q \in Seq(Seq(V)) /\ Len(P \o Q) = Len(R)
    <3>1. P \o Q \in Seq(Seq(V)) /\ Len(P \o Q) = Len(P) + Len(Q)
      BY <1>2, Concatenation, Zenon
    <3> QED BY <1>3, <3>1, Zenon
  <2>2. ASSUME NEW i \in 1 .. Len(R) PROVE R[i] = (P \o Q)[i]
    <3>1. CASE i \in 1 .. Len(s)
      <4>1. (P \o Q)[i] = P[i]
        <5>1. i \in 1 .. Len(P) + Len(Q) /\ i <= Len(P)
          BY <1>1, <1>3, <3>1
        <5> QED BY <1>2, <5>1, Concatenation, Zenon
      <4> QED BY <1>5, <3>1, <4>1, Zenon
    <3>2. CASE i \notin 1 .. Len(s)
      <4>1. PICK j \in 1 .. Len(t) : i = Len(s) + j
        <5>1. i - Len(s) \in 1 .. Len(t) /\ i = Len(s) + (i - Len(s))
          BY <1>1, <1>3, <3>2
        <5> QED BY <5>1, Zenon
      <4>2. (P \o Q)[i] = Q[j]
        <5>1. i \in 1 .. Len(P) + Len(Q) /\ ~ (i <= Len(P)) /\ i - Len(P) = j
          BY <1>1, <1>3, <4>1
        <5> QED BY <1>2, <5>1, Concatenation, Zenon
      <4> QED BY <1>6, <4>1, <4>2, Zenon
    <3> QED BY <3>1, <3>2, Zenon
  <2> QED BY <1>2, <2>1, <2>2, SequencesEqual, Zenon
<1>8. Join(R) = Join(P) \o Join(Q)
  BY <1>2, <1>7, JoinConcat, Zenon
<1> QED BY <1>8, SelectJoins, Zenon DEF P, Q, R

\* One more element is selected or not.
LEMMA SelectAppend ==
    ASSUME NEW V, NEW s \in Seq(V), NEW e \in V, NEW I
    PROVE  /\ Len(s) + 1 \in I => Select(Append(s, e), I) = Append(Select(s, I), e)
           /\ Len(s) + 1 \notin I => Select(Append(s, e), I) = Select(s, I)
<1> DEFINE t == Append(s, e)
           P == Picks(s, I)
           p == IF Len(s) + 1 \in I THEN <<e>> ELSE <<>>
<1>1. t \in Seq(V) /\ Len(t) = Len(s) + 1 /\ t[Len(s) + 1] = e /\ Len(s) \in Nat /\ p \in Seq(V)
  OBVIOUS
<1>2. \A i \in 1 .. Len(s) : t[i] = s[i] /\ i \in 1 .. Len(s) + 1
  OBVIOUS
<1>3. Select(s, I) \in Seq(V)
  BY SelectType, Zenon
<1>4. Select(s, I) \o <<e>> = Append(Select(s, I), e) /\ Select(s, I) \o <<>> = Select(s, I)
  BY <1>3
<1>5. /\ P \in Seq(Seq(V)) /\ Len(P) = Len(s)
      /\ \A i \in 1 .. Len(s) : P[i] = IF i \in I THEN <<s[i]>> ELSE <<>>
  BY PicksType, Zenon
<1> HIDE DEF t
<1>6. /\ Picks(t, I) \in Seq(Seq(V)) /\ Len(Picks(t, I)) = Len(t)
      /\ \A i \in 1 .. Len(t) : Picks(t, I)[i] = IF i \in I THEN <<t[i]>> ELSE <<>>
  BY <1>1, PicksType, Zenon
<1>7. Picks(t, I)[Len(s) + 1] = p
  <2>1. Len(s) + 1 \in 1 .. Len(t)
    BY <1>1
  <2> QED BY <1>1, <1>6, <2>1, Zenon
<1>8. \A i \in 1 .. Len(s) : Picks(t, I)[i] = P[i]
  BY <1>1, <1>2, <1>5, <1>6, Zenon
<1> HIDE DEF P, p
<1>9. Picks(t, I) = Append(P, p)
  <2> DEFINE T == Picks(t, I)
             A == Append(P, p)
  <2>1. /\ A \in Seq(Seq(V)) /\ Len(A) = Len(s) + 1 /\ A[Len(s) + 1] = p
        /\ \A i \in 1 .. Len(s) : A[i] = P[i]
    BY <1>1, <1>5
  <2>2. T \in Seq(Seq(V)) /\ Len(T) = Len(s) + 1
    BY <1>1, <1>6, Zenon
  <2> HIDE DEF A
  <2>3. ASSUME NEW i \in 1 .. Len(T) PROVE T[i] = A[i]
    <3>1. i = Len(s) + 1 \/ i \in 1 .. Len(s)
      BY <1>1, <2>2
    <3> QED BY <1>7, <1>8, <2>1, <3>1, Zenon
  <2> HIDE DEF T
  <2>4. T = A
    BY <2>1, <2>2, <2>3, SequencesEqual, Zenon
  <2> QED BY <2>4, Zenon DEF T, A
<1>10. Join(Picks(t, I)) = Join(P) \o p
  BY <1>1, <1>5, <1>9, JoinAppend, Zenon
<1>11. Select(t, I) = Select(s, I) \o p
  BY <1>10, SelectJoins, Zenon DEF P
<1> QED BY <1>4, <1>11, Zenon DEF t, p

\* What is selected are the elements at the positions.
LEMMA SelectRange ==
    ASSUME NEW V, NEW s \in Seq(V), NEW I
    PROVE  Elements(Select(s, I)) = {s[i] : i \in DOMAIN s \cap I}
<1> DEFINE At(u) == {u[i] : i \in DOMAIN u \cap I}
           S == {u \in Seq(V) : Elements(Select(u, I)) = At(u)}
<1>1. <<>> \in S
  <2>1. <<>> \in Seq(V) /\ Elements(<<>>) = {} /\ At(<<>>) = {}
    BY DEF Elements
  <2>2. Select(<<>>, I) = <<>>
    BY SelectEmpty, Zenon
  <2> HIDE DEF At
  <2> QED BY <2>1, <2>2, Zenon
<1>3. ASSUME NEW u \in Seq(V), NEW e \in V, u \in S PROVE Append(u, e) \in S
  <2>1. Append(u, e) \in Seq(V) /\ Select(u, I) \in Seq(V)
    BY SelectType
  <2>2. At(Append(u, e)) = IF Len(u) + 1 \in I THEN At(u) \cup {e} ELSE At(u)
    <3>1. /\ DOMAIN Append(u, e) = DOMAIN u \cup {Len(u) + 1} /\ Append(u, e)[Len(u) + 1] = e
          /\ \A i \in DOMAIN u : Append(u, e)[i] = u[i]
      OBVIOUS
    <3> QED BY <3>1, ZenonT(60)
  <2>3. Elements(Select(u, I)) = At(u)
    BY <1>3, Zenon
  <2> HIDE DEF At
  <2>4. Elements(Select(Append(u, e), I)) = At(Append(u, e))
    <3>1. CASE Len(u) + 1 \in I
      <4>1. Select(Append(u, e), I) = Append(Select(u, I), e)
        BY <3>1, SelectAppend, ZenonT(60)
      <4>2. Elements(Append(Select(u, I), e)) = Elements(Select(u, I)) \cup {e}
        BY ElementsAppend, <2>1
      <4> QED BY <2>2, <2>3, <3>1, <4>1, <4>2, Zenon
    <3>2. CASE Len(u) + 1 \notin I
      <4>1. Select(Append(u, e), I) = Select(u, I)
        BY <3>2, SelectAppend, Zenon
      <4> QED BY <2>2, <2>3, <3>2, <4>1, Zenon
    <3> QED BY <3>1, <3>2, Zenon
  <2> QED BY <2>1, <2>4, Zenon
<1> HIDE DEF S
<1>4. s \in S
  BY <1>1, <1>3, SeqInduction, Zenon
<1> QED BY <1>4, Zenon DEF S

\* All are selected.
LEMMA SelectAll ==
    ASSUME NEW V, NEW s \in Seq(V), NEW I, 1 .. Len(s) \subseteq I
    PROVE  Select(s, I) = s
<1> DEFINE S == {u \in Seq(V) : 1 .. Len(u) \subseteq I => Select(u, I) = u}
<1>1. <<>> \in S
  <2>1. <<>> \in Seq(V)
    OBVIOUS
  <2> QED BY <2>1, SelectEmpty, Zenon
<1>2. ASSUME NEW u \in Seq(V), NEW e \in V, u \in S PROVE Append(u, e) \in S
  <2>1. Append(u, e) \in Seq(V) /\ Len(Append(u, e)) = Len(u) + 1
    OBVIOUS
  <2>2. 1 .. Len(u) + 1 \subseteq I => 1 .. Len(u) \subseteq I /\ Len(u) + 1 \in I
    OBVIOUS
  <2>3. Len(u) + 1 \in I => Select(Append(u, e), I) = Append(Select(u, I), e)
    BY SelectAppend, ZenonT(60)
  <2> QED BY <1>2, <2>1, <2>2, <2>3, Zenon
<1> HIDE DEF S
<1>3. s \in S
  BY <1>1, <1>2, SeqInduction, Zenon
<1> QED BY <1>3, Zenon DEF S

-----------------------------------------------------------------------------

(* The mounts of a container *)

\* A path is a sequence of names.  (The provers do not know of a string that it is in STRING.)
Names == STRING \cup {"sys", "fs", "cgroup"}
Path == Seq(Names)

MountConstants ==
    /\ CRIPaths \subseteq Path /\ VolumePaths \subseteq Path /\ MaxCRIMounts \in Nat
    /\ SystemFiles \in Seq(Path) /\ DefaultMounts \in Seq(Path)

Makers == {"cri", "system", "volume"}
Mounted == [from : Makers \cup {"default"}, dst : Path, propagation : Propagations]

\* The fields of a mount.
LEMMA MountIs ==
    ASSUME NEW f, NEW d, NEW p
    PROVE  /\ Mount(f, d, p).from = f /\ Mount(f, d, p).dst = d /\ Mount(f, d, p).propagation = p
           /\ f \in Makers \cup {"default"} /\ d \in Path /\ p \in Propagations => Mount(f, d, p) \in Mounted
BY DEF Mount, Mounted

\* A mount for each of some paths.
Mounting(from, D) == {Mount(from, d, "private") : d \in D}

\* The mounts that Plain makes of a list of paths.
LEMMA PlainIs ==
    ASSUME NEW f \in Makers \cup {"default"}, NEW ps \in Seq(Path)
    PROVE  Plain(f, ps) \in Seq(Mounted) /\ Elements(Plain(f, ps)) = Mounting(f, Elements(ps))
<1>1. \A d \in Path : Mount(f, d, "private") \in Mounted
  BY MountIs DEF Propagations
<1>2. \A i \in 1 .. Len(ps) : ps[i] \in Path
  OBVIOUS
<1>3. Plain(f, ps) = [i \in 1 .. Len(ps) |-> Mount(f, ps[i], "private")]
  BY DEF Plain
<1>4. Plain(f, ps) \in [1 .. Len(ps) -> Mounted]
  BY <1>1, <1>2, <1>3, Zenon
<1>5. Len(ps) \in Nat /\ DOMAIN ps = 1 .. Len(ps)
  OBVIOUS
<1>6. Plain(f, ps) \in Seq(Mounted)
  BY <1>4, <1>5
<1>7. DOMAIN Plain(f, ps) = DOMAIN ps /\ \A i \in DOMAIN ps : Plain(f, ps)[i] = Mount(f, ps[i], "private")
  BY Zenon DEF Plain
<1>8. Elements(Plain(f, ps)) = Mounting(f, Elements(ps))
  BY <1>7, Zenon DEF Elements, Mounting
<1> QED BY <1>6, <1>8

\* The paths CRI asks for, and the mounts that are supplied: those of CRI, and elsewhere those
\* of the system files and the volumes.
AskedPaths == Paths(criMounts)
Dsts(S) == {m.dst : m \in S}
FilesLeft(hasHostname) ==
    {d \in Elements(SystemFiles) : d \notin AskedPaths /\ (d = etcHostname => hasHostname)}
VolumesLeft == {d \in Elements(volumes) : d \notin AskedPaths}
SuppliedBy(hasHostname) ==
    Elements(criMounts) \cup Mounting("system", FilesLeft(hasHostname)) \cup Mounting("volume", VolumesLeft)

\* The default mounts that stay.
Defaults == (Elements(DefaultMounts) \ {run}) \cup {cgroup}
KeptWith(S) ==
    {Mount("default", d, "private") : d \in {e \in Defaults :
        e \notin Dsts(S) /\ ~(dev \in Dsts(S) /\ AtOrAbove(dev, e))}}

\* The mounts of a whole spec: the default ones that stay, then the supplied ones by their parts.
Sorted(ms) ==
    \A i, j \in DOMAIN ms : i < j /\ ms[i].from # "default" =>
        ms[j].from # "default" /\ parts(ms[i].dst) <= parts(ms[j].dst)
Whole(ms, hasHostname) ==
    /\ ms \in Seq(Mounted) /\ Sorted(ms)
    /\ Elements(ms) = KeptWith(SuppliedBy(hasHostname)) \cup SuppliedBy(hasHostname)

\* The strongest propagation of some mounts.
Asking(ms, p) == \E m \in Elements(ms) : m.propagation = p
Strongest(ms) ==
    IF Asking(ms, "bidirectional") THEN "rshared"
    ELSE IF Asking(ms, "host_to_container") THEN "rslave" ELSE ""

\* Whatever has been added so far, the spec and what is still to be added have together exactly the
\* mounts that are kept or supplied, in order; the root has the strongest propagation in the spec.
MountInv ==
    /\ criMounts \in Seq(CRIMount) /\ volumes \in Seq(VolumePaths)
    /\ host \in {"shared", "master", "private"} /\ making \in {"new", "adding", "done", "failed"}
    /\ mounts \in Seq(Mounted) /\ specMounts \in Seq(Mounted)
    /\ \A m \in Elements(mounts) : m.from \in Makers
    /\ making = "new" => specMounts = Plain("default", DefaultMounts) /\ mounts = <<>>
    /\ making # "new" => \E h \in BOOLEAN : Whole(specMounts \o mounts, h)
    /\ making = "done" => mounts = <<>>
    /\ rootfs = Strongest(specMounts) /\ \A m \in Elements(specMounts) : Propagates(m)

\* What is selected of a sequence of mounts or paths: those in a set.
Leaving(s, I, E) == \A i \in DOMAIN s : i \in I <=> s[i] \in E
Left(s, V, E, t) == t \in Seq(V) /\ Elements(t) = Elements(s) \cap E

\* Selecting the elements with a property leaves those, and only those.
LEMMA SelectIs ==
    ASSUME NEW V, NEW s \in Seq(V), NEW I, NEW E, Leaving(s, I, E)
    PROVE  Left(s, V, E, Select(s, I))
<1>1. Elements(Select(s, I)) = {s[i] : i \in DOMAIN s \cap I}
  BY SelectRange, Zenon
<1>2. {s[i] : i \in DOMAIN s \cap I} = Elements(s) \cap E
  BY Zenon DEF Elements, Leaving
<1>3. Select(s, I) \in Seq(V)
  BY SelectType, Zenon
<1> QED BY <1>1, <1>2, <1>3, Zenon DEF Left

\* What is merged is what is supplied.
LEMMA Merging ==
    ASSUME MountConstants, criMounts \in Seq(CRIMount), volumes \in Seq(VolumePaths), NEW h \in BOOLEAN
    PROVE  LET merged == mergeMounts(containerMounts(h) \o volumeMounts)
           IN  merged \in Seq(Mounted) /\ Elements(merged) = SuppliedBy(h)
<1> DEFINE files == Select(SystemFiles, {i \in DOMAIN SystemFiles :
                        ~isInCRIMounts(SystemFiles[i]) /\ (SystemFiles[i] = etcHostname => h)})
           vols == Select(volumes, {i \in DOMAIN volumes : ~isInCRIMounts(volumes[i])})
           extra == containerMounts(h) \o volumeMounts
           more == Select(extra, {i \in DOMAIN extra : ~isInCRIMounts(extra[i].dst)})
<1>1. SystemFiles \in Seq(Path) /\ volumes \in Seq(Path)
  BY DEF MountConstants
<1>2. Left(SystemFiles, Path, FilesLeft(h), files)
  <2>1. Leaving(SystemFiles, {i \in DOMAIN SystemFiles :
            ~isInCRIMounts(SystemFiles[i]) /\ (SystemFiles[i] = etcHostname => h)}, FilesLeft(h))
    BY Zenon DEF Elements, isInCRIMounts, AskedPaths, FilesLeft, Leaving
  <2> QED BY <1>1, <2>1, SelectIs, Zenon
<1>3. files \in Seq(Path) /\ Elements(files) = FilesLeft(h)
  BY <1>2, Zenon DEF Left, FilesLeft
<1>4. Left(volumes, Path, VolumesLeft, vols)
  <2>1. Leaving(volumes, {i \in DOMAIN volumes : ~isInCRIMounts(volumes[i])}, VolumesLeft)
    BY Zenon DEF Elements, isInCRIMounts, AskedPaths, VolumesLeft, Leaving
  <2> QED BY <1>1, <2>1, SelectIs, Zenon
<1>5. vols \in Seq(Path) /\ Elements(vols) = VolumesLeft
  BY <1>4, Zenon DEF Left, VolumesLeft
<1>6. containerMounts(h) = Plain("system", files) /\ volumeMounts = Plain("volume", vols)
  BY Zenon DEF containerMounts, volumeMounts
<1> HIDE DEF files, vols
<1>7. "system" \in Makers \cup {"default"} /\ "volume" \in Makers \cup {"default"}
  BY DEF Makers
<1>8. /\ containerMounts(h) \in Seq(Mounted) /\ volumeMounts \in Seq(Mounted)
      /\ Elements(containerMounts(h)) = Mounting("system", FilesLeft(h))
      /\ Elements(volumeMounts) = Mounting("volume", VolumesLeft)
  BY <1>3, <1>5, <1>6, <1>7, PlainIs, Zenon
<1>9. /\ extra \in Seq(Mounted)
      /\ Elements(extra) = Mounting("system", FilesLeft(h)) \cup Mounting("volume", VolumesLeft)
  <2>1. extra \in Seq(Mounted)
    BY <1>8
  <2>2. Elements(extra) = Elements(containerMounts(h)) \cup Elements(volumeMounts)
    BY <1>8, ElementsConcat
  <2> QED BY <1>8, <2>1, <2>2, Zenon
<1> HIDE DEF extra
<1>10. \A m \in Elements(extra) : m.dst \notin AskedPaths
  <2>1. ASSUME NEW f, NEW D, NEW m \in Mounting(f, D) PROVE m.dst \in D
    <3>1. PICK d \in D : m = Mount(f, d, "private")
      BY Zenon DEF Mounting
    <3> QED BY <3>1 DEF Mount
  <2>2. \A d \in FilesLeft(h) \cup VolumesLeft : d \notin AskedPaths
    BY Zenon DEF FilesLeft, VolumesLeft
  <2> QED BY <1>9, <2>1, <2>2, Zenon
<1>11. more \in Seq(Mounted) /\ Elements(more) = Elements(extra)
  <2>1. Leaving(extra, {i \in DOMAIN extra : ~isInCRIMounts(extra[i].dst)}, Elements(extra))
    BY <1>10, Zenon DEF Elements, isInCRIMounts, AskedPaths, Leaving
  <2>2. Left(extra, Mounted, Elements(extra), more)
    BY <1>9, <2>1, SelectIs, Zenon
  <2> QED BY <2>2, Zenon DEF Left
<1> HIDE DEF more
<1>12. mergeMounts(extra) = criMounts \o more
  BY Zenon DEF mergeMounts, more
<1>13. criMounts \in Seq(Mounted)
  <2>1. CRIMount \subseteq Mounted
    <3>1. "cri" \in Makers \cup {"default"}
      BY DEF Makers
    <3>2. \A d \in CRIPaths : d \in Path
      BY DEF MountConstants
    <3>3. \A d \in CRIPaths, p \in Propagations : Mount("cri", d, p) \in Mounted
      BY <3>1, <3>2, MountIs, Zenon
    <3> QED BY <3>3 DEF CRIMount
  <2> QED BY <2>1
<1>14. criMounts \o more \in Seq(Mounted)
  BY <1>11, <1>13
<1>15. Elements(criMounts \o more) = Elements(criMounts) \cup Elements(more)
  BY <1>11, <1>13, ElementsConcat
<1>16. Elements(criMounts \o more) = SuppliedBy(h)
  BY <1>9, <1>11, <1>15, Zenon DEF SuppliedBy
<1> QED BY <1>12, <1>14, <1>16, Zenon DEF extra

\* Sorting permutes.
LEMMA Sorting ==
    ASSUME NEW ms \in Seq(Mounted), NEW t \in orderedMounts(ms)
    PROVE  /\ t \in Seq(Mounted) /\ Elements(t) = Elements(ms)
           /\ \A i, j \in DOMAIN t : i < j => parts(t[i].dst) <= parts(t[j].dst)
<1> DEFINE D == DOMAIN ms
<1>1. PICK p \in [D -> D] : /\ \A i \in D : \E j \in D : p[j] = i
                            /\ t = [i \in D |-> ms[p[i]]]
                            /\ \A i, j \in D : i < j => parts(t[i].dst) <= parts(t[j].dst)
  BY Zenon DEF orderedMounts
<1>2. D = 1 .. Len(ms) /\ Len(ms) \in Nat /\ \A i \in D : ms[i] \in Mounted
  OBVIOUS
<1>3. t \in [1 .. Len(ms) -> Mounted]
  BY <1>1, <1>2, Zenon
<1>4. t \in Seq(Mounted)
  BY <1>2, <1>3
<1>5. DOMAIN t = D /\ \A i \in D : p[i] \in D /\ t[i] = ms[p[i]]
  BY <1>1, Zenon
<1>6. Elements(t) = Elements(ms)
  <2>1. \A i \in D : \E j \in D : p[j] = i
    BY <1>1, Zenon
  <2>2. ASSUME NEW e \in Elements(ms) PROVE e \in Elements(t)
    <3>1. PICK i \in D : e = ms[i]
      BY Zenon DEF Elements
    <3>2. PICK j \in D : p[j] = i
      BY <2>1, Zenon
    <3>3. j \in DOMAIN t /\ e = t[j]
      BY <1>5, <3>1, <3>2, Zenon
    <3> QED BY <3>3, Zenon DEF Elements
  <2>3. ASSUME NEW e \in Elements(t) PROVE e \in Elements(ms)
    <3>1. PICK i \in D : e = t[i]
      BY <1>5, Zenon DEF Elements
    <3>2. p[i] \in D /\ e = ms[p[i]]
      BY <1>5, <3>1, Zenon
    <3> QED BY <3>2, Zenon DEF Elements
  <2> QED BY <2>2, <2>3, Zenon
<1> QED BY <1>1, <1>4, <1>5, <1>6, Zenon

\* Who makes a mount.
LEMMA MountedBy ==
    ASSUME MountConstants, criMounts \in Seq(CRIMount), NEW h \in BOOLEAN
    PROVE  /\ \A m \in SuppliedBy(h) : m.from \in Makers
           /\ \A m \in Elements(criMounts) :
                 m.from = "cri" /\ m.propagation \in Propagations /\ m.dst \in AskedPaths
           /\ \A m \in SuppliedBy(h) : m \notin Elements(criMounts) =>
                 m.from \in {"system", "volume"} /\ m.propagation = "private" /\ m.dst \notin AskedPaths
           /\ \A S : \A m \in KeptWith(S) : m.from = "default" /\ m.propagation = "private"
<1>1. ASSUME NEW f, NEW D, NEW m \in Mounting(f, D)
      PROVE  m.from = f /\ m.dst \in D /\ m.propagation = "private"
  <2>1. PICK d \in D : m = Mount(f, d, "private")
    BY Zenon DEF Mounting
  <2> QED BY <2>1 DEF Mount
<1>2. ASSUME NEW m \in Elements(criMounts)
      PROVE  m.from = "cri" /\ m.propagation \in Propagations /\ m.dst \in AskedPaths
  <2>1. PICK i \in DOMAIN criMounts : m = criMounts[i]
    BY Zenon DEF Elements
  <2>2. criMounts[i] \in CRIMount
    OBVIOUS
  <2>3. m.from = "cri" /\ m.propagation \in Propagations
    BY <2>1, <2>2 DEF CRIMount, Mount
  <2>4. m.dst \in AskedPaths
    BY <2>1, Zenon DEF AskedPaths, Paths
  <2> QED BY <2>3, <2>4
<1>3. \A d \in FilesLeft(h) \cup VolumesLeft : d \notin AskedPaths
  BY Zenon DEF FilesLeft, VolumesLeft
<1>4. ASSUME NEW m \in SuppliedBy(h), m \notin Elements(criMounts)
      PROVE  m.from \in {"system", "volume"} /\ m.propagation = "private" /\ m.dst \notin AskedPaths
  <2>1. CASE m \in Mounting("system", FilesLeft(h))
    <3>1. m.from = "system" /\ m.dst \in FilesLeft(h) /\ m.propagation = "private"
      BY <1>1, <2>1, ZenonT(60)
    <3> QED BY <1>3, <3>1, Zenon
  <2>2. CASE m \in Mounting("volume", VolumesLeft)
    <3>1. m.from = "volume" /\ m.dst \in VolumesLeft /\ m.propagation = "private"
      BY <1>1, <2>2, Zenon
    <3> QED BY <1>3, <3>1, Zenon
  <2> QED BY <1>4, <2>1, <2>2, Zenon DEF SuppliedBy
<1>5. \A m \in SuppliedBy(h) : m.from \in Makers
  BY <1>2, <1>4, ZenonT(60) DEF Makers
<1>6. ASSUME NEW S, NEW m \in KeptWith(S) PROVE m.from = "default" /\ m.propagation = "private"
  <2>1. PICK d : m = Mount("default", d, "private")
    BY Zenon DEF KeptWith
  <2> QED BY <2>1 DEF Mount
<1> QED BY <1>2, <1>4, <1>5, <1>6, Zenon

\* Three values are a sequence.
LEMMA Triple == ASSUME NEW V, NEW a \in V, NEW b \in V, NEW c \in V PROVE <<a, b, c>> \in Seq(V)
OBVIOUS

\* The default mounts that stay.
LEMMA Keeping ==
    ASSUME MountConstants, NEW S
    PROVE  LET ms == Append(WithoutRunMount(Plain("default", DefaultMounts)), Mount("default", cgroup, "private"))
               kept == keptDefaults(ms, Dsts(S))
           IN  kept \in Seq(Mounted) /\ Elements(kept) = KeptWith(S)
<1> DEFINE all == Plain("default", DefaultMounts)
           c == Mount("default", cgroup, "private")
           others == WithoutRunMount(all)
           ms == Append(others, c)
           stays(d) == d \notin Dsts(S) /\ ~(dev \in Dsts(S) /\ AtOrAbove(dev, d) /\ d # dev)
           Stay == {m \in Elements(ms) : stays(m.dst)}
           NotRun == {m \in Elements(all) : m.dst # run}
<1>1. DefaultMounts \in Seq(Path) /\ "default" \in Makers \cup {"default"} /\ cgroup \in Path
  <2>1. "sys" \in Names /\ "fs" \in Names /\ "cgroup" \in Names
    BY Zenon DEF Names
  <2>2. cgroup \in Path
    BY <2>1, Triple, Zenon DEF cgroup, Path
  <2> QED BY <2>2 DEF MountConstants
<1>2. all \in Seq(Mounted) /\ Elements(all) = Mounting("default", Elements(DefaultMounts))
  BY <1>1, PlainIs, Zenon
<1>3. c \in Mounted
  BY <1>1, MountIs DEF Propagations
<1> HIDE DEF all
<1>4. others \in Seq(Mounted) /\ Elements(others) = NotRun
  <2>1. Leaving(all, {i \in DOMAIN all : all[i].dst # run}, NotRun)
    BY Zenon DEF Leaving, Elements
  <2>2. Left(all, Mounted, NotRun, others)
    BY <1>2, <2>1, SelectIs, Zenon DEF WithoutRunMount
  <2> QED BY <2>2, Zenon DEF Left
<1> HIDE DEF others
<1>5. ms \in Seq(Mounted)
  BY <1>3, <1>4, SMTT(60)
<1>6. Elements(ms) = NotRun \cup {c}
  BY <1>3, <1>4, ElementsAppend, SMTT(60)
<1>7. Elements(ms) = Mounting("default", Defaults)
  <2>1. c.dst = cgroup
    BY DEF Mount
  <2>2. NotRun = Mounting("default", Elements(DefaultMounts) \ {run})
    <3>1. \A d : Mount("default", d, "private").dst = d
      BY DEF Mount
    <3> QED BY <1>2, <3>1, ZenonT(60) DEF Mounting
  <2> HIDE DEF NotRun
  <2>3. {c} = Mounting("default", {cgroup})
    BY Zenon DEF Mounting
  <2> HIDE DEF c
  <2> QED BY <1>6, <2>2, <2>3, ZenonT(60) DEF Mounting, Defaults
<1> HIDE DEF ms
<1> DEFINE kept == keptDefaults(ms, Dsts(S))
<1>8. kept \in Seq(Mounted) /\ Elements(kept) = Stay
  <2>1. Leaving(ms, {i \in DOMAIN ms : stays(ms[i].dst)}, Stay)
    BY Zenon DEF Leaving, Elements
  <2>2. Left(ms, Mounted, Stay, kept)
    BY <1>5, <2>1, SelectIs, Zenon DEF keptDefaults
  <2> QED BY <2>2, Zenon DEF Left
<1>9. Stay = KeptWith(S)
  <2>1. \A d : stays(d) <=> d \notin Dsts(S) /\ ~(dev \in Dsts(S) /\ AtOrAbove(dev, d))
    BY Zenon
  <2>2. \A d : Mount("default", d, "private").dst = d
    BY DEF Mount
  <2> HIDE DEF stays
  <2> QED BY <1>7, <2>1, <2>2, ZenonT(60) DEF KeptWith, Mounting
<1> QED BY <1>8, <1>9, Zenon DEF ms, others, all

\* WithMounts up to its loop makes the whole spec.
LEMMA Made ==
    ASSUME MountConstants, MountInv, WithMounts
    PROVE  /\ mounts' \in Seq(Mounted) /\ specMounts' \in Seq(Mounted)
           /\ \A m \in Elements(mounts') : m.from \in Makers
           /\ \A m \in Elements(specMounts') : m.propagation = "private"
           /\ \E h \in BOOLEAN : Whole(specMounts' \o mounts', h)
<1> DEFINE merged(h) == mergeMounts(containerMounts(h) \o volumeMounts)
           all == Append(WithoutRunMount(specMounts), Mount("default", cgroup, "private"))
<1>1. PICK h \in BOOLEAN : /\ mounts' \in orderedMounts(merged(h))
                           /\ specMounts' = keptDefaults(all, Paths(merged(h)))
  BY Zenon DEF WithMounts
<1>2. /\ criMounts \in Seq(CRIMount) /\ volumes \in Seq(VolumePaths)
      /\ specMounts = Plain("default", DefaultMounts)
  BY Zenon DEF MountInv, WithMounts
<1>3. merged(h) \in Seq(Mounted) /\ Elements(merged(h)) = SuppliedBy(h)
  BY <1>2, Merging, Zenon
<1>4. Paths(merged(h)) = Dsts(SuppliedBy(h))
  <2>1. \A s : Paths(s) = Dsts(Elements(s))
    BY Zenon DEF Paths, Dsts, Elements
  <2> QED BY <1>3, <2>1, Zenon
<1> HIDE DEF merged
<1> DEFINE s == mounts'
           k == specMounts'
<1>5. /\ s \in Seq(Mounted) /\ Elements(s) = SuppliedBy(h)
      /\ \A i, j \in DOMAIN s : i < j => parts(s[i].dst) <= parts(s[j].dst)
  <2>1. /\ s \in Seq(Mounted) /\ Elements(s) = Elements(merged(h))
        /\ \A i, j \in DOMAIN s : i < j => parts(s[i].dst) <= parts(s[j].dst)
    BY <1>1, <1>3, Sorting, Zenon
  <2> QED BY <1>3, <2>1, Zenon
<1>6. k \in Seq(Mounted) /\ Elements(k) = KeptWith(SuppliedBy(h))
  BY <1>1, <1>2, <1>4, Keeping, ZenonT(60)
<1> HIDE DEF s, k
<1>7. /\ \A m \in Elements(s) : m.from # "default" /\ m.from \in Makers
      /\ \A m \in Elements(k) : m.from = "default" /\ m.propagation = "private"
  <2>1. /\ \A m \in Elements(s) : m.from \in Makers
        /\ \A m \in Elements(k) : m.from = "default" /\ m.propagation = "private"
    BY <1>2, <1>5, <1>6, MountedBy, Zenon
  <2>2. "default" \notin Makers
    BY DEF Makers
  <2> QED BY <2>1, <2>2, Zenon
<1>8. k \o s \in Seq(Mounted)
  BY <1>5, <1>6, SMTT(60)
<1>9. Elements(k \o s) = Elements(k) \cup Elements(s)
  BY <1>5, <1>6, ElementsConcat, SMTT(60)
<1>10. Sorted(k \o s)
  <2> SUFFICES ASSUME NEW i \in DOMAIN (k \o s), NEW j \in DOMAIN (k \o s), i < j,
                      (k \o s)[i].from # "default"
               PROVE  /\ (k \o s)[j].from # "default"
                      /\ parts((k \o s)[i].dst) <= parts((k \o s)[j].dst)
    BY Zenon DEF Sorted
  <2>1. i \in 1 .. Len(k) => i \in DOMAIN k /\ (k \o s)[i] = k[i]
    BY <1>5, <1>6
  <2>2. i \notin 1 .. Len(k)
    <3>1. i \in DOMAIN k => k[i].from = "default"
      BY <1>7, Zenon DEF Elements
    <3> QED BY <2>1, <3>1, Zenon
  <2>3. PICK a \in DOMAIN s, b \in DOMAIN s : a < b /\ (k \o s)[i] = s[a] /\ (k \o s)[j] = s[b]
    <3>1. /\ i - Len(k) \in DOMAIN s /\ j - Len(k) \in DOMAIN s /\ i - Len(k) < j - Len(k)
          /\ (k \o s)[i] = s[i - Len(k)] /\ (k \o s)[j] = s[j - Len(k)]
      BY <1>5, <1>6, <2>2, SMTT(60)
    <3> QED BY <3>1, Zenon
  <2>4. s[b].from # "default"
    BY <1>7, Zenon DEF Elements
  <2> QED BY <1>5, <2>3, <2>4, Zenon
<1>11. Whole(k \o s, h)
  BY <1>5, <1>6, <1>8, <1>9, <1>10, Zenon DEF Whole
<1> QED BY <1>5, <1>6, <1>7, <1>11, Zenon DEF s, k

\* One more mount, and its propagation.
LEMMA Stronger ==
    ASSUME MountInv, AddMount, mounts # <<>>
    PROVE  /\ mounts' \in Seq(Mounted) /\ specMounts' \in Seq(Mounted)
           /\ Elements(mounts') \subseteq Elements(mounts)
           /\ specMounts' \o mounts' = specMounts \o mounts
           /\ rootfs' = Strongest(specMounts') /\ \A m \in Elements(specMounts') : Propagates(m)
<1> DEFINE m == Head(mounts)
<1>1. /\ mounts \in Seq(Mounted) /\ specMounts \in Seq(Mounted)
      /\ rootfs = Strongest(specMounts) /\ \A n \in Elements(specMounts) : Propagates(n)
  BY Zenon DEF MountInv
<1>2. /\ Propagates(m) /\ specMounts' = Append(specMounts, m) /\ rootfs' = RootfsPropagation(m)
      /\ mounts' = Tail(mounts)
  BY Zenon DEF AddMount
<1>3. m \in Mounted /\ Tail(mounts) \in Seq(Mounted) /\ Append(specMounts, m) \in Seq(Mounted)
  BY <1>1
<1>4. Elements(Tail(mounts)) \subseteq Elements(mounts)
  <2>1. \A i \in DOMAIN Tail(mounts) : i + 1 \in DOMAIN mounts /\ Tail(mounts)[i] = mounts[i + 1]
    BY <1>1
  <2> QED BY <2>1, Zenon DEF Elements
<1>5. Append(specMounts, m) \o Tail(mounts) = specMounts \o mounts
  BY <1>1, SMTT(60)
<1>6. Elements(specMounts') = Elements(specMounts) \cup {m}
  BY <1>1, <1>2, <1>3, ElementsAppend, SMTT(60)
<1> HIDE DEF m
<1>7. \A p : Asking(specMounts', p) <=> Asking(specMounts, p) \/ m.propagation = p
  BY <1>6, Zenon DEF Asking
<1>8. rootfs' = Strongest(specMounts')
  <2>1. "rslave" # "rshared" /\ "" # "rshared"
    OBVIOUS
  <2>2. CASE m.propagation = "bidirectional"
    BY <1>2, <1>7, <2>2, Zenon DEF RootfsPropagation, Strongest
  <2>3. CASE m.propagation # "bidirectional" /\ m.propagation = "host_to_container"
    BY <1>1, <1>2, <1>7, <2>1, <2>3, Zenon DEF RootfsPropagation, Strongest
  <2>4. CASE m.propagation # "bidirectional" /\ m.propagation # "host_to_container"
    BY <1>1, <1>2, <1>7, <2>4, Zenon DEF RootfsPropagation, Strongest
  <2> QED BY <2>2, <2>3, <2>4, Zenon
<1>9. \A n \in Elements(specMounts') : Propagates(n)
  BY <1>1, <1>2, <1>6, Zenon
<1> QED BY <1>2, <1>3, <1>4, <1>5, <1>8, <1>9, Zenon

\* The request does not change.
LEMMA SameRequest ==
    ASSUME criMounts' = criMounts, volumes' = volumes, NEW h
    PROVE  Whole(specMounts' \o mounts', h) => Whole(specMounts \o mounts, h)'
<1>1. AskedPaths' = AskedPaths
  BY Zenon DEF AskedPaths
<1>2. FilesLeft(h)' = FilesLeft(h) /\ VolumesLeft' = VolumesLeft
  BY <1>1, Zenon DEF FilesLeft, VolumesLeft
<1>3. SuppliedBy(h)' = SuppliedBy(h)
  BY <1>2, Zenon DEF SuppliedBy
<1> QED BY <1>3, Zenon DEF Whole

\* A step keeps the invariant.
LEMMA MountStep ==
    ASSUME MountConstants, MountInv, [MountNext]_mountVars PROVE MountInv'
<1>1. CASE WithMounts
  <2>1. /\ criMounts' = criMounts /\ volumes' = volumes /\ host' = host /\ rootfs' = rootfs
        /\ making = "new" /\ making' = "adding"
    BY <1>1, Zenon DEF WithMounts
  <2>2. rootfs = "" /\ \A p : Asking(specMounts, p) => p = "private"
    <3>1. /\ specMounts = Plain("default", DefaultMounts) /\ rootfs = Strongest(specMounts)
      BY <2>1, Zenon DEF MountInv
    <3>2. \A n \in Elements(specMounts) : n.propagation = "private"
      <4>1. \A i \in DOMAIN DefaultMounts : Plain("default", DefaultMounts)[i].propagation = "private"
        BY DEF Plain, Mount
      <4>2. DOMAIN Plain("default", DefaultMounts) = DOMAIN DefaultMounts
        BY Zenon DEF Plain
      <4> QED BY <3>1, <4>1, <4>2, ZenonT(60) DEF Elements
    <3>3. \A p : Asking(specMounts, p) => p = "private"
      BY <3>2, Zenon DEF Asking
    <3> QED BY <3>1, <3>3 DEF Strongest
  <2>3. /\ mounts' \in Seq(Mounted) /\ specMounts' \in Seq(Mounted)
        /\ \A m \in Elements(mounts') : m.from \in Makers
        /\ \A m \in Elements(specMounts') : m.propagation = "private"
        /\ \E h \in BOOLEAN : Whole(specMounts' \o mounts', h)
    BY <1>1, Made, Zenon
  <2>4. Strongest(specMounts') = "" /\ \A m \in Elements(specMounts') : Propagates(m)'
    <3>1. \A p : Asking(specMounts', p) => p = "private"
      BY <2>3, Zenon DEF Asking
    <3>2. "private" # "bidirectional" /\ "private" # "host_to_container"
      OBVIOUS
    <3> QED BY <2>3, <3>1, <3>2, Zenon DEF Strongest, Propagates
  <2>5. \E h \in BOOLEAN : Whole(specMounts \o mounts, h)'
    BY <2>1, <2>3, SameRequest, Zenon
  <2> QED BY <2>1, <2>2, <2>3, <2>4, <2>5, Zenon DEF MountInv
<1>2. CASE AddMount
  <2>1. /\ criMounts' = criMounts /\ volumes' = volumes /\ host' = host
        /\ making = "adding" /\ making' = "adding" /\ mounts # <<>>
    BY <1>2, Zenon DEF AddMount
  <2>2. /\ mounts' \in Seq(Mounted) /\ specMounts' \in Seq(Mounted)
        /\ Elements(mounts') \subseteq Elements(mounts)
        /\ specMounts' \o mounts' = specMounts \o mounts
        /\ rootfs' = Strongest(specMounts') /\ \A m \in Elements(specMounts') : Propagates(m)
    BY <1>2, <2>1, Stronger, Zenon
  <2>3. \A m : Propagates(m) => Propagates(m)'
    BY <2>1, Zenon DEF Propagates, ensureShared, ensureSharedOrSlave
  <2>4. \E h \in BOOLEAN : Whole(specMounts \o mounts, h)'
    BY <2>1, <2>2, SameRequest, Zenon DEF MountInv
  <2> QED BY <2>1, <2>2, <2>3, <2>4, Zenon DEF MountInv
<1>3. CASE /\ UNCHANGED <<criMounts, volumes, host, mounts, specMounts, rootfs>>
           /\ \/ UNCHANGED making
              \/ making = "adding" /\ making' = "failed"
              \/ making = "adding" /\ making' = "done" /\ mounts = <<>>
  <2>1. /\ criMounts' = criMounts /\ volumes' = volumes /\ host' = host
        /\ mounts' = mounts /\ specMounts' = specMounts /\ rootfs' = rootfs
    BY <1>3, Zenon
  <2>2. \A m : Propagates(m) => Propagates(m)'
    BY <2>1, Zenon DEF Propagates, ensureShared, ensureSharedOrSlave
  <2>3. making' # "new" => \E h \in BOOLEAN : Whole(specMounts \o mounts, h)'
    BY <1>3, <2>1, SameRequest, Zenon DEF MountInv
  <2>4. making' = "new" => making = "new"
    BY <1>3, Zenon
  <2>5. making' \in {"new", "adding", "done", "failed"} /\ (making' = "done" => mounts' = <<>>)
    BY <1>3, Zenon DEF MountInv
  <2> QED BY <2>1, <2>2, <2>3, <2>4, <2>5, Zenon DEF MountInv
<1>4. WithMounts \/ AddMount \/ AddMountFails \/ MountsAdded \/ UNCHANGED mountVars
  BY Zenon DEF MountNext
<1>5. AddMountFails \/ MountsAdded \/ UNCHANGED mountVars =>
         /\ UNCHANGED <<criMounts, volumes, host, mounts, specMounts, rootfs>>
           /\ \/ UNCHANGED making
              \/ making = "adding" /\ making' = "failed"
              \/ making = "adding" /\ making' = "done" /\ mounts = <<>>
  BY DEF AddMountFails, MountsAdded, mountVars
<1> QED BY <1>1, <1>2, <1>3, <1>4, <1>5, Zenon

\* The requests that can come in satisfy the invariant.
LEMMA MountStart == ASSUME MountConstants, MountInit PROVE MountInv
<1>0. mounts = <<>> /\ making = "new" /\ host \in {"shared", "master", "private"}
  BY Zenon DEF MountInit
<1>1. criMounts \in Seq(CRIMount)
  <2>1. PICK n \in 0 .. MaxCRIMounts : criMounts \in [1 .. n -> CRIMount]
    BY Zenon DEF MountInit
  <2> QED BY <2>1 DEF MountConstants
<1>2. volumes \in Seq(VolumePaths)
  <2>1. PICK n \in 0 .. Cardinality(VolumePaths) : volumes \in [1 .. n -> VolumePaths]
    BY Zenon DEF MountInit
  <2>2. n \in Nat
    OBVIOUS
  <2> QED BY <2>1, <2>2
<1>3. "default" \in Makers \cup {"default"} /\ DefaultMounts \in Seq(Path)
  BY DEF MountConstants
<1>4. specMounts \in Seq(Mounted) /\ mounts \in Seq(Mounted)
  <2>1. specMounts \in Seq(Mounted)
    BY <1>3, PlainIs, Zenon DEF MountInit
  <2> QED BY <1>0, <2>1
<1>5. Elements(mounts) = {}
  <2>1. DOMAIN mounts = {}
    BY <1>0
  <2> QED BY <2>1, Zenon DEF Elements
<1>6. \A n \in Elements(specMounts) : n.propagation = "private"
  <2>1. \A i \in DOMAIN DefaultMounts : Plain("default", DefaultMounts)[i].propagation = "private"
    BY DEF Plain, Mount
  <2>2. DOMAIN Plain("default", DefaultMounts) = DOMAIN DefaultMounts
    BY Zenon DEF Plain
  <2> QED BY <2>1, <2>2, Zenon DEF Elements, MountInit
<1>7. rootfs = Strongest(specMounts) /\ \A m \in Elements(specMounts) : Propagates(m)
  <2>1. "private" # "bidirectional" /\ "private" # "host_to_container"
    OBVIOUS
  <2> QED BY <1>6, <2>1, Zenon DEF Strongest, Asking, Propagates, MountInit
<1>8. making = "new" /\ "new" # "done" /\ host \in {"shared", "master", "private"}
  BY <1>0
<1> QED BY <1>1, <1>2, <1>4, <1>5, <1>7, <1>8, Zenon DEF MountInv, MountInit

\* A set of numbers up to N that is not empty has a greatest element.
LEMMA Greatest ==
    ASSUME NEW N \in Nat, NEW T \in SUBSET (1 .. N), T # {} PROVE \E n \in T : \A m \in T : m <= n
<1> DEFINE U == {N - m : m \in T}
<1>1. U \in SUBSET Nat /\ U # {}
  <2>1. \A m \in T : N - m \in Nat
    OBVIOUS
  <2> QED BY <2>1, Zenon
<1>2. PICK u \in U : \A v \in U : u <= v
  BY <1>1, LeastNatural, Zenon
<1>3. PICK n \in T : u = N - n
  BY Zenon
<1>4. \A m \in T : N - n <= N - m
  BY <1>2, <1>3, Zenon
<1>5. \A m \in T : m <= n
  BY <1>4
<1> QED BY <1>5, Zenon

\* A path at or above another, and how many parts they have.
LEMMA Above ==
    ASSUME NEW p \in Path, NEW d \in Path
    PROVE  /\ AtOrAbove(d, d)
           /\ AtOrAbove(p, d) /\ parts(d) <= parts(p) => p = d \/ (p = <<>> /\ Len(d) = 1)
           /\ AtOrAbove(p, d) /\ d = <<>> => p = <<>>
<1>1. Len(p) = Len(d) /\ (\A i \in 1 .. Len(p) : p[i] = d[i]) => p = d
  BY SequencesEqual DEF Path
<1>2. /\ Len(p) \in Nat /\ Len(d) \in Nat /\ (p = <<>> <=> Len(p) = 0) /\ (d = <<>> <=> Len(d) = 0)
  BY DEF Path
<1>3. AtOrAbove(d, d)
  BY <1>2 DEF AtOrAbove
<1>4. AtOrAbove(p, d) => Len(p) <= Len(d) /\ (Len(p) = Len(d) => p = d)
  BY <1>1, Zenon DEF AtOrAbove
<1>5. parts(p) = (IF Len(p) = 0 THEN 1 ELSE Len(p)) /\ parts(d) = (IF Len(d) = 0 THEN 1 ELSE Len(d))
  BY <1>2, Zenon DEF parts
<1>6. AtOrAbove(p, d) /\ parts(d) <= parts(p) => Len(p) = Len(d) \/ (Len(p) = 0 /\ Len(d) = 1)
  BY <1>2, <1>4, <1>5, SMTT(60)
<1>7. AtOrAbove(p, d) /\ Len(d) = 0 => Len(p) = 0
  BY <1>2, <1>4
<1> QED BY <1>2, <1>3, <1>4, <1>6, <1>7, Zenon

\* Of sorted mounts the last one at or above a supplied one is at the same path.
LEMMA LastIsThere ==
    ASSUME NEW ms \in Seq(Mounted), Sorted(ms), NEW a \in DOMAIN ms, ms[a].from # "default",
           \A i \in DOMAIN ms : ms[i].from # "default" /\ ms[i].dst = <<>> => Len(ms[a].dst) # 1
    PROVE  \E i \in DOMAIN ms :
              /\ ms[i].dst = ms[a].dst /\ ms[i].from # "default" /\ AtOrAbove(ms[i].dst, ms[a].dst)
              /\ \A j \in DOMAIN ms : AtOrAbove(ms[j].dst, ms[a].dst) => j <= i
<1> DEFINE d == ms[a].dst
           T == {i \in DOMAIN ms : AtOrAbove(ms[i].dst, d)}
<1>1. \A i \in DOMAIN ms : ms[i].dst \in Path
  <2>1. \A i \in DOMAIN ms : ms[i] \in Mounted
    OBVIOUS
  <2>2. \A m \in Mounted : m.dst \in Path
    BY DEF Mounted
  <2> QED BY <2>1, <2>2, Zenon
<1>2. a \in T
  BY <1>1, Above, ZenonT(60)
<1>3. Len(ms) \in Nat /\ DOMAIN ms = 1 .. Len(ms) /\ T \in SUBSET (1 .. Len(ms))
  OBVIOUS
<1>4. PICK i \in T : \A j \in T : j <= i
  BY <1>2, <1>3, Greatest, Zenon
<1>5. i \in DOMAIN ms /\ AtOrAbove(ms[i].dst, d) /\ \A j \in DOMAIN ms : AtOrAbove(ms[j].dst, d) => j <= i
  BY <1>4, ZenonT(60)
<1>6. i = a \/ a < i
  BY <1>2, <1>3, <1>4, SMTT(60)
<1>7. CASE a < i
  <2>1. ms[i].from # "default" /\ parts(d) <= parts(ms[i].dst)
    BY <1>5, <1>7, Zenon DEF Sorted
  <2>2. ms[i].dst \in Path /\ d \in Path
    BY <1>1, <1>5, Zenon
  <2>3. ms[i].dst = d \/ (ms[i].dst = <<>> /\ Len(d) = 1)
    BY <1>5, <2>1, <2>2, Above, Zenon
  <2>4. ms[i].dst = d
    BY <1>5, <2>1, <2>3, Zenon
  <2> QED BY <1>5, <2>1, <2>4, Zenon
<1>8. CASE i = a
  BY <1>5, <1>8, Zenon
<1> QED BY <1>6, <1>7, <1>8, Zenon

\* The mounts are right when all are added.
LEMMA MountsDone == ASSUME MountConstants, MountInv PROVE MountTypeOK /\ MountsRight
<1>1. MountTypeOK
  <2>1. rootfs \in {"", "rslave", "rshared"}
    BY DEF MountInv, Strongest
  <2>2. \A i \in DOMAIN mounts : mounts[i].from \in Makers
    BY Zenon DEF MountInv, Elements
  <2> QED BY <2>1, <2>2, Zenon DEF MountTypeOK, MountInv, Makers
<1> SUFFICES ASSUME making = "done" PROVE MountsRight
  BY <1>1, Zenon DEF MountsRight
<1> DEFINE ms == specMounts
           asked == Paths(criMounts)
           supplied == {ms[i].dst : i \in {j \in DOMAIN ms : ms[j].from # "default"}}
<1>2. PICK h \in BOOLEAN : Whole(ms, h)
  <2>1. "done" # "new"
    OBVIOUS
  <2>2. mounts = <<>> /\ specMounts \in Seq(Mounted)
    BY Zenon DEF MountInv
  <2>3. specMounts \o mounts = specMounts
    BY <2>2
  <2> QED BY <2>1, <2>3, Zenon DEF MountInv
<1>3. /\ ms \in Seq(Mounted) /\ Sorted(ms)
      /\ Elements(ms) = KeptWith(SuppliedBy(h)) \cup SuppliedBy(h)
  BY <1>2, Zenon DEF Whole
<1>4. /\ \A m \in SuppliedBy(h) : m.from # "default"
      /\ \A m \in KeptWith(SuppliedBy(h)) : m.from = "default" /\ m.propagation = "private"
      /\ \A m \in Elements(criMounts) :
            m.from = "cri" /\ m.propagation \in Propagations /\ m.dst \in AskedPaths
      /\ \A m \in SuppliedBy(h) : m \notin Elements(criMounts) =>
            m.from \in {"system", "volume"} /\ m.propagation = "private" /\ m.dst \notin AskedPaths
  <2>1. criMounts \in Seq(CRIMount) /\ "default" \notin Makers
    BY DEF MountInv, Makers
  <2> QED BY <2>1, MountedBy, Zenon
<1>5. \A d : d \in supplied <=> \E m \in SuppliedBy(h) : m.dst = d
  <2>1. ASSUME NEW i \in DOMAIN ms, ms[i].from # "default" PROVE ms[i] \in SuppliedBy(h)
    BY <1>3, <1>4, <2>1, ZenonT(60) DEF Elements
  <2>2. ASSUME NEW m \in SuppliedBy(h) PROVE \E i \in DOMAIN ms : ms[i] = m /\ ms[i].from # "default"
    <3>1. m \in Elements(ms)
      BY <1>3, Zenon
    <3>2. PICK i \in DOMAIN ms : ms[i] = m
      BY <3>1, Zenon DEF Elements
    <3> QED BY <1>4, <3>2, Zenon
  <2> QED BY <2>1, <2>2, Zenon
<1>6. supplied = Dsts(SuppliedBy(h))
  BY <1>5, Zenon DEF Dsts
<1>7. \A m \in Elements(criMounts) : m \in SuppliedBy(h)
  BY Zenon DEF SuppliedBy
<1>8. asked \subseteq supplied
  <2>1. \A i \in DOMAIN criMounts : criMounts[i] \in SuppliedBy(h)
    BY <1>7, Zenon DEF Elements
  <2> QED BY <1>5, <2>1, Zenon DEF Paths
<1>9. \A f, d : Mount(f, d, "private").dst = d
  BY DEF Mount
<1>10. \A i \in DOMAIN volumes : volumes[i] \in supplied
  <2> SUFFICES ASSUME NEW i \in DOMAIN volumes, volumes[i] \notin asked PROVE volumes[i] \in supplied
    BY <1>8, Zenon
  <2>1. volumes[i] \in VolumesLeft
    BY Zenon DEF VolumesLeft, Elements, AskedPaths
  <2>2. Mount("volume", volumes[i], "private") \in SuppliedBy(h)
    BY <2>1, Zenon DEF SuppliedBy, Mounting
  <2> QED BY <1>5, <1>9, <2>2, Zenon
<1>11. \A i \in DOMAIN SystemFiles : SystemFiles[i] # etcHostname => SystemFiles[i] \in supplied
  <2> SUFFICES ASSUME NEW i \in DOMAIN SystemFiles, SystemFiles[i] \notin asked, SystemFiles[i] # etcHostname
               PROVE  SystemFiles[i] \in supplied
    BY <1>8, Zenon
  <2>1. SystemFiles[i] \in FilesLeft(h)
    BY Zenon DEF FilesLeft, Elements, AskedPaths
  <2>2. Mount("system", SystemFiles[i], "private") \in SuppliedBy(h)
    BY <2>1, Zenon DEF SuppliedBy, Mounting
  <2> QED BY <1>5, <1>9, <2>2, Zenon
<1>12. \A d \in supplied : (<<>> \in supplied => Len(d) # 1) =>
          \E i \in DOMAIN specMounts :
             /\ SeenAt(i, d) /\ specMounts[i].dst = d
             /\ specMounts[i].from \in IF d \in asked THEN {"cri"} ELSE {"system", "volume"}
  <2> SUFFICES ASSUME NEW d \in supplied, <<>> \in supplied => Len(d) # 1
               PROVE  \E i \in DOMAIN specMounts :
                         /\ SeenAt(i, d) /\ specMounts[i].dst = d
                         /\ specMounts[i].from \in IF d \in asked THEN {"cri"} ELSE {"system", "volume"}
    BY Zenon
  <2>1. PICK a \in DOMAIN ms : ms[a].from # "default" /\ ms[a].dst = d
    BY Zenon
  <2>2. \A i \in DOMAIN ms : ms[i].from # "default" /\ ms[i].dst = <<>> => Len(ms[a].dst) # 1
    BY <2>1, Zenon
  <2>3. PICK i \in DOMAIN ms :
              /\ ms[i].dst = ms[a].dst /\ ms[i].from # "default" /\ AtOrAbove(ms[i].dst, ms[a].dst)
              /\ \A j \in DOMAIN ms : AtOrAbove(ms[j].dst, ms[a].dst) => j <= i
    BY <1>3, <2>1, <2>2, LastIsThere, Zenon
  <2>4. SeenAt(i, d)
    BY <2>1, <2>3, Zenon DEF SeenAt
  <2>5. ms[i] \in SuppliedBy(h)
    BY <1>3, <1>4, <2>3, Zenon DEF Elements
  <2>6. ms[i].from \in IF d \in asked THEN {"cri"} ELSE {"system", "volume"}
    <3>1. CASE ms[i] \in Elements(criMounts)
      BY <1>4, <2>1, <2>3, <3>1, Zenon DEF AskedPaths
    <3>2. CASE ms[i] \notin Elements(criMounts)
      BY <1>4, <2>1, <2>3, <2>5, <3>2, Zenon DEF AskedPaths
    <3> QED BY <3>1, <3>2, Zenon
  <2> QED BY <2>1, <2>3, <2>4, <2>6, Zenon
<1>13. \A d \in ({DefaultMounts[i] : i \in DOMAIN DefaultMounts} \ {run}) \cup {cgroup} :
          (\E i \in DOMAIN specMounts : specMounts[i] = Mount("default", d, "private"))
            <=> ~(d \in supplied \/ (dev \in supplied /\ AtOrAbove(dev, d)))
  <2> HIDE DEF supplied
  <2> SUFFICES ASSUME NEW d \in Defaults
               PROVE  (\E i \in DOMAIN specMounts : specMounts[i] = Mount("default", d, "private"))
                        <=> ~(d \in supplied \/ (dev \in supplied /\ AtOrAbove(dev, d)))
    BY Zenon DEF Defaults, Elements
  <2> DEFINE m == Mount("default", d, "private")
  <2>1. (\E i \in DOMAIN specMounts : specMounts[i] = m) <=> m \in Elements(ms)
    BY Zenon DEF Elements
  <2>2. m.from = "default" /\ m.dst = d
    BY DEF Mount
  <2>3. m \in KeptWith(SuppliedBy(h))
          <=> d \notin Dsts(SuppliedBy(h)) /\ ~(dev \in Dsts(SuppliedBy(h)) /\ AtOrAbove(dev, d))
    <3>1. ASSUME NEW e, Mount("default", e, "private") = m PROVE e = d
      BY <3>1 DEF Mount
    <3> HIDE DEF m
    <3>2. ASSUME m \in KeptWith(SuppliedBy(h))
          PROVE  d \notin Dsts(SuppliedBy(h)) /\ ~(dev \in Dsts(SuppliedBy(h)) /\ AtOrAbove(dev, d))
      BY <3>1, <3>2, Zenon DEF KeptWith
    <3> QED BY <3>2, Zenon DEF KeptWith, m
  <2> HIDE DEF m
  <2>4. m \in Elements(ms) <=> m \in KeptWith(SuppliedBy(h))
    BY <1>3, <1>4, <2>2, Zenon
  <2> QED BY <1>6, <2>1, <2>3, <2>4, Zenon DEF m
<1> HIDE DEF supplied, asked
<1>14. \A p : p # "private" => (Asking(ms, p) <=> Asks(p))
  <2>1. \A p : Asks(p) <=> \E m \in Elements(criMounts) : m.propagation = p
    BY Zenon DEF Asks, Elements
  <2> QED BY <1>3, <1>4, <1>7, <2>1, Zenon DEF Asking
<1>15. "bidirectional" # "private" /\ "host_to_container" # "private"
  OBVIOUS
<1>16. rootfs = IF Asks("bidirectional") THEN "rshared"
                ELSE IF Asks("host_to_container") THEN "rslave" ELSE ""
  BY <1>14, <1>15, Zenon DEF Strongest, MountInv
<1>17. /\ Asks("bidirectional") => host = "shared"
       /\ Asks("host_to_container") => host # "private"
  <2>1. \A p : p # "private" /\ Asks(p) => \E m \in Elements(ms) : m.propagation = p /\ Propagates(m)
    BY <1>14, Zenon DEF MountInv, Asking
  <2>2. "private" \notin {"shared", "master"}
    OBVIOUS
  <2> QED BY <1>15, <2>1, <2>2, Zenon DEF Propagates, ensureShared, ensureSharedOrSlave
<1> QED BY <1>8, <1>10, <1>11, <1>12, <1>13, <1>16, <1>17, Zenon DEF MountsRight, supplied, asked

\* Every mount that is asked for is there and seen at its destination, whatever sources it comes from
\* and in whatever order the mounts of the same depth are sorted (WithMounts, orderedMounts).
LEMMA MountsAreRight == ASSUME MountConstants PROVE MountSpec => [](MountTypeOK /\ MountsRight)
<1>1. MountInit => MountInv
  BY MountStart, Zenon
<1>2. MountInv /\ [MountNext]_mountVars => MountInv'
  BY MountStep, Zenon
<1>3. MountInv => MountTypeOK /\ MountsRight
  BY MountsDone, Zenon
<1> QED BY <1>1, <1>2, <1>3, PTL DEF MountSpec

\* A container runs as it was asked for: under the limits of its spec (UpdateContainerResources), with
\* its mounts where they are seen (WithMounts) and on the runtime of its pod (getSandboxRuntime), for
\* any number of updates, mounts and configurations.
THEOREM RunAsAsked ==
    ASSUME LimitConstants, MountConstants, RuntimeConstants
    PROVE  LimitSpec /\ MountSpec /\ RuntimeSpec => []RunsAsAsked
<1>1. /\ LimitTypeOK /\ LimitsAgree /\ MountTypeOK /\ MountsRight /\ RuntimeTypeOK /\ RuntimesRight
      => RunsAsAsked
  BY Zenon DEF RunsAsAsked
<1> QED BY <1>1, LimitsDoAgree, MountsAreRight, RuntimesAreRight, PTL

-----------------------------------------------------------------------------

(* The log of a container *)

\* The buffer of a reader has room for a byte.  A limit is never below its least size: see the run log_limit.
LogConstants ==
    /\ minReadBufferSize \in Nat \ {0} /\ defaultBufSize \in Nat /\ MaxInput \in Nat
    /\ \A n \in MaxLens : n \in Nat /\ (n = 0 \/ n >= minReadBufferSize)

Chars == Bytes \cup {CR, LF}

\* The two bytes of a line end.
LEMMA CharsAre == CR \in Chars /\ LF \in Chars /\ CR # LF
BY DEF Chars, CR, LF

\* A line end is an output, and so is nothing.
LEMMA LineEnd == <<LF>> \in Seq(Chars) /\ <<>> \in Seq(Chars)
<1>1. LF \in Chars
  BY CharsAre, Zenon
<1> QED BY <1>1

\* Outputs, one after the other, are an output.
LEMMA Concatenated == \A a, b \in Seq(Chars) : a \o b \in Seq(Chars)
BY Concatenation, Zenon

\* Outputs may be regrouped.
LEMMA Associative == \A a, b, c \in Seq(Chars) : (a \o b) \o c = a \o (b \o c)
<1> TAKE a, b, c \in Seq(Chars)
<1> QED BY Grouping, SMTT(60)

\* So may those around a line end.
LEMMA AtLineEnd == \A a, b \in Seq(Chars) : (a \o <<LF>>) \o b = a \o (<<LF>> \o b)
BY LineEnd, Associative, Zenon

Regrouped(x, b, c, e, u) == (x \o b) \o ((c \o e) \o u) = (x \o (b \o c)) \o (e \o u)

\* The regroupings that moving a piece from the output to the line so far needs.
LEMMA Regroup == \A x, b, c, e, u \in Seq(Chars) : Regrouped(x, b, c, e, u)
<1> TAKE x, b, c, e, u \in Seq(Chars)
<1> DEFINE y == x \o b
           z == e \o u
<1>1. (c \o e) \o u = c \o z
  BY Associative, ZenonT(60)
<1>2. y \o c = x \o (b \o c)
  BY Associative, ZenonT(60)
<1>3. y \in Seq(Chars) /\ z \in Seq(Chars)
  BY Concatenated, Zenon
<1> HIDE DEF y, z
<1>4. (y \o c) \o z = y \o (c \o z)
  <2>1. \A p, q \in Seq(Chars) : (p \o c) \o q = p \o (c \o q)
    BY Associative, ZenonT(60)
  <2> QED BY <1>3, <2>1, Zenon
<1>5. y \o ((c \o e) \o u) = (x \o (b \o c)) \o z
  BY <1>1, <1>2, <1>4, Zenon
<1> QED BY <1>5, Zenon DEF y, z, Regrouped

\* The first byte of an output.
LEMMA FirstOne == ASSUME NEW t \in Seq(Chars), 1 <= Len(t) PROVE SubSeq(t, 1, 1) = <<t[1]>>
<1> DEFINE u == SubSeq(t, 1, 1)
<1>1. 1 \in 0 .. Len(t) /\ 1 \in 1 .. 1
  OBVIOUS
<1>2. u \in Seq(Chars) /\ Len(u) = 1 /\ u[1] = t[1]
  BY <1>1, CutAt, Zenon
<1> HIDE DEF u
<1>3. u = <<t[1]>>
  BY <1>2
<1> QED BY <1>3, Zenon DEF u

\* The positions of the bytes that are kept.
Kept(s) == {i \in DOMAIN s : ~ (s[i] = CR /\ i < Len(s) /\ s[i + 1] = LF)}

\* Unifying line ends selects the bytes to keep.
LEMMA UnifiedIs == \A s : Unified(s) = Select(s, Kept(s))
BY Zenon DEF Unified, Kept

\* Up to a place that does not divide a line end, and without one "\r\n" before it, an output stays as it is.
LEMMA UnifiedFrom ==
    ASSUME NEW s \in Seq(Chars), NEW k \in 0 .. Len(s),
           \A i \in 1 .. k : s[i] = CR /\ i < Len(s) => s[i + 1] # LF
    PROVE  Unified(s) = SubSeq(s, 1, k) \o Unified(SubSeq(s, k + 1, Len(s)))
<1> DEFINE a == SubSeq(s, 1, k)
           b == SubSeq(s, k + 1, Len(s))
<1>1. /\ a \in Seq(Chars) /\ b \in Seq(Chars) /\ s = a \o b /\ Len(a) = k /\ Len(b) = Len(s) - k
      /\ \A j \in 1 .. Len(s) - k : b[j] = s[k + j]
  BY CutAt, ZenonT(60)
<1> HIDE DEF a, b
<1>2. DOMAIN s = 1 .. Len(s) /\ DOMAIN b = 1 .. Len(b) /\ k \in Nat /\ Len(s) \in Nat /\ k <= Len(s)
  BY <1>1
<1>3. 1 .. k \subseteq Kept(s)
  <2>1. ASSUME NEW i \in 1 .. k PROVE i \in DOMAIN s
    BY <1>2
  <2> QED BY <2>1, Zenon DEF Kept
<1>4. ASSUME NEW j \in 1 .. Len(b) PROVE j \in Kept(b) <=> Len(a) + j \in Kept(s)
  <2>1. j \in Nat /\ j \in 1 .. Len(s) - k
    BY <1>1
  <2>2. Len(a) + j \in 1 .. Len(s) /\ (j < Len(b) <=> Len(a) + j < Len(s))
    BY <1>1, <1>2, <2>1
  <2>3. b[j] = s[Len(a) + j]
    BY <1>1, <2>1, Zenon
  <2>4. ASSUME j < Len(b) PROVE b[j + 1] = s[Len(a) + j + 1]
    <3>1. j + 1 \in 1 .. Len(s) - k /\ k + (j + 1) = k + j + 1
      BY <1>1, <1>2, <2>1, <2>4
    <3> QED BY <1>1, <3>1, Zenon
  <2> QED BY <1>2, <2>2, <2>3, <2>4, Zenon DEF Kept
<1>5. Select(a \o b, Kept(s)) = Select(a, Kept(s)) \o Select(b, Kept(b))
  <2>1. After(Len(a), Len(b), Kept(s), Kept(b))
    BY <1>4, Zenon DEF After
  <2>2. a \in Seq(Chars) /\ b \in Seq(Chars)
    BY <1>1, Zenon
  <2> QED BY <2>1, <2>2, SelectConcat
<1>6. Select(a, Kept(s)) = a
  BY <1>1, <1>3, SelectAll, Zenon
<1> QED BY <1>1, <1>5, <1>6, UnifiedIs, Zenon DEF a, b

\* Of a line end "\r\n" only its "\n" is left.
LEMMA UnifiedEnd ==
    ASSUME NEW s \in Seq(Chars), 2 <= Len(s), s[1] = CR, s[2] = LF
    PROVE  Unified(s) = Unified(SubSeq(s, 2, Len(s)))
<1> DEFINE a == SubSeq(s, 1, 1)
           b == SubSeq(s, 1 + 1, Len(s))
<1>1. 1 \in 0 .. Len(s) /\ 1 + 1 = 2 /\ Len(s) \in Nat /\ DOMAIN s = 1 .. Len(s)
  OBVIOUS
<1>2. /\ a \in Seq(Chars) /\ b \in Seq(Chars) /\ s = a \o b /\ Len(a) = 1 /\ Len(b) = Len(s) - 1
      /\ \A j \in 1 .. Len(s) - 1 : b[j] = s[1 + j]
  BY <1>1, CutAt, ZenonT(60)
<1> HIDE DEF a, b
<1>3. DOMAIN b = 1 .. Len(b)
  BY <1>2
<1>4. ASSUME NEW j \in 1 .. Len(b) PROVE j \in Kept(b) <=> Len(a) + j \in Kept(s)
  <2>1. j \in Nat /\ j \in 1 .. Len(s) - 1
    BY <1>2
  <2>2. Len(a) + j \in 1 .. Len(s) /\ (j < Len(b) <=> Len(a) + j < Len(s))
    BY <1>1, <1>2, <2>1
  <2>3. b[j] = s[Len(a) + j]
    BY <1>2, <2>1, Zenon
  <2>4. ASSUME j < Len(b) PROVE b[j + 1] = s[Len(a) + j + 1]
    <3>1. j + 1 \in 1 .. Len(s) - 1 /\ 1 + (j + 1) = 1 + j + 1
      BY <1>1, <1>2, <2>1, <2>4
    <3> QED BY <1>2, <3>1, ZenonT(60)
  <2> QED BY <1>1, <1>3, <2>2, <2>3, <2>4, Zenon DEF Kept
<1>5. Select(a \o b, Kept(s)) = Select(a, Kept(s)) \o Select(b, Kept(b))
  <2>1. After(Len(a), Len(b), Kept(s), Kept(b))
    BY <1>4, Zenon DEF After
  <2>2. a \in Seq(Chars) /\ b \in Seq(Chars)
    BY <1>2, Zenon
  <2> QED BY <2>1, <2>2, SelectConcat
<1>6. Select(a, Kept(s)) = <<>>
  <2>1. 1 \notin Kept(s)
    <3>1. 1 < Len(s) /\ s[1 + 1] = LF
      BY <1>1
    <3> QED BY <3>1, Zenon DEF Kept
  <2>2. PICK e \in Chars : a = Append(<<>>, e)
    <3>1. a[1] \in Chars /\ a = Append(<<>>, a[1])
      BY <1>2
    <3> QED BY <3>1, Zenon
  <2>3. <<>> \in Seq(Chars) /\ Len(<<>>) + 1 = 1
    OBVIOUS
  <2>4. Select(Append(<<>>, e), Kept(s)) = Select(<<>>, Kept(s))
    BY <2>1, <2>3, SelectAppend, ZenonT(60)
  <2> QED BY <2>2, <2>4, SelectEmpty, Zenon
<1>7. Select(b, Kept(b)) \in Seq(Chars)
  BY <1>2, SelectType, Zenon
<1>8. <<>> \o Select(b, Kept(b)) = Select(b, Kept(b))
  BY <1>7, EmptyNeutral, Zenon
<1> QED BY <1>1, <1>2, <1>5, <1>6, <1>8, UnifiedIs, Zenon DEF a, b

\* The buffer has room for a byte and, with a limit, for no more than the limit.
LEMMA BufferSize ==
    ASSUME LogConstants, maxLen \in MaxLens
    PROVE  bufSize \in Nat \ {0} /\ maxLen \in Nat /\ (maxLen > 0 => bufSize <= maxLen)
BY DEF LogConstants, bufSize

\* Least is the least number of a set.
LEMMA LeastOf == \A S \in SUBSET Nat : S # {} => Least(S) \in S /\ \A j \in S : Least(S) <= j
BY LeastNatural, Zenon DEF Least

\* What ReadSlice reads of s: the first k bytes, with a line end only at their end.
Slice(s, k, e) ==
    /\ ReadSlice(s) = [line |-> SubSeq(s, 1, k), err |-> e] /\ k <= bufSize
    /\ e = "nil" => k > 0 /\ s[k] = LF /\ \A i \in 1 .. k - 1 : s[i] # LF
    /\ e = "full" => k > 0 /\ \A i \in 1 .. k : s[i] # LF
    /\ e = "EOF" => k = Len(s) /\ \A i \in 1 .. k : s[i] # LF

\* ReadSlice returns a line with its end, a full buffer, or the rest at the end of the output.
LEMMA SliceRead ==
    ASSUME LogConstants, maxLen \in MaxLens, NEW s \in Seq(Chars)
    PROVE  \E k \in 0 .. Len(s), e \in {"nil", "full", "EOF"} : Slice(s, k, e)
<1> DEFINE ends == {i \in DOMAIN s : s[i] = LF /\ i <= bufSize}
<1>1. bufSize \in Nat \ {0} /\ Len(s) \in Nat /\ DOMAIN s = 1 .. Len(s)
  BY BufferSize
<1>2. CASE ends # {}
  <2>1. ends \in SUBSET Nat
    BY <1>1
  <2> DEFINE k == Least(ends)
  <2>2. k \in ends /\ \A j \in ends : k <= j
    BY <1>2, <2>1, LeastOf, Zenon
  <2>3. ReadSlice(s) = [line |-> SubSeq(s, 1, k), err |-> "nil"]
    BY <1>2, Zenon DEF ReadSlice
  <2> HIDE DEF k
  <2>4. k \in 0 .. Len(s) /\ k > 0 /\ k <= bufSize /\ s[k] = LF
    BY <1>1, <2>2
  <2>5. ASSUME NEW i \in 1 .. k - 1 PROVE s[i] # LF
    <3>1. i \in DOMAIN s /\ i <= bufSize /\ ~ (k <= i)
      BY <1>1, <2>4
    <3> QED BY <2>2, <3>1, Zenon
  <2>6. Slice(s, k, "nil")
    BY <2>3, <2>4, <2>5, Zenon DEF Slice
  <2> QED BY <2>4, <2>6, Zenon
<1>3. CASE ends = {} /\ Len(s) >= bufSize
  <2>1. ReadSlice(s) = [line |-> SubSeq(s, 1, bufSize), err |-> "full"]
    BY <1>3, Zenon DEF ReadSlice
  <2>2. bufSize \in 0 .. Len(s) /\ bufSize > 0 /\ bufSize <= bufSize
    BY <1>1, <1>3
  <2>3. ASSUME NEW i \in 1 .. bufSize PROVE s[i] # LF
    <3>1. i \in DOMAIN s /\ i <= bufSize
      BY <1>1, <1>3
    <3> QED BY <1>3, <3>1, Zenon
  <2>4. Slice(s, bufSize, "full")
    BY <2>1, <2>2, <2>3, Zenon DEF Slice
  <2> QED BY <2>2, <2>4, Zenon
<1>4. CASE ends = {} /\ ~ (Len(s) >= bufSize)
  <2>1. ReadSlice(s) = [line |-> s, err |-> "EOF"]
    BY <1>4, Zenon DEF ReadSlice
  <2>2. Len(s) \in 0 .. Len(s) /\ Len(s) <= bufSize /\ SubSeq(s, 1, Len(s)) = s
    BY <1>1, <1>4
  <2>3. ASSUME NEW i \in 1 .. Len(s) PROVE s[i] # LF
    <3>1. i \in DOMAIN s /\ i <= bufSize
      BY <1>1, <1>4
    <3> QED BY <1>4, <3>1, Zenon
  <2>4. Slice(s, Len(s), "EOF")
    BY <2>1, <2>2, <2>3, Zenon DEF Slice
  <2> QED BY <2>2, <2>4, Zenon
<1> QED BY <1>2, <1>3, <1>4, Zenon

\* The line end after a line that was read.
Ends(q) == IF q.isPrefix \/ q.err = "EOF" THEN <<>> ELSE <<LF>>

\* What readLine promises of its answer q.
Reads(s, q) ==
    /\ q.line \in Seq(Chars) /\ Len(q.line) <= bufSize /\ \A i \in 1 .. Len(q.line) : q.line[i] # LF
    /\ \E m \in 0 .. Len(s) : q.rest = SubSeq(s, m + 1, Len(s))
    /\ Unified(s) = (q.line \o Ends(q)) \o Unified(q.rest)
    /\ q.err = "EOF" => ~q.isPrefix /\ Unified(q.rest) = <<>>

\* An output with its line ends unified is an output.
LEMMA UnifiedType == \A s \in Seq(Chars) : Unified(s) \in Seq(Chars)
BY SelectType, UnifiedIs, Zenon

\* Nothing unified is nothing.
LEMMA UnifiedEmpty == Unified(<<>>) = <<>>
BY SelectEmpty, UnifiedIs, Zenon

\* A part of an output without a line end in it, up to a place that does not divide one.
LEMMA ReadsPart ==
    ASSUME LogConstants, maxLen \in MaxLens, NEW s \in Seq(Chars), NEW k \in 0 .. Len(s), NEW q,
           q.line = SubSeq(s, 1, k), q.rest = SubSeq(s, k + 1, Len(s)), k <= bufSize,
           \A i \in 1 .. k : s[i] # LF, k > 0 /\ k < Len(s) => ~ (s[k] = CR /\ s[k + 1] = LF),
           Ends(q) = <<>>, q.err = "EOF" => ~q.isPrefix /\ k = Len(s)
    PROVE  Reads(s, q)
<1>1. /\ q.line \in Seq(Chars) /\ Len(q.line) = k /\ q.rest \in Seq(Chars) /\ Len(q.rest) = Len(s) - k
      /\ \A i \in 1 .. k : q.line[i] = s[i]
  <2> DEFINE a == SubSeq(s, 1, k)
             b == SubSeq(s, k + 1, Len(s))
  <2>1. /\ a \in Seq(Chars) /\ Len(a) = k /\ b \in Seq(Chars) /\ Len(b) = Len(s) - k
        /\ \A i \in 1 .. k : a[i] = s[i]
    BY CutAt, ZenonT(60)
  <2> QED BY <2>1, Zenon
<1>2. \A i \in 1 .. k : s[i] = CR /\ i < Len(s) => s[i + 1] # LF
  <2> TAKE i \in 1 .. k
  <2>1. i = k \/ i + 1 \in 1 .. k
    OBVIOUS
  <2>2. i = k => k > 0
    OBVIOUS
  <2> QED BY <2>1, <2>2, Zenon
<1>3. Unified(s) = q.line \o Unified(q.rest)
  BY <1>2, UnifiedFrom, Zenon
<1>4. q.line \o Ends(q) = q.line
  BY <1>1, EmptyNeutral, Zenon
<1>5. k = Len(s) => Unified(q.rest) = <<>>
  <2>1. k = Len(s) => q.rest = <<>>
    BY <1>1
  <2> QED BY <2>1, UnifiedEmpty, Zenon
<1> QED BY <1>1, <1>3, <1>4, <1>5, Zenon DEF Reads

\* A "\n" is kept, and the "\r" before it is not.
LEMMA UnifiedAtEnd ==
    ASSUME NEW s \in Seq(Chars), NEW k \in 0 .. Len(s), k < Len(s), s[k + 1] = LF
    PROVE  Unified(SubSeq(s, k + 1, Len(s))) = <<LF>> \o Unified(SubSeq(s, k + 1 + 1, Len(s)))
<1> DEFINE t == SubSeq(s, k + 1, Len(s))
<1>1. t \in Seq(Chars) /\ Len(t) = Len(s) - k /\ \A j \in 1 .. Len(s) - k : t[j] = s[k + j]
  BY CutAt, Zenon
<1>2. t = SubSeq(s, k + 1, Len(s))
  OBVIOUS
<1> HIDE DEF t
<1>3. 1 \in 1 .. Len(s) - k /\ 1 \in 0 .. Len(t) /\ 1 .. 1 = {1} /\ Len(t) \in Nat
  BY <1>1
<1>4. t[1] = LF
  BY <1>1, <1>3, Zenon
<1>5. Unified(t) = SubSeq(t, 1, 1) \o Unified(SubSeq(t, 1 + 1, Len(t)))
  <2>1. \A i \in 1 .. 1 : t[i] = CR /\ i < Len(t) => t[i + 1] # LF
    BY <1>3, <1>4, CharsAre, Zenon
  <2> QED BY <1>1, <1>3, <2>1, UnifiedFrom, Zenon
<1>6. SubSeq(t, 1, 1) = <<LF>>
  <2>1. 1 <= Len(t)
    BY <1>3
  <2> QED BY <1>1, <1>4, <2>1, FirstOne, Zenon
<1>7. SubSeq(t, 1 + 1, Len(t)) = SubSeq(s, k + 1 + 1, Len(s))
  <2>1. 1 \in 0 .. Len(t)
    BY <1>3, Zenon
  <2> QED BY <1>2, <2>1, LeftOf, ZenonT(60)
<1> QED BY <1>2, <1>5, <1>6, <1>7, Zenon

\* A carriage return before a line feed is left out, wherever the output is cut before it.
LEMMA UnifiedBeforeEnd ==
    ASSUME NEW s \in Seq(Chars), NEW k \in 0 .. Len(s), k + 1 < Len(s), s[k + 1] = CR,
           s[k + 1 + 1] = LF
    PROVE  Unified(SubSeq(s, k + 1, Len(s))) = Unified(SubSeq(s, k + 1 + 1, Len(s)))
<1> DEFINE t == SubSeq(s, k + 1, Len(s))
<1>1. t \in Seq(Chars) /\ Len(t) = Len(s) - k /\ \A j \in 1 .. Len(s) - k : t[j] = s[k + j]
  BY CutAt, Zenon
<1>2. t = SubSeq(s, k + 1, Len(s))
  OBVIOUS
<1> HIDE DEF t
<1>3. /\ 1 \in 1 .. Len(s) - k /\ 2 \in 1 .. Len(s) - k /\ k + 2 = k + 1 + 1 /\ 1 \in 0 .. Len(t)
      /\ 1 + 1 = 2 /\ 2 <= Len(t)
  BY <1>1
<1>4. t[1] = CR /\ t[2] = LF
  BY <1>1, <1>3
<1>5. Unified(t) = Unified(SubSeq(t, 2, Len(t)))
  BY <1>1, <1>3, <1>4, UnifiedEnd, Zenon
<1>6. SubSeq(t, 1 + 1, Len(t)) = SubSeq(s, k + 1 + 1, Len(s))
  BY <1>2, <1>3, LeftOf, ZenonT(60)
<1> QED BY <1>2, <1>3, <1>5, <1>6, Zenon

\* A line with its end.
LEMMA ReadsLine ==
    ASSUME LogConstants, maxLen \in MaxLens, NEW s \in Seq(Chars), NEW k \in 0 .. Len(s),
           NEW m \in 0 .. Len(s), m < Len(s), s[m + 1] = LF, NEW q,
           q.line = SubSeq(s, 1, k), q.rest = SubSeq(s, m + 1 + 1, Len(s)), m + 1 <= bufSize,
           \A i \in 1 .. m : s[i] # LF, q.err = "nil", q.isPrefix = FALSE,
           \/ m = k /\ (k > 0 => s[k] # CR)
           \/ m = k + 1 /\ s[k + 1] = CR
    PROVE  Reads(s, q)
<1>1. k \in Nat /\ m \in Nat /\ k <= m /\ Len(s) \in Nat /\ m + 1 \in 0 .. Len(s) /\ bufSize \in Nat
  BY BufferSize
<1>2. /\ SubSeq(s, 1, k) \in Seq(Chars) /\ Len(SubSeq(s, 1, k)) = k
      /\ \A i \in 1 .. k : SubSeq(s, 1, k)[i] = s[i]
  BY CutAt, ZenonT(60)
<1>3. q.line \in Seq(Chars) /\ Len(q.line) = k /\ \A i \in 1 .. k : q.line[i] = s[i]
  BY <1>2, Zenon
<1>4. q.rest \in Seq(Chars) /\ Ends(q) = <<LF>>
  <2>1. SubSeq(s, m + 1 + 1, Len(s)) \in Seq(Chars)
    BY <1>1, CutAt, Zenon
  <2> QED BY <2>1, CharsAre, Zenon DEF Ends
<1>5. k <= bufSize /\ \A i \in 1 .. k : i \in 1 .. m
  BY <1>1
<1>6. \A i \in 1 .. k : s[i] = CR /\ i < Len(s) => s[i + 1] # LF
  <2> TAKE i \in 1 .. k
  <2>1. i + 1 \in 1 .. m \/ (i = k /\ m = k)
    BY <1>1
  <2>2. k > 0 /\ i + 1 \in Nat
    BY <1>1
  <2> QED BY <2>1, <2>2, Zenon
<1>7. Unified(s) = SubSeq(s, 1, k) \o Unified(SubSeq(s, k + 1, Len(s)))
  BY <1>6, UnifiedFrom, Zenon
<1>8. Unified(SubSeq(s, k + 1, Len(s))) = Unified(SubSeq(s, m + 1, Len(s)))
  <2>1. CASE m = k
    BY <2>1, Zenon
  <2>2. CASE m = k + 1 /\ s[k + 1] = CR
    <3>1. k + 1 < Len(s) /\ s[k + 1 + 1] = LF
      BY <2>2
    <3> QED BY <2>2, <3>1, UnifiedBeforeEnd, Zenon
  <2> QED BY <2>1, <2>2, Zenon
<1>9. Unified(SubSeq(s, m + 1, Len(s))) = <<LF>> \o Unified(q.rest)
  BY UnifiedAtEnd, Zenon
<1>10. q.line \o (<<LF>> \o Unified(q.rest)) = (q.line \o <<LF>>) \o Unified(q.rest)
  <2>1. Unified(q.rest) \in Seq(Chars)
    BY <1>4, UnifiedType, Zenon
  <2>2. q.line \in Seq(Chars)
    BY <1>3, Zenon
  <2> SUFFICES ASSUME NEW x \in Seq(Chars), NEW y \in Seq(Chars)
               PROVE  x \o (<<LF>> \o y) = (x \o <<LF>>) \o y
    BY <2>1, <2>2, Zenon
  <2> QED BY AtLineEnd, SMTT(60)
<1>11. Unified(s) = (q.line \o Ends(q)) \o Unified(q.rest)
  BY <1>4, <1>7, <1>8, <1>9, <1>10, Zenon
<1>12. q.err # "EOF"
  BY Zenon
<1> QED BY <1>1, <1>3, <1>5, <1>11, <1>12, Zenon DEF Reads

\* Whatever readLine returns of an output, it and what it leaves unread say the same as the output.
LEMMA ReadsRight ==
    ASSUME LogConstants, maxLen \in MaxLens, NEW s \in Seq(Chars)
    PROVE  Reads(s, readLine(s))
<1> DEFINE q == readLine(s)
<1>1. PICK k \in 0 .. Len(s), e \in {"nil", "full", "EOF"} : Slice(s, k, e)
  BY SliceRead, Zenon
<1> DEFINE r == [line |-> SubSeq(s, 1, k), err |-> e]
           d == dropped(r)
           u == IF e = "full" THEN d ELSE 0
<1>2. /\ k \in Nat /\ Len(s) \in Nat /\ Len(SubSeq(s, 1, k)) = k /\ SubSeq(s, 1, k) \in Seq(Chars)
      /\ \A i \in 1 .. k : SubSeq(s, 1, k)[i] = s[i]
  BY CutAt
<1>3. /\ q.line = SubSeq(SubSeq(s, 1, k), 1, k - d) /\ q.isPrefix = (e = "full")
      /\ q.err = (IF e = "EOF" THEN "EOF" ELSE "nil") /\ q.rest = SubSeq(s, k - u + 1, Len(s))
  <2>1. ReadSlice(s) = r
    BY <1>1, Zenon DEF Slice
  <2>2. r.line = SubSeq(s, 1, k) /\ r.err = e /\ Len(r.line) = k
    BY <1>2, Zenon
  <2> HIDE DEF r
  <2>3. q = [line |-> SubSeq(r.line, 1, Len(r.line) - d), isPrefix |-> r.err = "full",
             err |-> IF r.err = "EOF" THEN "EOF" ELSE "nil",
             rest |-> SubSeq(s, Len(r.line) - (IF r.err = "full" THEN d ELSE 0) + 1, Len(s))]
    BY <2>1, Zenon DEF readLine
  <2> HIDE DEF q, d
  <2> QED BY <2>2, <2>3, Zenon
<1>4. d = IF e = "full" THEN IF k > 0 /\ s[k] = CR THEN 1 ELSE 0
          ELSE IF e = "EOF" THEN 0 ELSE IF k > 1 /\ s[k - 1] = CR THEN 2 ELSE 1
  BY <1>2, SMTT(60) DEF dropped
<1>5. \A j \in 0 .. k : SubSeq(SubSeq(s, 1, k), 1, j) = SubSeq(s, 1, j)
  BY <1>2
<1> HIDE DEF q, r, d
<1>6. CASE e = "full"
  <2>1. d \in {0, 1} /\ d <= k /\ u = d /\ k - d \in 0 .. Len(s) /\ k - d \in 0 .. k
    BY <1>1, <1>2, <1>4, <1>6 DEF Slice
  <2> DEFINE j == k - d
  <2>2. q.line = SubSeq(s, 1, j) /\ q.rest = SubSeq(s, j + 1, Len(s)) /\ q.isPrefix /\ q.err = "nil"
    BY <1>3, <1>5, <1>6, <2>1, ZenonT(60)
  <2>3. j <= bufSize /\ \A i \in 1 .. j : s[i] # LF
    BY <1>1, <1>2, <1>6, <2>1, BufferSize, SMTT(60) DEF Slice
  <2>4. j > 0 /\ j < Len(s) => ~ (s[j] = CR /\ s[j + 1] = LF)
    <3>1. CASE d = 0
      BY <1>4, <1>6, <3>1, <1>2, SMTT(60)
    <3>2. CASE d = 1
      BY <1>1, <1>4, <1>6, <3>2, <1>2, CharsAre, SMTT(60)
    <3> QED BY <2>1, <3>1, <3>2, Zenon
  <2>5. Ends(q) = <<>> /\ q.err # "EOF"
    BY <2>2, Zenon DEF Ends
  <2> HIDE DEF j
  <2>6. Reads(s, q)
    BY <2>1, <2>2, <2>3, <2>4, <2>5, ReadsPart, Zenon DEF j
  <2> QED BY <2>6, Zenon DEF q
<1>7. CASE e = "EOF"
  <2>1. d = 0 /\ u = 0 /\ k = Len(s) /\ k - d = k /\ k - u + 1 = k + 1 /\ k \in 0 .. k
    BY <1>1, <1>2, <1>4, <1>7 DEF Slice
  <2>2. q.line = SubSeq(s, 1, k) /\ q.rest = SubSeq(s, k + 1, Len(s)) /\ q.err = "EOF" /\ ~q.isPrefix
    BY <1>3, <1>5, <1>7, <2>1, Zenon
  <2>3. k <= bufSize /\ (\A i \in 1 .. k : s[i] # LF) /\ Ends(q) = <<>>
    BY <1>1, <1>7, <2>2, Zenon DEF Slice, Ends
  <2>4. ~ (k < Len(s))
    BY <2>1
  <2>5. Reads(s, q)
    BY <2>1, <2>2, <2>3, <2>4, ReadsPart, ZenonT(60)
  <2> QED BY <2>5, Zenon DEF q
<1>8. CASE e = "nil"
  <2> DEFINE m == k - 1
             j == k - d
  <2>1. /\ k > 0 /\ m \in 0 .. Len(s) /\ m < Len(s) /\ m + 1 = k /\ m + 1 + 1 = k - u + 1
        /\ s[k] = LF /\ m + 1 <= bufSize /\ \A i \in 1 .. m : s[i] # LF
    BY <1>1, <1>2, <1>8, SMTT(60) DEF Slice
  <2>2. d \in {1, 2} /\ d <= k /\ j \in 0 .. Len(s) /\ j \in 0 .. k
    BY <1>2, <1>4, <1>8, <2>1, SMTT(60)
  <2>3. q.line = SubSeq(s, 1, j) /\ q.rest = SubSeq(s, m + 1 + 1, Len(s)) /\ q.isPrefix = FALSE /\ q.err = "nil"
    BY <1>3, <1>5, <1>8, <2>1, <2>2, ZenonT(60)
  <2>4. \/ m = j /\ (j > 0 => s[j] # CR)
        \/ m = j + 1 /\ s[j + 1] = CR
    BY <1>2, <1>4, <1>8, <2>1, <2>2, SMTT(60)
  <2> HIDE DEF m, j
  <2>5. Reads(s, q)
    BY <2>1, <2>2, <2>3, <2>4, ReadsLine, ZenonT(60)
  <2> QED BY <2>5, Zenon DEF q
<1> QED BY <1>6, <1>7, <1>8, Zenon

-----------------------------------------------------------------------------

\* A text without a line end and of at most n bytes, if n is a limit, and the lines with one.
OkText(n, c) == c \in Seq(Chars) /\ (n > 0 => Len(c) <= n) /\ \A j \in 1 .. Len(c) : c[j] # LF
OkLines(n) == {l \in [tag : {"F", "P"}, content : Seq(Chars)] : OkText(n, l.content)}

\* What one line says.
Entry(l) == l.content \o IF l.tag = "F" THEN <<LF>> ELSE <<>>
Entries(w) == [i \in DOMAIN w |-> Entry(w[i])]

\* What the log says is what its lines say, joined.
LEMMA SaidJoins == \A w : Said(w) = Join(Entries(w))
BY Zenon DEF Said, Entries, Entry

\* What a line says is an output.
LEMMA EntryType == \A n : \A l \in OkLines(n) : Entry(l) \in Seq(Chars)
BY LineEnd, Concatenated, Zenon DEF OkLines, Entry

\* What the lines say, one by one.
LEMMA EntriesType ==
    ASSUME NEW n, NEW w \in Seq(OkLines(n))
    PROVE  /\ Entries(w) \in Seq(Seq(Chars)) /\ Len(Entries(w)) = Len(w)
           /\ \A i \in 1 .. Len(w) : Entries(w)[i] = Entry(w[i])
<1>1. DOMAIN w = 1 .. Len(w) /\ Len(w) \in Nat
  OBVIOUS
<1>2. \A i \in 1 .. Len(w) : w[i] \in OkLines(n)
  OBVIOUS
<1> DEFINE E == [i \in 1 .. Len(w) |-> Entry(w[i])]
<1>3. E = Entries(w)
  BY <1>1, Zenon DEF Entries
<1>4. E \in [1 .. Len(w) -> Seq(Chars)] /\ DOMAIN E = 1 .. Len(w)
  BY <1>2, EntryType, Zenon
<1>5. \A i \in 1 .. Len(w) : E[i] = Entry(w[i])
  BY Zenon
<1> HIDE DEF E
<1>6. E \in Seq(Seq(Chars)) /\ Len(E) = Len(w)
  BY <1>1, <1>4
<1> QED BY <1>3, <1>5, <1>6, Zenon

\* What the log says is an output.
LEMMA SaidType == ASSUME NEW n, NEW w \in Seq(OkLines(n)) PROVE Said(w) \in Seq(Chars)
<1>1. Entries(w) \in Seq(Seq(Chars))
  BY EntriesType, Zenon
<1> QED BY <1>1, JoinType, SaidJoins, Zenon

\* An empty log says nothing.
LEMMA SaidEmpty == Said(<<>>) = <<>>
<1>1. Entries(<<>>) = <<>>
  BY DEF Entries
<1> QED BY <1>1, JoinEmpty, SaidJoins, Zenon

\* One more line says what it says after all the others.
LEMMA SaidAppend ==
    ASSUME NEW n, NEW w \in Seq(OkLines(n)), NEW l \in OkLines(n)
    PROVE  Said(Append(w, l)) = Said(w) \o Entry(l)
<1> DEFINE v == Append(w, l)
           E == Entries(v)
           A == Append(Entries(w), Entry(l))
<1>1. v \in Seq(OkLines(n)) /\ Len(v) = Len(w) + 1 /\ v[Len(w) + 1] = l /\ Len(w) \in Nat
  OBVIOUS
<1>2. \A i \in 1 .. Len(w) : v[i] = w[i] /\ i \in 1 .. Len(w) + 1
  OBVIOUS
<1> HIDE DEF v
<1>3. /\ Entries(w) \in Seq(Seq(Chars)) /\ Len(Entries(w)) = Len(w) /\ Entry(l) \in Seq(Chars)
      /\ \A i \in 1 .. Len(w) : Entries(w)[i] = Entry(w[i])
  BY EntriesType, EntryType, Zenon
<1>4. E \in Seq(Seq(Chars)) /\ Len(E) = Len(v) /\ \A i \in 1 .. Len(v) : E[i] = Entry(v[i])
  BY <1>1, EntriesType, Zenon
<1>5. A \in Seq(Seq(Chars)) /\ Len(A) = Len(w) + 1 /\ A[Len(w) + 1] = Entry(l)
  BY <1>3
<1>6. \A i \in 1 .. Len(w) : A[i] = Entries(w)[i]
  BY <1>3
<1> HIDE DEF E, A
<1>7. ASSUME NEW i \in 1 .. Len(E) PROVE E[i] = A[i]
  <2>1. i \in 1 .. Len(w) \/ i = Len(w) + 1
    BY <1>1, <1>4
  <2>2. i \in 1 .. Len(v)
    BY <1>4, Zenon
  <2> QED BY <1>1, <1>2, <1>3, <1>4, <1>5, <1>6, <2>1, <2>2, Zenon
<1>8. E = A
  <2>1. Len(E) = Len(A)
    BY <1>1, <1>4, <1>5, Zenon
  <2> QED BY <1>4, <1>5, <1>7, <2>1, SequencesEqual, Zenon
<1>9. Join(A) = Join(Entries(w)) \o Entry(l)
  BY <1>3, JoinAppend, Zenon DEF A
<1> QED BY <1>8, <1>9, SaidJoins, Zenon DEF E, v

\* The longest line, cut off what is too long, and the rest.
Exceeds(a) == IF maxLen > 0 /\ Len(a) > maxLen THEN Len(a) - maxLen ELSE 0
CutOf(a) == IF Exceeds(a) = 0 THEN <<>> ELSE <<Line("P", SubSeq(a, 1, maxLen))>>
LeftIn(a) == IF Exceeds(a) = 0 THEN a ELSE SubSeq(a, maxLen + 1, Len(a))

\* A line that is cut says the same, if it is not too long for the rest.
LEMMA CutRight ==
    ASSUME LogConstants, maxLen \in MaxLens, NEW w \in Seq(OkLines(maxLen)), NEW a \in Seq(Chars),
           \A i \in 1 .. Len(a) : a[i] # LF, Exceeds(a) <= maxLen
    PROVE  /\ w \o CutOf(a) \in Seq(OkLines(maxLen)) /\ OkText(maxLen, LeftIn(a))
           /\ Said(w \o CutOf(a)) \o LeftIn(a) = Said(w) \o a
           /\ Len(LeftIn(a)) = IF Exceeds(a) = 0 THEN Len(a) ELSE Exceeds(a)
<1>1. maxLen \in Nat /\ Len(a) \in Nat
  BY BufferSize
<1>2. CASE Exceeds(a) = 0
  <2>1. maxLen > 0 => Len(a) <= maxLen
    BY <1>1, <1>2, SMTT(60) DEF Exceeds
  <2>2. w \o <<>> = w
    OBVIOUS
  <2> QED BY <1>2, <2>1, <2>2, Zenon DEF CutOf, LeftIn, OkText
<1>3. CASE Exceeds(a) # 0
  <2>1. maxLen > 0 /\ Len(a) > maxLen /\ Exceeds(a) = Len(a) - maxLen /\ maxLen \in 0 .. Len(a)
    BY <1>1, <1>3 DEF Exceeds
  <2> DEFINE b == SubSeq(a, 1, maxLen)
             c == SubSeq(a, maxLen + 1, Len(a))
             l == Line("P", b)
  <2>2. /\ b \in Seq(Chars) /\ Len(b) = maxLen /\ c \in Seq(Chars) /\ Len(c) = Len(a) - maxLen
        /\ b \o c = a
    BY <2>1, CutAt, ZenonT(60)
  <2>3. (\A i \in 1 .. maxLen : b[i] = a[i]) /\ (\A i \in 1 .. Len(a) - maxLen : c[i] = a[maxLen + i])
    BY <2>1, CutAt, Zenon
  <2> HIDE DEF b, c
  <2>4. (\A i \in 1 .. Len(b) : b[i] # LF) /\ (\A i \in 1 .. Len(c) : c[i] # LF)
    <3>1. \A i \in 1 .. Len(b) : i \in 1 .. maxLen /\ i \in 1 .. Len(a)
      BY <1>1, <2>1, <2>2, SMTT(60)
    <3>2. \A i \in 1 .. Len(c) : i \in 1 .. Len(a) - maxLen /\ maxLen + i \in 1 .. Len(a)
      BY <1>1, <2>1, <2>2
    <3> QED BY <2>3, <3>1, <3>2, Zenon
  <2>5. Len(b) <= maxLen /\ Len(c) <= maxLen /\ Len(c) = Exceeds(a)
    <3>1. \A n \in Nat : n <= n
      OBVIOUS
    <3>2. Len(c) = Exceeds(a)
      BY <2>1, <2>2, Zenon
    <3> QED BY <1>1, <2>2, <3>1, <3>2, Zenon
  <2>6. l \in OkLines(maxLen) /\ OkText(maxLen, c) /\ l.content = b /\ l.tag = "P"
    BY <2>2, <2>4, <2>5, SMTT(60) DEF OkLines, OkText, Line
  <2> HIDE DEF l
  <2>7. w \o <<l>> = Append(w, l) /\ Append(w, l) \in Seq(OkLines(maxLen))
    BY <2>6
  <2>8. Said(Append(w, l)) = Said(w) \o b
    <3>1. Entry(l) = b
      <4>1. b \o <<>> = b
        BY <2>2, EmptyNeutral, Zenon
      <4> QED BY <2>6, <4>1, Zenon DEF Entry
    <3> QED BY <2>6, <3>1, SaidAppend, Zenon
  <2>9. (Said(w) \o b) \o c = Said(w) \o (b \o c)
    <3>1. Said(w) \in Seq(Chars) /\ b \in Seq(Chars) /\ c \in Seq(Chars)
      BY <2>2, SaidType, Zenon
    <3> QED BY <3>1, Associative, SMTT(60)
  <2>10. CutOf(a) = <<l>> /\ LeftIn(a) = c
    BY <1>3, Zenon DEF CutOf, LeftIn, l, b, c
  <2>11. Said(w \o <<l>>) \o c = Said(w) \o a
    BY <2>2, <2>7, <2>8, <2>9, Zenon
  <2> QED BY <1>3, <2>5, <2>6, <2>7, <2>10, <2>11, Zenon
<1> QED BY <1>2, <1>3, Zenon

\* What is in the log, then what is kept of the line being read, then what is still to be read,
\* say together what the container wrote.
LogInv ==
    /\ maxLen \in MaxLens /\ redirect \in {"running", "done"} /\ input \in Seq(Chars)
    /\ \E n \in 0 .. Len(input) : rest = SubSeq(input, n + 1, Len(input))
    /\ OkText(maxLen, buf) /\ lastLen \in 0 .. Len(buf)
    /\ written \in Seq(OkLines(maxLen))
    /\ redirect = "running" => (Said(written) \o buf) \o Unified(rest) = Unified(input)
    /\ redirect = "done" => Said(written) = Unified(input)

\* What is read extends the line so far by less than a buffer.
LEMMA Extends ==
    ASSUME LogConstants, LogInv, NEW q, Reads(rest, q), NEW a, a = buf \o q.line
    PROVE  /\ a \in Seq(Chars) /\ Len(a) = Len(buf) + Len(q.line) /\ \A i \in 1 .. Len(a) : a[i] # LF
           /\ Exceeds(a) \in Nat /\ Exceeds(a) <= maxLen /\ Exceeds(a) <= Len(q.line)
<1>1. /\ buf \in Seq(Chars) /\ q.line \in Seq(Chars) /\ Len(q.line) <= bufSize
      /\ (maxLen > 0 => Len(buf) <= maxLen)
      /\ (\A i \in 1 .. Len(buf) : buf[i] # LF) /\ \A i \in 1 .. Len(q.line) : q.line[i] # LF
  BY Zenon DEF LogInv, OkText, Reads
<1>2. bufSize \in Nat /\ maxLen \in Nat /\ (maxLen > 0 => bufSize <= maxLen)
  BY BufferSize DEF LogInv
<1> DEFINE l == q.line
<1> HIDE DEF l
<1>3. l \in Seq(Chars) /\ Len(l) <= bufSize /\ (\A i \in 1 .. Len(l) : l[i] # LF) /\ a = buf \o l
  BY <1>1, Zenon DEF l
<1>4. Len(buf) \in Nat /\ Len(l) \in Nat
  BY <1>1, <1>3
<1>5. a \in Seq(Chars) /\ Len(a) = Len(buf) + Len(l)
  BY <1>1, <1>3, Concatenation, ZenonT(60)
<1>6. ASSUME NEW i \in 1 .. Len(a) PROVE a[i] # LF
  <2>1. CASE i \in 1 .. Len(buf)
    BY <1>1, <1>3, <1>4, <1>5, <2>1, SMTT(60)
  <2>2. CASE i \notin 1 .. Len(buf)
    <3>1. i - Len(buf) \in 1 .. Len(l) /\ a[i] = l[i - Len(buf)]
      BY <1>1, <1>3, <1>4, <1>5, <2>2, SMTT(60)
    <3> QED BY <1>3, <3>1, Zenon
  <2> QED BY <2>1, <2>2, Zenon
<1>7. Exceeds(a) \in Nat /\ Exceeds(a) <= maxLen /\ Exceeds(a) <= Len(l)
  BY <1>1, <1>2, <1>3, <1>4, <1>5, SMTT(60) DEF Exceeds
<1> QED BY <1>5, <1>6, <1>7, Zenon DEF l

\* What is still to be read is the end of the output.
LEMMA RestLeft ==
    ASSUME LogInv, NEW q, Reads(rest, q)
    PROVE  q.rest \in Seq(Chars) /\ \E n \in 0 .. Len(input) : q.rest = SubSeq(input, n + 1, Len(input))
<1>1. PICK n \in 0 .. Len(input) : rest = SubSeq(input, n + 1, Len(input))
  BY Zenon DEF LogInv
<1>2. PICK m \in 0 .. Len(rest) : q.rest = SubSeq(rest, m + 1, Len(rest))
  BY Zenon DEF Reads
<1>3. input \in Seq(Chars)
  BY Zenon DEF LogInv
<1>4. n + m \in 0 .. Len(input) /\ SubSeq(rest, m + 1, Len(rest)) = SubSeq(input, n + m + 1, Len(input))
  BY <1>1, <1>3, LeftOf, ZenonT(60)
<1>5. SubSeq(input, n + m + 1, Len(input)) \in Seq(Chars)
  BY <1>3, <1>4, CutAt, Zenon
<1> QED BY <1>2, <1>4, <1>5, Zenon

\* One turn of the loop loses nothing.
LEMMA RedirectStep == ASSUME LogConstants, LogInv, redirectLogs PROVE LogInv'
<1> DEFINE r == readLine(rest)
           all == buf \o r.line
           last == IF r.line # <<>> THEN Len(r.line) ELSE lastLen
           w == written \o CutOf(all)
           left == LeftIn(all)
           l == Line(IF r.err = "EOF" THEN "P" ELSE "F", left)
           U == Unified(r.rest)
<1>1. redirect = "running" /\ (Said(written) \o buf) \o Unified(rest) = Unified(input) /\ input' = input /\ maxLen' = maxLen
  BY Zenon DEF LogInv, redirectLogs
<1>2. rest' = r.rest
  BY Zenon DEF redirectLogs
<1>3. \/ r.err = "EOF" /\ Len(all) = 0 /\ redirect' = "done" /\ UNCHANGED <<buf, lastLen, written>>
      \/ Exceeds(all) > last
      \/ /\ ~ (Exceeds(all) > last) /\ r.isPrefix /\ buf' = left
         /\ lastLen' = (IF Exceeds(all) = 0 THEN last ELSE Exceeds(all)) /\ written' = w /\ redirect' = redirect
      \/ /\ ~ (Exceeds(all) > last) /\ ~r.isPrefix /\ written' = w \o <<l>> /\ buf' = <<>> /\ lastLen' = 0
         /\ redirect' = IF r.err = "EOF" THEN "done" ELSE redirect
  BY Zenon DEF redirectLogs, Exceeds, CutOf, LeftIn
<1>4. rest \in Seq(Chars) /\ Reads(rest, r)
  <2>1. rest \in Seq(Chars)
    <3>1. PICK n \in 0 .. Len(input) : rest = SubSeq(input, n + 1, Len(input))
      BY Zenon DEF LogInv
    <3>2. input \in Seq(Chars)
      BY Zenon DEF LogInv
    <3>3. SubSeq(input, n + 1, Len(input)) \in Seq(Chars)
      BY <3>2, CutAt, Zenon
    <3> QED BY <3>1, <3>3, Zenon
  <2> QED BY <2>1, ReadsRight, Zenon DEF LogInv
<1> HIDE DEF r
<1>5. r.rest \in Seq(Chars) /\ \E n \in 0 .. Len(input) : r.rest = SubSeq(input, n + 1, Len(input))
  BY <1>4, RestLeft, Zenon
<1>6. /\ all \in Seq(Chars) /\ Len(all) = Len(buf) + Len(r.line) /\ \A i \in 1 .. Len(all) : all[i] # LF
      /\ Exceeds(all) \in Nat /\ Exceeds(all) <= maxLen /\ Exceeds(all) <= Len(r.line)
  BY <1>4, Extends, Zenon
<1>7. /\ w \in Seq(OkLines(maxLen)) /\ OkText(maxLen, left) /\ Said(w) \o left = Said(written) \o all
      /\ Len(left) = IF Exceeds(all) = 0 THEN Len(all) ELSE Exceeds(all)
  BY <1>6, CutRight, Zenon DEF LogInv
<1>8. /\ buf \in Seq(Chars) /\ r.line \in Seq(Chars) /\ U \in Seq(Chars) /\ Said(written) \in Seq(Chars)
      /\ Ends(r) \in Seq(Chars) /\ lastLen \in 0 .. Len(buf)
  <2>1. buf \in Seq(Chars) /\ r.line \in Seq(Chars) /\ lastLen \in 0 .. Len(buf)
    BY <1>4, Zenon DEF LogInv, OkText, Reads
  <2>2. U \in Seq(Chars) /\ Said(written) \in Seq(Chars)
    BY <1>5, UnifiedType, SaidType, Zenon DEF LogInv
  <2>3. Ends(r) \in Seq(Chars)
    BY LineEnd, Zenon DEF Ends
  <2> QED BY <2>1, <2>2, <2>3, Zenon
<1>9. Unified(input) = (Said(written) \o all) \o (Ends(r) \o U)
  <2>1. Unified(rest) = (r.line \o Ends(r)) \o U
    BY <1>4, Zenon DEF Reads
  <2>2. Unified(input) = (Said(written) \o buf) \o ((r.line \o Ends(r)) \o U)
    BY <1>1, <2>1, Zenon
  <2>3. (Said(written) \o buf) \o ((r.line \o Ends(r)) \o U) = (Said(written) \o (buf \o r.line)) \o (Ends(r) \o U)
    <3> DEFINE x == Said(written)
               c == r.line
               e == Ends(r)
               u == Unified(r.rest)
    <3>1. x \in Seq(Chars) /\ buf \in Seq(Chars) /\ c \in Seq(Chars) /\ e \in Seq(Chars) /\ u \in Seq(Chars)
      BY <1>8, Zenon
    <3> HIDE DEF x, c, e, u
    <3>2. Regrouped(x, buf, c, e, u)
      BY <3>1, Regroup, Zenon
    <3> QED BY <3>2, Zenon DEF Regrouped, x, c, e, u
  <2> QED BY <2>2, <2>3, Zenon
<1>10. ~ (Exceeds(all) > last)
  <2>1. Len(r.line) \in Nat /\ Len(buf) \in Nat /\ (r.line = <<>> => Len(r.line) = 0)
    BY <1>8
  <2> QED BY <1>6, <1>8, <2>1, SMTT(60)
<1> HIDE DEF all, w, left, U, last
<1>11. CASE r.err = "EOF" /\ Len(all) = 0 /\ redirect' = "done" /\ UNCHANGED <<buf, lastLen, written>>
  <2>1. Ends(r) = <<>> /\ U = <<>>
    BY <1>4, <1>11, Zenon DEF Reads, Ends, U
  <2>2. all = <<>> /\ <<>> \o <<>> = <<>> /\ Said(written) \o <<>> = Said(written)
    BY <1>6, <1>8, <1>11, SMTT(60)
  <2>3. Unified(input) = Said(written)
    BY <1>9, <2>1, <2>2, Zenon
  <2>4. redirect' # "running" /\ redirect' \in {"running", "done"}
    BY <1>11, Zenon
  <2> QED BY <1>1, <1>2, <1>5, <1>11, <2>3, <2>4, Zenon DEF LogInv
<1>12. CASE r.isPrefix /\ buf' = left /\ lastLen' = (IF Exceeds(all) = 0 THEN last ELSE Exceeds(all))
            /\ written' = w /\ redirect' = redirect
  <2>1. Ends(r) = <<>>
    BY <1>12, Zenon DEF Ends
  <2>2. <<>> \o U = U
    BY <1>8, EmptyNeutral, Zenon
  <2>3. (Said(w) \o left) \o U = Unified(input)
    BY <1>7, <1>9, <2>1, <2>2, ZenonT(60)
  <2>4. lastLen' \in 0 .. Len(left)
    <3>1. Len(r.line) \in Nat /\ Len(buf) \in Nat
      BY <1>8
    <3> QED BY <1>6, <1>7, <1>8, <1>12, <3>1, SMTT(60) DEF last
  <2> QED BY <1>1, <1>2, <1>5, <1>7, <1>12, <2>3, <2>4, Zenon DEF LogInv, U
<1>13. CASE ~r.isPrefix /\ written' = w \o <<l>> /\ buf' = <<>> /\ lastLen' = 0
            /\ redirect' = IF r.err = "EOF" THEN "done" ELSE redirect
  <2>1. l \in OkLines(maxLen) /\ l.content = left /\ l.tag = IF r.err = "EOF" THEN "P" ELSE "F"
    BY <1>7 DEF Line, OkLines, OkText
  <2> HIDE DEF l
  <2>2. w \o <<l>> = Append(w, l) /\ Append(w, l) \in Seq(OkLines(maxLen))
    BY <1>7, <2>1
  <2>3. Entry(l) = left \o Ends(r)
    BY <1>13, <2>1, Zenon DEF Entry, Ends
  <2>4. Said(w \o <<l>>) = Said(w) \o (left \o Ends(r))
    BY <1>7, <2>1, <2>2, <2>3, SaidAppend, Zenon
  <2>5. left \in Seq(Chars) /\ Said(w) \in Seq(Chars)
    BY <1>7, SaidType, Zenon DEF OkText
  <2>6. Said(w) \o (left \o Ends(r)) = (Said(written) \o all) \o Ends(r)
    <3>1. Said(w) \o (left \o Ends(r)) = (Said(w) \o left) \o Ends(r)
      <4> DEFINE x == Said(w)
                 z == Ends(r)
      <4>1. x \in Seq(Chars) /\ left \in Seq(Chars) /\ z \in Seq(Chars)
        BY <1>8, <2>5, Zenon
      <4> HIDE DEF x, z
      <4>2. (x \o left) \o z = x \o (left \o z)
        BY <4>1, Grouping
      <4> QED BY <4>2, Zenon DEF x, z
    <3> QED BY <1>7, <3>1, Zenon
  <2>7. Said(written') \in Seq(Chars) /\ Said(written') \o U = Unified(input)
    <3>1. Said(written) \o all \in Seq(Chars)
      BY <1>6, <1>8, Concatenated, Zenon
    <3>2. (Said(written) \o all) \o Ends(r) \in Seq(Chars)
      BY <1>8, <3>1, Concatenated, Zenon
    <3>3. ((Said(written) \o all) \o Ends(r)) \o U = (Said(written) \o all) \o (Ends(r) \o U)
      BY <1>8, <3>1, Associative, ZenonT(60)
    <3> QED BY <1>9, <1>13, <2>4, <2>6, <3>2, <3>3, Zenon
  <2>8. (Said(written') \o buf') \o U = Unified(input)
    <3>1. Said(written') \o <<>> = Said(written')
      BY <2>7, EmptyNeutral, Zenon
    <3> QED BY <1>13, <2>7, <3>1, Zenon
  <2>9. r.err = "EOF" => Said(written') = Unified(input)
    <3>1. r.err = "EOF" => U = <<>>
      BY <1>4, ZenonT(60) DEF Reads, U
    <3>2. Said(written') \o <<>> = Said(written')
      BY <2>7, EmptyNeutral, Zenon
    <3> QED BY <2>7, <3>1, <3>2, Zenon
  <2>10. OkText(maxLen, buf') /\ lastLen' \in 0 .. Len(buf')
    BY <1>13, LogConstants, <1>6, BufferSize, SMTT(60) DEF OkText, LogInv, LogConstants
  <2>11. redirect' \in {"running", "done"} /\ (redirect' = "done" => r.err = "EOF")
    BY <1>1, <1>13, Zenon
  <2>12. written' \in Seq(OkLines(maxLen))
    BY <1>13, <2>2, Zenon
  <2> QED BY <1>1, <1>2, <1>5, <2>8, <2>9, <2>10, <2>11, <2>12, Zenon DEF LogInv, U
<1> QED BY <1>3, <1>10, <1>11, <1>12, <1>13, Zenon

\* The log has what the container wrote (redirectLogs): whatever the output, the limit and the
\* size of the buffer, at the end its lines say the output, and before that with what is
\* still to be read; none is too long or has a line end in it.
THEOREM LogIsRight == ASSUME LogConstants PROVE LogSpec => []LogRight
<1>1. LogInit => LogInv
  <2> SUFFICES ASSUME LogInit PROVE LogInv
    OBVIOUS
  <2>1. input \in Seq(Chars) /\ Len(input) \in Nat
    <3>1. PICK n \in 0 .. MaxInput : input \in [1 .. n -> Bytes]
      BY Zenon DEF LogInit
    <3>2. Bytes \subseteq Chars /\ n \in Nat
      BY DEF Chars, LogConstants
    <3>3. input \in [1 .. n -> Chars]
      BY <3>1, <3>2
    <3> QED BY <3>2, <3>3
  <2>2. 0 \in 0 .. Len(input) /\ SubSeq(input, 0 + 1, Len(input)) = input
    BY <2>1
  <2>3. OkText(maxLen, <<>>) /\ 0 \in 0 .. Len(<<>>) /\ <<>> \in Seq(OkLines(maxLen))
    BY DEF OkText, LogInit, LogConstants
  <2>4. (<<>> \o <<>>) \o Unified(input) = Unified(input)
    <3>1. Unified(input) \in Seq(Chars)
      BY <2>1, UnifiedType, Zenon
    <3> QED BY <3>1
  <2>5. redirect # "done" /\ redirect \in {"running", "done"} /\ maxLen \in MaxLens
    BY Zenon DEF LogInit
  <2> QED BY <2>1, <2>2, <2>3, <2>4, <2>5, SaidEmpty, Zenon DEF LogInit, LogInv
<1>2. LogInv /\ [LogNext]_logVars => LogInv'
  <2> SUFFICES ASSUME LogInv, [LogNext]_logVars PROVE LogInv'
    OBVIOUS
  <2>1. CASE redirectLogs
    BY <2>1, RedirectStep, Zenon
  <2>2. CASE UNCHANGED logVars
    BY <2>2, Zenon DEF logVars, LogInv
  <2> QED BY <2>1, <2>2, Zenon DEF LogNext, LogEnded
<1>3. LogInv => LogRight
  <2> SUFFICES ASSUME LogInv PROVE LogRight
    OBVIOUS
  <2>1. \A i \in DOMAIN written : written[i] \in OkLines(maxLen)
    BY DEF LogInv
  <2>2. ASSUME NEW i \in DOMAIN written
        PROVE  /\ written[i].tag \in {"F", "P"} /\ (maxLen > 0 => Len(written[i].content) <= maxLen)
               /\ \A j \in DOMAIN written[i].content : written[i].content[j] # LF
    <3> DEFINE c == written[i].content
    <3>1. written[i].tag \in {"F", "P"} /\ OkText(maxLen, c)
      BY <2>1 DEF OkLines
    <3> HIDE DEF c
    <3>2. DOMAIN c = 1 .. Len(c)
      BY <3>1 DEF OkText
    <3> QED BY <3>1, <3>2, Zenon DEF OkText, c
  <2>3. LogTypeOK
    BY <2>2, Zenon DEF LogInv, LogTypeOK
  <2>4. redirect # "panic"
    BY DEF LogInv
  <2> QED BY <2>2, <2>3, <2>4, Zenon DEF LogInv, LogRight
<1> QED BY <1>1, <1>2, <1>3, PTL DEF LogSpec

=============================================================================
