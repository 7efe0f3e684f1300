----------------------------- MODULE PodSandbox -----------------------------
(***************************************************************************)
(* The life of one pod sandbox in the CRI plugin: RunPodSandbox,           *)
(* StopPodSandbox and RemovePodSandbox served by concurrent gRPC           *)
(* goroutines, the exit monitors and the event loop that observe the end   *)
(* of the sandbox container, the recovery of the sandbox after a restart,  *)
(* and, in outline, the containers created and started in the pod while    *)
(* the sandbox is stopped and removed (ContainerLifecycle has their        *)
(* detail).                                                                *)
(*                                                                         *)
(* The status of a sandbox is not checkpointed: containerd's container and *)
(* task, the network namespace and the directories survive a restart, the  *)
(* sandbox object is rebuilt from them.                                    *)
(***************************************************************************)
EXTENDS Naturals, FiniteSets

CONSTANTS Threads,          \* goroutines serving gRPC calls on the sandbox
          Loop,             \* the goroutine of eventMonitor.start
          Containers,       \* containers of the pod
          ExitChannelSize,  \* capacity of eventMonitor.exitCh (1024 in the code)
          MaxFaults,        \* bound: failing calls to containerd, CNI or the disk
          MaxTimeouts,      \* bound: contexts of StopPodSandbox that expire
          MaxCrashes        \* bound: restarts of the plugin

ASSUME SandboxAssumption ==
    /\ Loop \notin Threads
    /\ ExitChannelSize \in Nat \ {0}
    /\ MaxFaults \in Nat /\ MaxTimeouts \in Nat /\ MaxCrashes \in Nat

Procs == Threads \cup {Loop}

VARIABLES
    up,         \* the plugin runs and is initialized
    hostNet,    \* NamespaceMode_NODE: the pod has no network namespace of its own
    \* the sandbox object in memory
    inStore,    \* it is in sandboxStore
    state,      \* Sandbox.Status.State
    stopCh,     \* Sandbox.StopCh is closed
    reserved,   \* its name is in sandboxNameIndex
    \* what survives a restart of the plugin
    netns,      \* the namespace: "none", a plain "file", or "mounted" on the file
    network,    \* the CNI plugins have set the pod network up
    cntrd,      \* containerd has the sandbox container
    task,       \* its containerd task; "dying" has been sent SIGKILL
    rootDir, volatileDir, shm,    \* the two directories, the tmpfs mounted in the second
    \* event monitor; an exit event of a sandbox carries nothing but its id
    monitor, waits, exitCh, backOff, batch,
    \* gRPC calls: todo is what is left of the containers a call has listed
    pc, call, seen, todo,
    \* the containers of the pod
    cntr,
    \* environment, and whether a cleanup failed, was cut short by a crash or bypassed by others
    faults, timeouts, crashes, unclean

object == <<inStore, state, stopCh, reserved>>
net    == <<netns, network>>
ctrd   == <<cntrd, task>>
disk   == <<rootDir, volatileDir, shm>>
mons   == <<monitor, waits>>
chans  == <<exitCh, backOff, batch>>
rpc    == <<call, seen, todo>>
env    == <<timeouts, crashes>>
vars   == <<up, hostNet, object, net, ctrd, disk, mons, chans, pc, rpc, cntr, faults, env, unclean>>

States == {"READY", "NOTREADY", "UNKNOWN"}
Alive == {"running", "dying"}
RunSteps == {"image", "newNetNS", "setupNetwork", "newContainer", "mkRoot", "mkVolatile",
             "setupFiles", "newTask", "startTask", "setReady", "storeAdd", "startMonitor"}
UndoSteps == {"undoTask", "undoFiles", "undoVolatile", "undoRoot", "undoContainer",
              "undoNetwork", "undoNetNS", "undoName"}
StopSteps == {"stopList", "stopCntr", "cleanupFiles", "stopState", "stopRead", "stopTask",
              "stopWait", "stopKill", "waitStop", "exitCancel", "waitCancel", "netnsClosed",
              "teardown", "removeNetNS", "stopped", "stopFailed"}
RemoveSteps == {"removeState", "checkNetNS", "removeList", "removeCntr", "rmRoot", "rmVolatile",
                "deleteContainer", "storeDelete", "releaseName"}
ExitSteps == {"exitTask", "exitDelete", "exitUpdate", "exitStop"}
LoadSteps == {"load", "loadTask", "loadWait", "loadDelete", "loadAdd", "cleanupOrphans"}
Steps == RunSteps \cup UndoSteps \cup StopSteps \cup RemoveSteps \cup ExitSteps \cup LoadSteps
         \cup {"idle"}

\* What the CRI calls of the containers show of one: ContainerLifecycle in outline.
\* "checked" has passed the READY test of StartContainer, "tasked" has a containerd task.
CntrStates == {"none", "creating", "created", "checked", "tasked", "running", "exited"}

Init ==
    /\ up = TRUE /\ hostNet \in BOOLEAN
    /\ inStore = FALSE /\ state = "UNKNOWN" /\ stopCh = FALSE /\ reserved = TRUE
    /\ netns = "none" /\ network = FALSE /\ cntrd = FALSE /\ task = "none"
    /\ rootDir = FALSE /\ volatileDir = FALSE /\ shm = FALSE
    /\ monitor = [p \in Procs |-> "off"] /\ waits = {}
    /\ exitCh = 0 /\ backOff = 0 /\ batch = 0
    /\ \E t \in Threads :    \* RunPodSandbox has just reserved the name
          /\ pc = [p \in Procs |-> IF p = t THEN "image" ELSE "idle"]
          /\ call = [p \in Threads |-> IF p = t THEN "run" ELSE "none"]
    /\ seen = [t \in Threads |-> "none"] /\ todo = [t \in Threads |-> {}]
    /\ cntr = [c \in Containers |-> "none"]
    /\ faults = 0 /\ timeouts = 0 /\ crashes = 0 /\ unclean = FALSE

-----------------------------------------------------------------------------
(* Building blocks *)

At(p, step) == up /\ pc[p] = step
Goto(p, step) == pc' = [pc EXCEPT ![p] = step]

\* A call to containerd, to a CNI plugin or to the file system returns an unexpected error.
Fault == faults < MaxFaults /\ faults' = faults + 1
Fine == UNCHANGED faults

\* A gRPC handler returns.
Return(t) ==
    /\ Goto(t, "idle")
    /\ call' = [call EXCEPT ![t] = "none"]
    /\ seen' = [seen EXCEPT ![t] = "none"]
    /\ todo' = [todo EXCEPT ![t] = {}]

\* An error of a deferred cleanup is only logged.
Logged == Fault /\ unclean' = TRUE
Clean == Fine /\ UNCHANGED unclean

\* task.Delete(WithProcessKill); when it fails the process may have been killed already, and even
\* the task be deleted.
TaskDeleteFails == Fault /\ task' \in {task} \cup (IF task = "none" THEN {} ELSE {"stopped", "none"})

\* NetNS.Closed: a path that is no namespace is removed and counts as closed.
Closed == netns # "mounted"

\* unmountNS: unmount, then remove the file; each of them may fail.
NetNSRemoved == netns' = "none"
NetNSRemoveFails == Fault /\ netns' \in {netns, IF netns = "none" THEN "none" ELSE "file"}

-----------------------------------------------------------------------------
(* RunPodSandbox: each step registers a defer that undoes it on error *)

\* ensureImageExists, toContainerdImage, getSandboxRuntime.
RunImage(t) ==
    /\ At(t, "image")
    /\ (Fine /\ Goto(t, IF hostNet THEN "newContainer" ELSE "newNetNS")) \/ (Fault /\ Goto(t, "undoName"))
    /\ UNCHANGED <<up, hostNet, object, net, ctrd, disk, mons, chans, rpc, cntr, env, unclean>>

\* newNS removes the file again when the namespace cannot be created or mounted.
NewNetNS(t) ==
    /\ At(t, "newNetNS")
    /\ \/ Fine /\ netns' = "mounted" /\ Goto(t, "setupNetwork")
       \/ Fault /\ UNCHANGED netns /\ Goto(t, "undoName")
    /\ UNCHANGED <<up, hostNet, object, network, ctrd, disk, mons, chans, rpc, cntr, env, unclean>>

\* A failing set-up, or one without an address, may leave part of the network behind.
setupPodNetwork(t) ==
    /\ At(t, "setupNetwork")
    /\ \/ Fine /\ network' = TRUE /\ Goto(t, "newContainer")
       \/ Fault /\ network' \in BOOLEAN /\ Goto(t, "undoNetwork")
    /\ UNCHANGED <<up, hostNet, object, netns, ctrd, disk, mons, chans, rpc, cntr, env, unclean>>

\* The spec, the options and client.NewContainer, whose metadata holds NetNSPath.
RunNewContainer(t) ==
    /\ At(t, "newContainer")
    /\ \/ Fine /\ cntrd' = TRUE /\ Goto(t, "mkRoot")
       \/ Fault /\ UNCHANGED cntrd /\ Goto(t, IF hostNet THEN "undoName" ELSE "undoNetwork")
    /\ UNCHANGED <<up, hostNet, object, net, task, disk, mons, chans, rpc, cntr, env, unclean>>

RunMkdirs(t) ==
    /\ up
    /\ \/ /\ pc[t] = "mkRoot" /\ UNCHANGED volatileDir
          /\ \/ Fine /\ rootDir' = TRUE /\ Goto(t, "mkVolatile")
             \/ Fault /\ UNCHANGED rootDir /\ Goto(t, "undoContainer")
       \/ /\ pc[t] = "mkVolatile" /\ UNCHANGED rootDir
          /\ \/ Fine /\ volatileDir' = TRUE /\ Goto(t, "setupFiles")
             \/ Fault /\ UNCHANGED volatileDir /\ Goto(t, "undoRoot")
    /\ UNCHANGED <<up, hostNet, object, net, ctrd, shm, mons, chans, rpc, cntr, env, unclean>>

\* The mount of /dev/shm is the last thing it does.
setupSandboxFiles(t) ==
    /\ At(t, "setupFiles")
    /\ \/ Fine /\ shm' = TRUE /\ Goto(t, "newTask")
       \/ Fault /\ UNCHANGED shm /\ Goto(t, "undoVolatile")
    /\ UNCHANGED <<up, hostNet, object, net, ctrd, rootDir, volatileDir, mons, chans, rpc, cntr, env, unclean>>

\* container.Info and NewTask, then task.Wait and task.Start.  The error of a call may come after
\* what it does is done; a task whose NewTask failed is deleted by nobody.
RunTask(t) ==
    /\ up
    /\ \/ /\ pc[t] = "newTask"
          /\ \/ Fine /\ task' = "created" /\ Goto(t, "startTask")
             \/ Fault /\ task' \in {task, "created"} /\ Goto(t, "undoFiles")
       \/ /\ pc[t] = "startTask"
          /\ \/ Fine /\ task' = "running" /\ Goto(t, "setReady")
             \/ Fault /\ task' \in {task, "running"} /\ Goto(t, "undoTask")
    /\ UNCHANGED <<up, hostNet, object, net, cntrd, disk, mons, chans, rpc, cntr, env, unclean>>

RunSetReady(t) ==
    /\ At(t, "setReady") /\ state' = "READY" /\ Goto(t, "storeAdd")
    /\ UNCHANGED <<up, hostNet, inStore, stopCh, reserved, net, ctrd, disk, mons, chans, rpc, cntr,
                   faults, env, unclean>>

\* sandboxStore.Add fails when the label cannot be reserved.
RunStoreAdd(t) ==
    /\ At(t, "storeAdd")
    /\ \/ Fine /\ inStore' = TRUE /\ Goto(t, "startMonitor")
       \/ Fault /\ UNCHANGED inStore /\ Goto(t, "undoTask")
    /\ UNCHANGED <<up, hostNet, state, stopCh, reserved, net, ctrd, disk, mons, chans, rpc, cntr, env, unclean>>

\* Mutant: no exit monitor is started.
RunStartMonitorForgotten(t) ==
    /\ At(t, "startMonitor") /\ Return(t)
    /\ UNCHANGED <<up, hostNet, object, net, ctrd, disk, mons, chans, cntr, faults, env, unclean>>

\* startExitMonitor(context.Background(), ...), after the sandbox is in the store.
RunStartMonitor(t) ==
    /\ At(t, "startMonitor") /\ monitor' = [monitor EXCEPT ![Loop] = "waiting"] /\ Return(t)
    /\ UNCHANGED <<up, hostNet, object, net, ctrd, disk, waits, chans, cntr, faults, env, unclean>>

\* The defers of a failed RunPodSandbox, in the order they run.
RunUndoFiles(t) ==
    /\ up
    /\ \/ /\ pc[t] = "undoFiles" /\ Goto(t, "undoVolatile")
          /\ (Clean /\ shm' = FALSE) \/ (Logged /\ UNCHANGED shm)
          /\ UNCHANGED <<rootDir, volatileDir>>
       \/ /\ pc[t] = "undoVolatile" /\ Goto(t, "undoRoot")    \* os.RemoveAll: busy while mounted
          /\ (Clean /\ ~shm /\ volatileDir' = FALSE) \/ (Logged /\ UNCHANGED volatileDir)
             \/ (shm /\ Fine /\ unclean' = TRUE /\ UNCHANGED volatileDir)
          /\ UNCHANGED <<rootDir, shm>>
       \/ /\ pc[t] = "undoRoot" /\ Goto(t, "undoContainer")
          /\ (Clean /\ rootDir' = FALSE) \/ (Logged /\ UNCHANGED rootDir)
          /\ UNCHANGED <<volatileDir, shm>>
    /\ UNCHANGED <<up, hostNet, object, net, ctrd, mons, chans, rpc, cntr, env>>

\* container.Delete refuses when it finds a task; an error of the lookup is taken for no task, and
\* a task that is there is left behind.
RunUndoContainerd(t) ==
    /\ up
    /\ \/ /\ pc[t] = "undoTask" /\ Goto(t, "undoFiles") /\ UNCHANGED cntrd
          /\ (Clean /\ task' = "none") \/ (TaskDeleteFails /\ unclean' = TRUE)
       \/ /\ pc[t] = "undoContainer" /\ UNCHANGED task
          /\ Goto(t, IF hostNet THEN "undoName" ELSE "undoNetwork")
          /\ \/ Clean /\ task = "none" /\ cntrd' = FALSE
             \/ Fault /\ cntrd' = FALSE /\ IF task = "none" THEN UNCHANGED unclean ELSE unclean' = TRUE
             \/ (Logged \/ (Fine /\ task # "none" /\ unclean' = TRUE)) /\ UNCHANGED cntrd
    /\ UNCHANGED <<up, hostNet, object, net, disk, mons, chans, rpc, cntr, env>>

RunUndoNetwork(t) ==
    /\ up
    /\ \/ /\ pc[t] = "undoNetwork" /\ Goto(t, "undoNetNS") /\ UNCHANGED netns
          /\ (Clean /\ network' = FALSE) \/ (Logged /\ UNCHANGED network)
       \/ /\ pc[t] = "undoNetNS" /\ Goto(t, "undoName") /\ UNCHANGED network
          /\ (Clean /\ NetNSRemoved) \/ (NetNSRemoveFails /\ unclean' = TRUE)
    /\ UNCHANGED <<up, hostNet, object, ctrd, disk, mons, chans, rpc, cntr, env>>

RunUndoName(t) ==
    /\ At(t, "undoName") /\ reserved' = FALSE /\ Return(t)
    /\ UNCHANGED <<up, hostNet, inStore, state, stopCh, net, ctrd, disk, mons, chans, cntr, faults,
                   env, unclean>>

-----------------------------------------------------------------------------
(* StopPodSandbox and stopPodSandbox *)

StopPodSandbox(t) ==
    /\ At(t, "idle") /\ inStore /\ Goto(t, "stopList")
    /\ call' = [call EXCEPT ![t] = "stop"]
    /\ UNCHANGED <<up, hostNet, object, net, ctrd, disk, mons, chans, seen, todo, cntr, faults,
                   env, unclean>>

\* stopPodSandbox returns: to StopPodSandbox, or to the RemovePodSandbox that forced it.
StopReturns(t) ==
    /\ At(t, "stopped")
    /\ \/ call[t] = "stop" /\ Return(t)
       \/ call[t] = "remove" /\ Goto(t, "checkNetNS") /\ UNCHANGED rpc
    /\ UNCHANGED <<up, hostNet, object, net, ctrd, disk, mons, chans, cntr, faults, env, unclean>>

StopFails(t) ==
    /\ At(t, "stopFailed") /\ Return(t)
    /\ UNCHANGED <<up, hostNet, object, net, ctrd, disk, mons, chans, cntr, faults, env, unclean>>

Listed == {c \in Containers : cntr[c] \notin {"none", "creating"}}

\* containerStore.List(); a container still being created is not in it.
StopList(t) ==
    /\ At(t, "stopList") /\ Goto(t, "stopCntr")
    /\ todo' = [todo EXCEPT ![t] = Listed]
    /\ UNCHANGED <<up, hostNet, object, net, ctrd, disk, mons, chans, call, seen, cntr, faults, env, unclean>>

\* stopContainer(timeout 0) on each: it leaves alone what is not running.
StopCntr(t) ==
    /\ At(t, "stopCntr")
    /\ \/ todo[t] = {} /\ Goto(t, "cleanupFiles") /\ Fine /\ UNCHANGED <<cntr, todo>>
       \/ \E c \in todo[t] :
            \/ /\ Fine /\ todo' = [todo EXCEPT ![t] = @ \ {c}] /\ UNCHANGED pc
               /\ cntr' = [cntr EXCEPT ![c] = IF @ = "running" THEN "exited" ELSE @]
            \/ /\ Fault /\ cntr[c] = "running" /\ Goto(t, "stopFailed")
               /\ UNCHANGED <<todo, cntr>>
    /\ UNCHANGED <<up, hostNet, object, net, ctrd, disk, mons, chans, call, seen, env, unclean>>

\* Unmounting what is not mounted, or is gone, is no error.
cleanupSandboxFiles(t) ==
    /\ At(t, "cleanupFiles")
    /\ (Fine /\ shm' = FALSE /\ Goto(t, "stopState")) \/ (Fault /\ UNCHANGED shm /\ Goto(t, "stopFailed"))
    /\ UNCHANGED <<up, hostNet, object, net, ctrd, rootDir, volatileDir, mons, chans, rpc, cntr, env, unclean>>

AfterStop == IF hostNet THEN "stopped" ELSE "netnsClosed"

\* The state is read to decide whether to stop the container, and again by stopSandboxContainer.
StopReadState(t) ==
    /\ up
    /\ \/ /\ pc[t] = "stopState" /\ UNCHANGED rpc
          /\ Goto(t, IF state \in {"READY", "UNKNOWN"} THEN "stopRead" ELSE AfterStop)
       \/ /\ pc[t] = "stopRead" /\ Goto(t, "stopTask")
          /\ seen' = [seen EXCEPT ![t] = state] /\ UNCHANGED <<call, todo>>
    /\ UNCHANGED <<up, hostNet, object, net, ctrd, disk, mons, chans, cntr, faults, env, unclean>>

\* container.Task; not found is success, after cleanupUnknownSandbox for UNKNOWN.
StopLoadTask(t) ==
    /\ At(t, "stopTask")
    /\ \/ task # "none" /\ Fine /\ Goto(t, IF seen[t] = "UNKNOWN" THEN "stopWait" ELSE "stopKill")
       \/ task = "none" /\ Fine /\ Goto(t, IF seen[t] = "UNKNOWN" THEN "exitTask" ELSE AfterStop)
       \/ Fault /\ Goto(t, "stopFailed")
    /\ UNCHANGED <<up, hostNet, object, net, ctrd, disk, mons, chans, rpc, cntr, env, unclean>>

\* For UNKNOWN: task.Wait and an exit monitor of this call.
StopWaitTask(t) ==
    /\ At(t, "stopWait")
    /\ \/ /\ Fine /\ Goto(t, "stopKill")
          /\ waits' = waits \cup {t} /\ monitor' = [monitor EXCEPT ![t] = "waiting"]
       \/ task = "none" /\ Fine /\ Goto(t, "exitTask") /\ UNCHANGED mons
       \/ Fault /\ Goto(t, "stopFailed") /\ UNCHANGED mons
    /\ UNCHANGED <<up, hostNet, object, net, ctrd, disk, chans, rpc, cntr, env, unclean>>

\* stopSandboxContainer returns; with an exit monitor of its own the defers run first.
StopSandboxReturns(t, ok) ==
    IF t \in waits
      THEN Goto(t, "exitCancel") /\ seen' = [seen EXCEPT ![t] = IF ok THEN "ok" ELSE "failed"]
      ELSE Goto(t, IF ok THEN AfterStop ELSE "stopFailed") /\ UNCHANGED seen

\* Mutant: an error of the kill is only logged.
StopKillLogsError(t) ==
    /\ At(t, "stopKill")
    /\ \/ /\ Fine /\ Goto(t, "waitStop") /\ UNCHANGED seen
          /\ task' = IF task \in {"created", "running"} THEN "dying" ELSE task
       \/ Fault /\ StopSandboxReturns(t, TRUE) /\ UNCHANGED task
    /\ UNCHANGED <<up, hostNet, object, net, cntrd, disk, mons, chans, call, todo, cntr, env, unclean>>

\* task.Kill(SIGKILL); not found is tolerated.
StopKill(t) ==
    /\ At(t, "stopKill")
    /\ \/ /\ Fine /\ Goto(t, "waitStop") /\ UNCHANGED seen
          /\ task' = IF task \in {"created", "running"} THEN "dying" ELSE task
       \/ Fault /\ StopSandboxReturns(t, FALSE)
          /\ task' \in {task, IF task = "running" THEN "dying" ELSE task}
    /\ UNCHANGED <<up, hostNet, object, net, cntrd, disk, mons, chans, call, todo, cntr, env, unclean>>

\* Until StopCh is closed or the context of the call is done, which is all that ends the wait once
\* another call has removed the sandbox: MaxTimeouts bounds the timeouts before that.
waitSandboxStop(t) ==
    /\ At(t, "waitStop")
    /\ \/ stopCh /\ StopSandboxReturns(t, TRUE) /\ UNCHANGED timeouts
       \/ /\ \/ timeouts < MaxTimeouts /\ timeouts' = timeouts + 1
             \/ ~inStore /\ UNCHANGED timeouts
          /\ StopSandboxReturns(t, FALSE)
    /\ UNCHANGED <<up, hostNet, object, net, ctrd, disk, mons, chans, call, todo, cntr, faults,
                   crashes, unclean>>

\* exitCancel and <-stopCh, then waitCancel.
StopCancel(t) ==
    /\ up
    /\ \/ /\ pc[t] = "exitCancel" /\ monitor[t] # "sending" /\ Goto(t, "waitCancel")
          /\ monitor' = [monitor EXCEPT ![t] = "off"] /\ UNCHANGED waits
       \/ /\ pc[t] = "waitCancel" /\ waits' = waits \ {t} /\ UNCHANGED monitor
          /\ Goto(t, IF seen[t] = "ok" THEN AfterStop ELSE "stopFailed")
    /\ UNCHANGED <<up, hostNet, object, net, ctrd, disk, chans, rpc, cntr, faults, env, unclean>>

\* NetNS.Closed; a closed namespace is torn down with an empty path.
StopNetNSClosed(t) ==
    /\ At(t, "netnsClosed")
    /\ \/ Fine /\ Goto(t, "teardown") /\ netns' = IF Closed THEN "none" ELSE netns
       \/ Fault /\ Goto(t, "stopFailed") /\ UNCHANGED netns
    /\ UNCHANGED <<up, hostNet, object, network, ctrd, disk, mons, chans, rpc, cntr, env, unclean>>

teardownPodNetwork(t) ==
    /\ At(t, "teardown")
    /\ \/ Fine /\ network' = FALSE /\ Goto(t, "removeNetNS")
       \/ Fault /\ UNCHANGED network /\ Goto(t, "stopFailed")
    /\ UNCHANGED <<up, hostNet, object, netns, ctrd, disk, mons, chans, rpc, cntr, env, unclean>>

StopRemoveNetNS(t) ==
    /\ At(t, "removeNetNS")
    /\ (Fine /\ NetNSRemoved /\ Goto(t, "stopped")) \/ (NetNSRemoveFails /\ Goto(t, "stopFailed"))
    /\ UNCHANGED <<up, hostNet, object, network, ctrd, disk, mons, chans, rpc, cntr, env, unclean>>

-----------------------------------------------------------------------------
(* RemovePodSandbox *)

RemovePodSandbox(t) ==
    /\ At(t, "idle") /\ inStore /\ Goto(t, "removeState")
    /\ call' = [call EXCEPT ![t] = "remove"]
    /\ UNCHANGED <<up, hostNet, object, net, ctrd, disk, mons, chans, seen, todo, cntr, faults,
                   env, unclean>>

\* Only a READY or UNKNOWN sandbox is stopped first.
RemoveReadState(t) ==
    /\ At(t, "removeState")
    /\ Goto(t, IF state \in {"READY", "UNKNOWN"} THEN "stopList" ELSE "checkNetNS")
    /\ UNCHANGED <<up, hostNet, object, net, ctrd, disk, mons, chans, rpc, cntr, faults, env, unclean>>

\* Mutant: the sandbox goes although its network namespace is still there.
RemoveSkipsNetNS(t) ==
    /\ At(t, "checkNetNS") /\ Goto(t, "removeList")
    /\ UNCHANGED <<up, hostNet, object, net, ctrd, disk, mons, chans, rpc, cntr, faults, env, unclean>>

RemoveCheckNetNS(t) ==
    /\ At(t, "checkNetNS")
    /\ \/ (hostNet \/ Closed) /\ Fine /\ netns' = "none" /\ Goto(t, "removeList") /\ UNCHANGED rpc
       \/ ~hostNet /\ ~Closed /\ Fine /\ Return(t) /\ UNCHANGED netns
       \/ ~hostNet /\ Fault /\ Return(t) /\ UNCHANGED netns
    /\ UNCHANGED <<up, hostNet, object, network, ctrd, disk, mons, chans, cntr, env, unclean>>

RemoveList(t) ==
    /\ At(t, "removeList") /\ Goto(t, "removeCntr") /\ todo' = [todo EXCEPT ![t] = Listed]
    /\ UNCHANGED <<up, hostNet, object, net, ctrd, disk, mons, chans, call, seen, cntr, faults,
                   env, unclean>>

\* Mutant: the container is removed although it is being started.
RemoveCntrStarting(t) ==
    /\ At(t, "removeCntr")
    /\ \/ todo[t] = {} /\ Goto(t, "rmRoot") /\ Fine /\ UNCHANGED <<cntr, rpc>>
       \/ \E c \in todo[t] :
            /\ Fine /\ todo' = [todo EXCEPT ![t] = @ \ {c}] /\ UNCHANGED <<pc, call, seen>>
            /\ cntr' = [cntr EXCEPT ![c] = IF @ \in {"checked", "tasked"} THEN @ ELSE "none"]
    /\ UNCHANGED <<up, hostNet, object, net, ctrd, disk, mons, chans, env, unclean>>

\* RemoveContainer on each; it stops a running container and refuses one that is starting.
RemoveCntr(t) ==
    /\ At(t, "removeCntr")
    /\ \/ todo[t] = {} /\ Goto(t, "rmRoot") /\ Fine /\ UNCHANGED <<cntr, rpc>>
       \/ \E c \in todo[t] :
            \/ /\ cntr[c] \notin {"checked", "tasked"} /\ Fine
               /\ cntr' = [cntr EXCEPT ![c] = "none"]
               /\ todo' = [todo EXCEPT ![t] = @ \ {c}] /\ UNCHANGED <<pc, call, seen>>
            \/ /\ Fault \/ (Fine /\ cntr[c] \in {"checked", "tasked"})
               /\ Return(t) /\ UNCHANGED cntr
    /\ UNCHANGED <<up, hostNet, object, net, ctrd, disk, mons, chans, env, unclean>>

\* ensureRemoveAll unmounts what is mounted underneath.
RemoveDirs(t) ==
    /\ up
    /\ \/ /\ pc[t] = "rmRoot" /\ UNCHANGED <<volatileDir, shm>>
          /\ \/ Fine /\ rootDir' = FALSE /\ Goto(t, "rmVolatile") /\ UNCHANGED rpc
             \/ Fault /\ UNCHANGED rootDir /\ Return(t)
       \/ /\ pc[t] = "rmVolatile" /\ UNCHANGED rootDir
          /\ \/ /\ Fine /\ volatileDir' = FALSE /\ shm' = FALSE
                /\ Goto(t, "deleteContainer") /\ UNCHANGED rpc
             \/ Fault /\ UNCHANGED <<volatileDir, shm>> /\ Return(t)
    /\ UNCHANGED <<up, hostNet, object, net, ctrd, mons, chans, cntr, env, unclean>>

\* container.Delete, as above; not found is tolerated.
RemoveContainerdContainer(t) ==
    /\ At(t, "deleteContainer")
    /\ \/ /\ Fault \/ ((task = "none" \/ ~cntrd) /\ Fine)
          /\ cntrd' = FALSE /\ Goto(t, "storeDelete") /\ UNCHANGED rpc
       \/ task # "none" /\ Fine /\ Return(t) /\ UNCHANGED cntrd
       \/ Fault /\ Return(t) /\ UNCHANGED cntrd
    /\ UNCHANGED <<up, hostNet, object, net, task, disk, mons, chans, cntr, env, unclean>>

\* sandboxStore.Delete, then sandboxNameIndex.ReleaseByKey.
RemoveRelease(t) ==
    /\ up
    /\ \/ pc[t] = "storeDelete" /\ inStore' = FALSE /\ Goto(t, "releaseName") /\ UNCHANGED <<reserved, rpc>>
       \/ pc[t] = "releaseName" /\ reserved' = FALSE /\ Return(t) /\ UNCHANGED inStore
    /\ UNCHANGED <<up, hostNet, state, stopCh, net, ctrd, disk, mons, chans, cntr, faults, env, unclean>>

-----------------------------------------------------------------------------
(* handleSandboxExit: run by the event loop, and by a stop of an UNKNOWN sandbox *)

\* The loop is done with one event; the rest of its batch is dropped when the sandbox is gone.
ExitHandled(p) ==
    IF p = Loop
      THEN /\ batch' = IF inStore THEN batch - 1 ELSE 0
           /\ Goto(Loop, IF inStore /\ batch > 1 THEN "exitTask" ELSE "idle") /\ UNCHANGED backOff
      ELSE Goto(p, AfterStop) /\ UNCHANGED <<batch, backOff>>

\* The loop puts the event and those behind it into back-off; a stop returns the error.
ExitFailed(p) ==
    IF p = Loop
      THEN Goto(Loop, "idle") /\ backOff' = batch /\ batch' = 0
      ELSE Goto(p, "stopFailed") /\ UNCHANGED <<batch, backOff>>

ExitLoadTask(p) ==
    /\ At(p, "exitTask")
    /\ \/ Fine /\ Goto(p, IF task = "none" THEN "exitUpdate" ELSE "exitDelete") /\ UNCHANGED <<batch, backOff>>
       \/ Fault /\ ExitFailed(p)
    /\ UNCHANGED <<up, hostNet, object, net, ctrd, disk, mons, exitCh, rpc, cntr, env, unclean>>

\* Mutant: an error of task.Delete is only logged.
ExitDeleteLogsError(p) ==
    /\ At(p, "exitDelete") /\ Goto(p, "exitUpdate")
    /\ (Fine /\ task' = "none") \/ TaskDeleteFails
    /\ UNCHANGED <<up, hostNet, object, net, cntrd, disk, mons, chans, rpc, cntr, env, unclean>>

\* task.Delete(WithProcessKill); not found is tolerated.
ExitDelete(p) ==
    /\ At(p, "exitDelete")
    /\ \/ Fine /\ task' = "none" /\ Goto(p, "exitUpdate") /\ UNCHANGED <<batch, backOff>>
       \/ TaskDeleteFails /\ ExitFailed(p)
    /\ UNCHANGED <<up, hostNet, object, net, cntrd, disk, mons, exitCh, rpc, cntr, env, unclean>>

ExitUpdate(p) ==
    /\ At(p, "exitUpdate") /\ state' = "NOTREADY" /\ Goto(p, "exitStop")
    /\ UNCHANGED <<up, hostNet, inStore, stopCh, reserved, net, ctrd, disk, mons, chans, rpc, cntr,
                   faults, env, unclean>>

\* Mutant: StopCh is not closed.
ExitStopForgotten(p) ==
    /\ At(p, "exitStop") /\ ExitHandled(p)
    /\ UNCHANGED <<up, hostNet, object, net, ctrd, disk, mons, exitCh, rpc, cntr, faults, env, unclean>>

\* sb.Stop() closes StopCh.
ExitStop(p) ==
    /\ At(p, "exitStop") /\ stopCh' = TRUE /\ ExitHandled(p)
    /\ UNCHANGED <<up, hostNet, inStore, state, reserved, net, ctrd, disk, mons, exitCh, rpc, cntr,
                   faults, env, unclean>>

-----------------------------------------------------------------------------
(* The exit monitors and the event loop *)

\* An exit monitor hears of the exit, or that waiting failed, and has an event to send.
MonitorFires(p) ==
    /\ monitor[p] = "waiting"
    /\ (task \in {"stopped", "none"} /\ Fine) \/ Fault \/ (p \in Threads \ waits /\ Fine)
    /\ monitor' = [monitor EXCEPT ![p] = "sending"]
    /\ UNCHANGED <<up, hostNet, object, net, ctrd, disk, waits, chans, pc, rpc, cntr, env, unclean>>

MonitorSends(p) ==
    /\ monitor[p] = "sending" /\ exitCh < ExitChannelSize
    /\ exitCh' = exitCh + 1 /\ monitor' = [monitor EXCEPT ![p] = "off"]
    /\ UNCHANGED <<up, hostNet, object, net, ctrd, disk, waits, backOff, batch, pc, rpc, cntr, faults,
                   env, unclean>>

\* handleEvent finds no sandbox and drops the event, or calls handleSandboxExit.
Handle(n) ==
    IF inStore THEN batch' = n /\ Goto(Loop, "exitTask") ELSE UNCHANGED <<batch, pc>>

LoopReceives ==
    /\ At(Loop, "idle") /\ exitCh > 0 /\ exitCh' = exitCh - 1
    /\ \/ backOff > 0 /\ backOff' = backOff + 1 /\ UNCHANGED <<batch, pc>>
       \/ backOff = 0 /\ Handle(1) /\ UNCHANGED backOff
    /\ UNCHANGED <<up, hostNet, object, net, ctrd, disk, mons, rpc, cntr, faults, env, unclean>>

\* The back-off of the sandbox has expired.
LoopRetries ==
    /\ At(Loop, "idle") /\ backOff > 0 /\ backOff' = 0 /\ Handle(backOff)
    /\ UNCHANGED <<up, hostNet, object, net, ctrd, disk, mons, exitCh, rpc, cntr, faults, env, unclean>>

\* The sandbox container ends, by itself or because it was killed.
TaskExits ==
    /\ task \in Alive /\ task' = "stopped"
    /\ UNCHANGED <<up, hostNet, object, net, cntrd, disk, mons, chans, pc, rpc, cntr, faults, env, unclean>>

-----------------------------------------------------------------------------
(* The containers of the pod *)

CntrStep(c, from, to) ==
    /\ cntr[c] = from /\ cntr' = [cntr EXCEPT ![c] = to]
    /\ UNCHANGED <<up, hostNet, object, net, ctrd, disk, mons, chans, pc, rpc, faults, env, unclean>>

\* CreateContainer finds the sandbox and its task, and later adds the container to the store.
CreateContainer(c) ==
    \/ up /\ inStore /\ task # "none" /\ CntrStep(c, "none", "creating")
    \/ up /\ CntrStep(c, "creating", "created")

\* StartContainer tests the state of the sandbox, then creates the task, then starts it.
\* The task joins namespaces of the sandbox container, so it cannot be created without it.
StartContainer(c) ==
    \/ up /\ inStore /\ state = "READY" /\ CntrStep(c, "created", "checked")
    \/ up /\ ~(inStore /\ state = "READY") /\ CntrStep(c, "created", "exited")
    \/ up /\ task \in Alive /\ CntrStep(c, "checked", "tasked")
    \/ up /\ task \notin Alive /\ CntrStep(c, "checked", "exited")
    \/ up /\ CntrStep(c, "tasked", "running")

CntrExits(c) == CntrStep(c, "running", "exited")

-----------------------------------------------------------------------------
(* Crash of the plugin and recovery *)

\* What a call in progress was doing to a container shows after recovery.
CrashedCntr(k) ==
    CASE k = "creating" -> {"none", "created"}
      [] k = "checked" -> {"created"}
      [] k = "tasked" -> {"created", "exited"}
      [] OTHER -> {k}

Crash ==
    /\ crashes < MaxCrashes /\ crashes' = crashes + 1
    /\ up' = FALSE /\ inStore' = FALSE /\ state' = "UNKNOWN" /\ stopCh' = FALSE /\ reserved' = FALSE
    /\ monitor' = [p \in Procs |-> "off"] /\ waits' = {}
    /\ exitCh' = 0 /\ backOff' = 0 /\ batch' = 0
    /\ pc' = [p \in Procs |-> IF p = Loop THEN "load" ELSE "idle"]
    /\ call' = [t \in Threads |-> "none"] /\ seen' = [t \in Threads |-> "none"]
    /\ todo' = [t \in Threads |-> {}]
    /\ cntr' \in {f \in [Containers -> CntrStates] : \A c \in Containers : f[c] \in CrashedCntr(cntr[c])}
    /\ unclean' = (unclean \/ (~cntrd /\ (netns # "none" \/ network)))
    /\ UNCHANGED <<hostNet, net, ctrd, disk, faults, timeouts>>

\* While the plugin is down or recovering, tasks and containers may be deleted by others.
OutsideDeletes ==
    /\ ~up
    /\ \/ task = "stopped" /\ task' = "none" /\ UNCHANGED <<cntrd, unclean>>
       \/ /\ pc[Loop] = "load" /\ task = "none" /\ cntrd /\ cntrd' = FALSE
          /\ unclean' = TRUE /\ UNCHANGED task
    /\ UNCHANGED <<up, hostNet, object, net, disk, mons, chans, pc, rpc, cntr, faults, env>>

Loading(step) == ~up /\ pc[Loop] = step

\* recover lists the containers of containerd; a sandbox without readable metadata is skipped.
LoadMetadata ==
    /\ Loading("load")
    /\ \/ Clean /\ Goto(Loop, IF cntrd THEN "loadTask" ELSE "cleanupOrphans")
       \/ cntrd /\ Logged /\ Goto(Loop, "cleanupOrphans")
    /\ UNCHANGED <<up, hostNet, object, net, ctrd, disk, mons, chans, rpc, cntr, env>>

\* container.Info, Task and task.Status; on an error the state stays UNKNOWN.
LoadTask ==
    /\ Loading("loadTask")
    /\ \/ task = "none" /\ Fine /\ state' = "NOTREADY" /\ Goto(Loop, "loadAdd")
       \/ task \in Alive /\ Fine /\ UNCHANGED state /\ Goto(Loop, "loadWait")
       \/ task \in {"created", "stopped"} /\ Fine /\ UNCHANGED state /\ Goto(Loop, "loadDelete")
       \/ Fault /\ UNCHANGED state /\ Goto(Loop, "loadAdd")
    /\ UNCHANGED <<up, hostNet, inStore, stopCh, reserved, net, ctrd, disk, mons, chans, rpc, cntr,
                   env, unclean>>

\* A task found running is waited for and gets an exit monitor.
LoadWait ==
    /\ Loading("loadWait") /\ Goto(Loop, "loadAdd")
    /\ \/ task # "none" /\ Fine /\ state' = "READY" /\ monitor' = [monitor EXCEPT ![Loop] = "waiting"]
       \/ task = "none" /\ Fine /\ state' = "NOTREADY" /\ UNCHANGED monitor
       \/ Fault /\ UNCHANGED <<state, monitor>>
    /\ UNCHANGED <<up, hostNet, inStore, stopCh, reserved, net, ctrd, disk, waits, chans, rpc, cntr,
                   env, unclean>>

\* A task that is not running is deleted.
LoadDelete ==
    /\ Loading("loadDelete") /\ Goto(Loop, "loadAdd")
    /\ \/ Fine /\ task' = "none" /\ state' = "NOTREADY"
       \/ TaskDeleteFails /\ UNCHANGED state
    /\ UNCHANGED <<up, hostNet, inStore, stopCh, reserved, net, cntrd, disk, mons, chans, rpc, cntr,
                   env, unclean>>

\* NewSandbox closes StopCh for NOTREADY; store Add and name Reserve.
LoadAdd ==
    /\ Loading("loadAdd") /\ Goto(Loop, "cleanupOrphans")
    /\ inStore' = TRUE /\ reserved' = TRUE /\ stopCh' = (state = "NOTREADY")
    /\ UNCHANGED <<up, hostNet, state, net, ctrd, disk, mons, chans, rpc, cntr, faults, env, unclean>>

\* Directories without a containerd container are removed; an error is logged.  Then the
\* event monitor starts and calls are served.
cleanupOrphanedIDDirs ==
    /\ Loading("cleanupOrphans") /\ Goto(Loop, "idle") /\ up' = TRUE
    /\ \/ cntrd /\ Clean /\ UNCHANGED disk
       \/ ~cntrd /\ Clean /\ rootDir' = FALSE /\ volatileDir' = FALSE /\ shm' = FALSE
       \/ ~cntrd /\ Logged /\ UNCHANGED disk
    /\ UNCHANGED <<hostNet, object, net, ctrd, mons, chans, rpc, cntr, env>>

-----------------------------------------------------------------------------
Run(t) ==
    \/ RunImage(t) \/ NewNetNS(t) \/ setupPodNetwork(t) \/ RunNewContainer(t) \/ RunMkdirs(t)
    \/ setupSandboxFiles(t) \/ RunTask(t) \/ RunSetReady(t) \/ RunStoreAdd(t) \/ RunStartMonitor(t)
    \/ RunUndoFiles(t) \/ RunUndoContainerd(t) \/ RunUndoNetwork(t) \/ RunUndoName(t)
Stop(t) ==
    \/ StopReturns(t) \/ StopFails(t) \/ StopList(t) \/ StopCntr(t) \/ cleanupSandboxFiles(t)
    \/ StopReadState(t) \/ StopLoadTask(t) \/ StopWaitTask(t) \/ StopKill(t) \/ waitSandboxStop(t)
    \/ StopCancel(t) \/ StopNetNSClosed(t) \/ teardownPodNetwork(t) \/ StopRemoveNetNS(t)
Remove(t) ==
    \/ RemoveReadState(t) \/ RemoveCheckNetNS(t) \/ RemoveList(t) \/ RemoveCntr(t) \/ RemoveDirs(t)
    \/ RemoveContainerdContainer(t) \/ RemoveRelease(t)
handleSandboxExit(p) == ExitLoadTask(p) \/ ExitDelete(p) \/ ExitUpdate(p) \/ ExitStop(p)
Monitor(p) == MonitorFires(p) \/ MonitorSends(p)
EventLoop == LoopReceives \/ LoopRetries
Recover ==
    LoadMetadata \/ LoadTask \/ LoadWait \/ LoadDelete \/ LoadAdd \/ cleanupOrphanedIDDirs
Cntr(c) == CreateContainer(c) \/ StartContainer(c) \/ CntrExits(c)

\* Nothing is going on; the kubelet may leave it so.
Quiet == up /\ (\A p \in Procs : pc[p] = "idle") /\ UNCHANGED vars

Next ==
    \/ \E t \in Threads : StopPodSandbox(t) \/ RemovePodSandbox(t) \/ Run(t) \/ Stop(t) \/ Remove(t)
    \/ \E p \in Procs : handleSandboxExit(p) \/ Monitor(p)
    \/ EventLoop \/ TaskExits \/ Crash \/ OutsideDeletes \/ Recover \/ Quiet
    \/ \E c \in Containers : Cntr(c)

Spec == Init /\ [][Next]_vars

\* Every goroutine runs; processes end when killed; the kubelet keeps stopping and removing
\* (its garbage collection retries both); calls it makes on containers are not assumed.
Fairness ==
    /\ \A t \in Threads : /\ WF_vars(Run(t)) /\ WF_vars(Stop(t)) /\ WF_vars(Remove(t))
                          /\ SF_vars(StopPodSandbox(t)) /\ SF_vars(RemovePodSandbox(t))
    /\ \A p \in Procs : WF_vars(handleSandboxExit(p)) /\ WF_vars(Monitor(p))
    /\ WF_vars(EventLoop) /\ WF_vars(Recover) /\ WF_vars(task = "dying" /\ TaskExits)
    /\ \A c \in Containers : WF_vars(up /\ cntr[c] \in {"creating", "checked", "tasked"} /\ Cntr(c))

-----------------------------------------------------------------------------
(* Properties *)

FlagType ==
    /\ up \in BOOLEAN /\ hostNet \in BOOLEAN /\ inStore \in BOOLEAN /\ stopCh \in BOOLEAN
    /\ reserved \in BOOLEAN /\ network \in BOOLEAN /\ cntrd \in BOOLEAN /\ rootDir \in BOOLEAN
    /\ volatileDir \in BOOLEAN /\ shm \in BOOLEAN /\ unclean \in BOOLEAN
ValueType ==
    /\ state \in States /\ netns \in {"none", "file", "mounted"}
    /\ task \in {"none", "created", "stopped"} \cup Alive
    /\ monitor \in [Procs -> {"off", "waiting", "sending"}] /\ waits \subseteq Threads
    /\ exitCh \in 0..ExitChannelSize /\ backOff \in Nat /\ batch \in Nat
    /\ pc \in [Procs -> Steps] /\ call \in [Threads -> {"none", "run", "stop", "remove"}]
    /\ seen \in [Threads -> States \cup {"none", "ok", "failed"}]
    /\ todo \in [Threads -> SUBSET Containers]
    /\ cntr \in [Containers -> CntrStates]
    /\ faults \in 0..MaxFaults /\ timeouts \in 0..MaxTimeouts /\ crashes \in 0..MaxCrashes

\* Every variable keeps its type; in particular the exit channel holds no more than fits into it.
TypeOK == FlagType /\ ValueType

\* NOTREADY "ONLY means sandbox container is not running" (store/sandbox/status.go): when the
\* store shows it, the task is gone, whichever of the event loop, a stop of an UNKNOWN sandbox
\* and recovery recorded it, and whatever failed on the way.
NotReadyMeansDead == inStore /\ state = "NOTREADY" => task = "none"

\* The end of the sandbox container is never lost: while a READY sandbox has no live process
\* somebody is still going to report it - RunPodSandbox about to start the exit monitor, the
\* monitor, the channel, the back-off queue or the handler (startExitMonitor after Store.Add).
ExitNeverLost ==
    up /\ inStore /\ state = "READY" /\ task \notin Alive =>
       \/ monitor[Loop] # "off" \/ exitCh + backOff + batch > 0
       \/ \E t \in Threads : pc[t] = "startMonitor"

\* What a successful StopPodSandbox promises: the sandbox container is dead and its network,
\* network namespace and /dev/shm are gone, even when calls overlap and an earlier one failed.
StopMeansStopped ==
    \A t \in Threads : At(t, "stopped") =>
        task = "none" /\ netns = "none" /\ ~network /\ ~shm

\* No container runs, or is being started, in a sandbox that RemovePodSandbox has removed,
\* although creations and starts race with the removal and nothing marks the sandbox as going.
RemovedSandboxRunsNothing ==
    up /\ ~inStore /\ ~cntrd /\ ~unclean => \A c \in Containers : cntr[c] \notin {"tasked", "running"}

\* Once nothing is in progress, a sandbox that is not in the store has left nothing behind -
\* name, namespace, network, container, task, directories, mount - unless a deferred cleanup
\* failed or could not look the task up, a crash hit while containerd did not have the container
\* yet, or others deleted it.
NothingLeaks ==
    up /\ ~inStore /\ ~unclean /\ (\A p \in Procs : pc[p] = "idle") =>
       /\ ~reserved /\ netns = "none" /\ ~network /\ ~cntrd /\ task = "none"
       /\ ~rootDir /\ ~volatileDir /\ ~shm

\* A kubelet that keeps calling StopPodSandbox and RemovePodSandbox gets rid of the sandbox:
\* no failed call, timeout or restart leaves a state in which they can no longer succeed.
RemovalSucceeds == inStore ~> ~inStore
=============================================================================
