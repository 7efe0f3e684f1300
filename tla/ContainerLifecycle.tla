------------------------- MODULE ContainerLifecycle -------------------------
(***************************************************************************)
(* The life of one container in the CRI plugin: CreateContainer,           *)
(* StartContainer, StopContainer and RemoveContainer served by concurrent  *)
(* gRPC goroutines, the exit monitors and the event loop that observe the  *)
(* end of its task, and the recovery of its state after a restart.         *)
(*                                                                         *)
(* Containers share no state with one another except the index of names    *)
(* (registrar.go), so one container is modelled.  A step is what the code  *)
(* does between two points where another goroutine can be observed: a call *)
(* to containerd, a critical section of the status lock, a file operation. *)
(***************************************************************************)
EXTENDS ContainerStatus, Naturals, Sequences

CONSTANTS Threads,          \* goroutines serving gRPC calls
          Loop,             \* the goroutine of eventMonitor.start
          ExitChannelSize,  \* capacity of eventMonitor.exitCh (1024 in the code)
          MaxFaults,        \* bound: failing calls to containerd or the disk
          MaxCrashes,       \* bound: restarts of the plugin
          MaxOOMs           \* bound: OOM notifications of the kernel

ASSUME LifecycleAssumption ==
    /\ Loop \notin Threads
    /\ ExitChannelSize \in Nat \ {0}
    /\ MaxFaults \in Nat /\ MaxCrashes \in Nat /\ MaxOOMs \in Nat

Procs == Threads \cup {Loop}

VARIABLES
    up,           \* the plugin runs and is initialized
    \* the container object in memory
    inStore,      \* it is in containerStore
    status,       \* Container.Status
    stopCh,       \* Container.StopCh is closed
    io,           \* Container.IO: "open" or "closed", or nil: "unattached" when the state of
                  \* the task could not be read while it was loaded, "nil" otherwise
    \* what survives a restart of the plugin
    ckpt,         \* the status file: the set of its contents, at most one
    rootDir,      \* the container's root directory exists
    stateDir,     \* the container's volatile root directory exists
    cntrd,        \* containerd has the container
    task,         \* the containerd task; "dying" has been sent SIGKILL
    \* event monitor
    monitor,      \* exit monitors: monitor[Loop] has context.Background, monitor[t] is
                  \* the one of a stopContainer; a value of Exits is waiting to be sent
    waits,        \* threads whose task.Wait context is not cancelled
    exitCh,       \* eventMonitor.exitCh
    ch,           \* eventMonitor.ch, only TaskOOM
    backOff,      \* backOff.queuePool[id], empty when the id is not in back-off
    batch,        \* the events the loop has taken out and is handling
    \* gRPC calls
    pc, call, seen, ok,
    \* environment
    sandboxReady, faults, crashes, ooms

object == <<inStore, status, stopCh, io>>
disk   == <<ckpt, rootDir, stateDir>>
ctrd   == <<cntrd, task>>
chans  == <<exitCh, ch, backOff, batch>>
mons   == <<monitor, waits>>
rpc    == <<call, seen, ok>>
bounds == <<crashes, ooms>>
vars   == <<up, object, disk, ctrd, mons, chans, pc, rpc, sandboxReady, faults, bounds>>

Tasks == {"none", "created", "running", "dying", "stopped"}
Alive == {"running", "dying"}
Events == {"task", "unknown", "oom"}
Calls == {"CreateContainer", "StartContainer", "StopContainer", "StopContainerNow",
          "RemoveContainer", "none"}

CreateSteps == {"mkRoot", "mkState", "newContainer", "storeStatus", "storeAdd",
                "undoStatus", "undoContainer", "undoState", "undoRoot"}
StartSteps == {"getSandbox", "newTask", "startTask", "recordStart", "startMonitor",
               "undoTask", "undoStart", "resetStarting"}
StopSteps == {"stopState", "stopTask", "stopWait", "stopTerm", "waitTerm", "stopKill", "waitKill",
              "exitCancel", "waitCancel", "stopped"}
RemoveSteps == {"deleteContainer", "deleteStatus", "rmRoot", "rmState", "storeDelete",
                "resetRemoving"}
ExitSteps == {"exitTask", "exitDelete", "exitUpdate", "exitStop"}
RecoverSteps == {"load", "loadTask", "storeLoaded"}
Steps == CreateSteps \cup StartSteps \cup StopSteps \cup RemoveSteps \cup ExitSteps
         \cup RecoverSteps \cup {"idle", "setStarting", "removeState", "setRemoving"}

Init ==
    /\ up = TRUE /\ inStore = FALSE /\ status = ZeroStatus /\ stopCh = FALSE /\ io = "nil"
    /\ ckpt = {} /\ rootDir = FALSE /\ stateDir = FALSE
    /\ cntrd = FALSE /\ task = "none"
    /\ monitor = [p \in Procs |-> "off"] /\ waits = {}
    /\ exitCh = <<>> /\ ch = <<>> /\ backOff = <<>> /\ batch = <<>>
    /\ \E t \in Threads :
          /\ pc = [p \in Procs |-> IF p = t THEN "mkRoot" ELSE "idle"]
          /\ call = [p \in Threads |-> IF p = t THEN "CreateContainer" ELSE "none"]
    /\ seen = [t \in Threads |-> "none"] /\ ok = [t \in Threads |-> FALSE]
    /\ sandboxReady = TRUE /\ faults = 0 /\ crashes = 0 /\ ooms = 0

-----------------------------------------------------------------------------
(* Building blocks *)

At(p, step) == up /\ pc[p] = step
Goto(p, step) == pc' = [pc EXCEPT ![p] = step]

\* A call to containerd or to the file system returns an unexpected error.
Fault == faults < MaxFaults /\ faults' = faults + 1
Fine == UNCHANGED faults

\* Container.IO points to an object.
HasIO == io \in {"open", "closed"}

\* A gRPC handler returns.
Return(t) ==
    /\ Goto(t, "idle")
    /\ call' = [call EXCEPT ![t] = "none"]
    /\ seen' = [seen EXCEPT ![t] = "none"]
    /\ ok' = [ok EXCEPT ![t] = FALSE]

\* Mutant: the file is written without the atomic rename.
UpdateSyncNotAtomic(s) == rootDir /\ Fine /\ ckpt' = ckpt \cup {encode(s)} /\ status' = s

\* StatusStorage.UpdateSync: file first, then memory; a failed write changes nothing.
UpdateSync(s) == rootDir /\ Fine /\ ckpt' = {encode(s)} /\ status' = s
UpdateSyncFails == (Fault \/ (~rootDir /\ Fine)) /\ UNCHANGED <<ckpt, status>>

\* StatusStorage.Update: memory only.
Update(s) == status' = s

\* task.Delete(WithProcessKill): the process is killed and waited for, then the task is
\* deleted and its IO closed.  When it fails the process may have been killed already, or the
\* task deleted.
TaskDelete ==
    /\ task' = "none"
    /\ io' = IF task # "none" /\ io = "open" THEN "closed" ELSE io
TaskDeleteFails ==
    Fault /\ task' \in {task} \cup (IF task = "none" THEN {} ELSE {"stopped", "none"}) /\ io' = io

\* StatusStorage.Delete: the file is renamed, then deleted.  The renamed file is not modelled.
DeleteStatus == Fine /\ ckpt' = {}
DeleteStatusFails == Fault /\ ckpt' \in {ckpt, {}}

\* RemoveAll of the root directory, which may fail with some of its files deleted.
RemoveRoot == Fine /\ rootDir' = FALSE /\ ckpt' = {}
RemoveRootFails == Fault /\ rootDir' = rootDir /\ ckpt' \in {ckpt, {}}

\* The process of the plugin ends, and with it everything in memory.
Down ==
    /\ up' = FALSE /\ inStore' = FALSE /\ status' = ZeroStatus /\ stopCh' = FALSE /\ io' = "nil"
    /\ monitor' = [p \in Procs |-> "off"] /\ waits' = {}
    /\ exitCh' = <<>> /\ ch' = <<>> /\ backOff' = <<>> /\ batch' = <<>>
    /\ pc' = [p \in Procs |-> IF p = Loop THEN "load" ELSE "idle"]
    /\ call' = [t \in Threads |-> "none"] /\ seen' = [t \in Threads |-> "none"]
    /\ ok' = [t \in Threads |-> FALSE]
    /\ UNCHANGED <<disk, ctrd, sandboxReady, faults, ooms>>

-----------------------------------------------------------------------------
(* CreateContainer: each step registers a defer that undoes it on error *)

MkdirRoot(t) ==
    /\ At(t, "mkRoot")
    /\ \/ Fine /\ rootDir' = TRUE /\ Goto(t, "mkState") /\ UNCHANGED rpc
       \/ Fault /\ Return(t) /\ UNCHANGED rootDir
    /\ UNCHANGED <<up, object, ckpt, stateDir, ctrd, mons, chans, sandboxReady, bounds>>

MkdirVolatile(t) ==
    /\ At(t, "mkState")
    /\ \/ Fine /\ stateDir' = TRUE /\ Goto(t, "newContainer")
       \/ Fault /\ Goto(t, "undoRoot") /\ UNCHANGED stateDir
    /\ UNCHANGED <<up, object, ckpt, rootDir, ctrd, mons, chans, rpc, sandboxReady, bounds>>

\* Spec generation, NewContainerIO and client.NewContainer.
NewContainerdContainer(t) ==
    /\ At(t, "newContainer")
    /\ \/ Fine /\ cntrd' = TRUE /\ io' = "open" /\ Goto(t, "storeStatus")
       \/ Fault /\ Goto(t, "undoState") /\ UNCHANGED <<cntrd, io>>
    /\ UNCHANGED <<up, inStore, status, stopCh, disk, task, mons, chans, rpc, sandboxReady, bounds>>

\* containerstore.NewContainer(WithStatus): StoreStatus writes the checkpoint.
NewContainer(t) ==
    /\ At(t, "storeStatus")
    /\ LET s == [ZeroStatus EXCEPT !.created = TRUE] IN
       \/ UpdateSync(s) /\ Goto(t, "storeAdd")
       \/ UpdateSyncFails /\ Goto(t, "undoContainer")
    /\ UNCHANGED <<up, inStore, stopCh, io, rootDir, stateDir, ctrd, mons, chans, rpc,
                   sandboxReady, bounds>>

StoreAdd(t) ==
    /\ At(t, "storeAdd")
    /\ \/ Fine /\ inStore' = TRUE /\ Return(t)
       \/ Fault /\ Goto(t, "undoStatus") /\ UNCHANGED <<inStore, rpc>>
    /\ UNCHANGED <<up, status, stopCh, io, disk, ctrd, mons, chans, sandboxReady, bounds>>

\* The defers, in the order they run; an error of one is only logged.
UndoCreate(t) ==
    /\ up
    /\ \/ /\ pc[t] = "undoStatus" /\ Goto(t, "undoContainer")
          /\ DeleteStatus \/ DeleteStatusFails
          /\ UNCHANGED <<cntrd, io, rootDir, stateDir, rpc>>
       \/ /\ pc[t] = "undoContainer" /\ Goto(t, "undoState")
          /\ (Fine /\ cntrd' = FALSE) \/ (Fault /\ UNCHANGED cntrd)
          /\ io' = "closed"
          /\ UNCHANGED <<ckpt, rootDir, stateDir, rpc>>
       \/ /\ pc[t] = "undoState" /\ Goto(t, "undoRoot")
          /\ (Fine /\ stateDir' = FALSE) \/ (Fault /\ UNCHANGED stateDir)
          /\ UNCHANGED <<ckpt, cntrd, io, rootDir, rpc>>
       \/ /\ pc[t] = "undoRoot" /\ Return(t)
          /\ RemoveRoot \/ RemoveRootFails
          /\ UNCHANGED <<cntrd, io, stateDir>>
    /\ UNCHANGED <<up, inStore, status, stopCh, task, mons, chans, sandboxReady, bounds>>

-----------------------------------------------------------------------------
(* StartContainer *)

StartContainer(t) ==
    /\ At(t, "idle") /\ inStore
    /\ Goto(t, "setStarting") /\ call' = [call EXCEPT ![t] = "StartContainer"]
    /\ UNCHANGED <<up, object, disk, ctrd, mons, chans, seen, ok, sandboxReady, faults, bounds>>

CanStart(s) == State(s) = "CREATED" /\ ~s.removing /\ ~s.starting

setContainerStarting(t) ==
    /\ At(t, "setStarting")
    /\ \/ /\ CanStart(status) /\ Goto(t, "getSandbox")
          /\ Update([status EXCEPT !.starting = TRUE]) /\ UNCHANGED rpc
       \/ ~CanStart(status) /\ Return(t) /\ UNCHANGED status
    /\ UNCHANGED <<up, inStore, stopCh, io, disk, ctrd, mons, chans, sandboxReady, faults, bounds>>

\* The sandbox must be in the store and READY.
StartSandboxCheck(t) ==
    /\ At(t, "getSandbox")
    /\ Goto(t, IF sandboxReady THEN "newTask" ELSE "undoStart")
    /\ UNCHANGED <<up, object, disk, ctrd, mons, chans, rpc, sandboxReady, faults, bounds>>

\* container.Info and container.NewTask; on error NewTask closes the IO it created, and where
\* the error comes after the creation of the task nobody deletes the task.
StartNewTask(t) ==
    /\ At(t, "newTask")
    /\ \/ /\ HasIO /\ cntrd /\ task = "none" /\ Fine
          /\ task' = "created" /\ Goto(t, "startTask") /\ UNCHANGED io
       \/ /\ HasIO /\ cntrd /\ task = "none" /\ Fault
          /\ task' = "created" /\ io' = "closed" /\ Goto(t, "undoStart")
       \/ /\ Fault \/ ((~cntrd \/ (HasIO /\ (task # "none" \/ io = "closed"))) /\ Fine)
          /\ io' \in {io} \cup (IF HasIO THEN {"closed"} ELSE {})
          /\ Goto(t, "undoStart") /\ UNCHANGED task
    /\ UNCHANGED <<up, inStore, status, stopCh, disk, cntrd, mons, chans, rpc, sandboxReady, bounds>>

\* ioCreation calls methods of Container.IO; where it is nil they panic, which ends the process.
StartPanics(t) ==
    At(t, "newTask") /\ ~HasIO /\ cntrd /\ Down /\ UNCHANGED crashes

\* task.Wait and task.Start; on error Start closes the IO, and the process may have started.
StartTask(t) ==
    /\ At(t, "startTask")
    /\ \/ /\ Fine /\ task = "created" /\ task' = "running" /\ Goto(t, "recordStart")
          /\ UNCHANGED io
       \/ Fault /\ task' \in {task, "running"} /\ io' = "closed" /\ Goto(t, "undoTask")
    /\ UNCHANGED <<up, inStore, status, stopCh, disk, cntrd, mons, chans, rpc, sandboxReady, bounds>>

StartRecord(t) ==
    /\ At(t, "recordStart")
    /\ \/ UpdateSync([status EXCEPT !.started = TRUE]) /\ Goto(t, "startMonitor")
       \/ UpdateSyncFails /\ Goto(t, "undoTask")
    /\ UNCHANGED <<up, inStore, stopCh, io, rootDir, stateDir, ctrd, mons, chans, rpc,
                   sandboxReady, bounds>>

\* Mutant: no exit monitor is started.
StartMonitorForgotten(t) ==
    /\ At(t, "startMonitor") /\ Goto(t, "resetStarting")
    /\ UNCHANGED <<up, object, disk, ctrd, mons, chans, rpc, sandboxReady, faults, bounds>>

\* startExitMonitor(context.Background(), ...), after the state is recorded.
StartMonitor(t) ==
    /\ At(t, "startMonitor")
    /\ monitor' = [monitor EXCEPT ![Loop] = "waiting"] /\ Goto(t, "resetStarting")
    /\ UNCHANGED <<up, object, disk, ctrd, waits, chans, rpc, sandboxReady, faults, bounds>>

\* The deferred task.Delete of a failed start; its error is only logged.
StartUndoTask(t) ==
    /\ At(t, "undoTask") /\ Goto(t, "undoStart")
    /\ (Fine /\ TaskDelete) \/ TaskDeleteFails
    /\ UNCHANGED <<up, inStore, status, stopCh, disk, cntrd, mons, chans, rpc, sandboxReady, bounds>>

\* The deferred UpdateSync of a failed start; its error is only logged.
StartUndoStatus(t) ==
    /\ At(t, "undoStart") /\ Goto(t, "resetStarting")
    /\ UpdateSync([status EXCEPT !.exit = "error", !.oom = FALSE]) \/ UpdateSyncFails
    /\ UNCHANGED <<up, inStore, stopCh, io, rootDir, stateDir, ctrd, mons, chans, rpc,
                   sandboxReady, bounds>>

resetContainerStarting(t) ==
    /\ At(t, "resetStarting") /\ Return(t)
    /\ Update([status EXCEPT !.starting = FALSE])
    /\ UNCHANGED <<up, inStore, stopCh, io, disk, ctrd, mons, chans, sandboxReady, faults, bounds>>

-----------------------------------------------------------------------------
(* StopContainer and stopContainer *)

\* "StopContainerNow" has timeout 0, as has the stop RemoveContainer does.
StopContainer(t) ==
    /\ At(t, "idle") /\ inStore /\ Goto(t, "stopState")
    /\ \E c \in {"StopContainer", "StopContainerNow"} : call' = [call EXCEPT ![t] = c]
    /\ UNCHANGED <<up, object, disk, ctrd, mons, chans, seen, ok, sandboxReady, faults, bounds>>

\* Mutant: the wait is cancelled while its exit monitor still listens.
StopReturnsNoExitCancel(t, result) ==
    /\ ok' = [ok EXCEPT ![t] = result]
    /\ Goto(t, IF t \in waits THEN "waitCancel" ELSE "stopped")

\* stopContainer returns: the deferred exitCancel and waitCancel run first.
StopReturns(t, result) ==
    /\ ok' = [ok EXCEPT ![t] = result]
    /\ Goto(t, IF t \in waits THEN "exitCancel" ELSE "stopped")

\* The state is read once; everything below acts on this value.
StopReadState(t) ==
    /\ At(t, "stopState")
    /\ \/ /\ State(status) \in {"RUNNING", "UNKNOWN"} /\ Goto(t, "stopTask")
          /\ UNCHANGED ok
       \/ State(status) \notin {"RUNNING", "UNKNOWN"} /\ StopReturns(t, TRUE)
    /\ seen' = [seen EXCEPT ![t] = State(status)]
    /\ UNCHANGED <<up, object, disk, ctrd, mons, chans, call, sandboxReady, faults, bounds>>

\* The first signal: the stop signal when there is a timeout, else SIGKILL.
FirstSignal(t) == IF call[t] = "StopContainer" THEN "stopTerm" ELSE "stopKill"

\* container.Task; not found is success for RUNNING and cleanupUnknownContainer for UNKNOWN.
StopLoadTask(t) ==
    /\ At(t, "stopTask")
    /\ \/ /\ task # "none" /\ Fine /\ UNCHANGED ok
          /\ Goto(t, IF seen[t] = "UNKNOWN" THEN "stopWait" ELSE FirstSignal(t))
       \/ task = "none" /\ seen[t] = "UNKNOWN" /\ Fine /\ Goto(t, "exitTask") /\ UNCHANGED ok
       \/ task = "none" /\ seen[t] = "RUNNING" /\ Fine /\ StopReturns(t, TRUE)
       \/ Fault /\ StopReturns(t, FALSE)
    /\ UNCHANGED <<up, object, disk, ctrd, mons, chans, call, seen, sandboxReady, bounds>>

\* For a container in UNKNOWN state: task.Wait and an exit monitor of this call.
StopWaitTask(t) ==
    /\ At(t, "stopWait")
    /\ \/ /\ Fine /\ waits' = waits \cup {t} /\ monitor' = [monitor EXCEPT ![t] = "waiting"]
          /\ Goto(t, FirstSignal(t)) /\ UNCHANGED ok
       \/ task = "none" /\ Fine /\ Goto(t, "exitTask") /\ UNCHANGED <<mons, ok>>
       \/ Fault /\ StopReturns(t, FALSE) /\ UNCHANGED mons
    /\ UNCHANGED <<up, object, disk, ctrd, chans, call, seen, sandboxReady, bounds>>

\* task.Kill with the stop signal, which the process may ignore; not found is tolerated.
StopTerm(t) ==
    /\ At(t, "stopTerm")
    /\ (Fine /\ Goto(t, "waitTerm") /\ UNCHANGED ok) \/ (Fault /\ StopReturns(t, FALSE))
    /\ UNCHANGED <<up, object, disk, ctrd, mons, chans, call, seen, sandboxReady, bounds>>

\* waitContainerStop until stopCh is closed or the timeout of the call expires.
StopWaitTerm(t) ==
    /\ At(t, "waitTerm")
    /\ (stopCh /\ StopReturns(t, TRUE)) \/ (Goto(t, "stopKill") /\ UNCHANGED ok)
    /\ UNCHANGED <<up, object, disk, ctrd, mons, chans, call, seen, sandboxReady, faults, bounds>>

Killed(k) == IF k \in {"created", "running"} THEN "dying" ELSE k

\* Mutant: an error of the kill is only logged.
StopKillLogsError(t) ==
    /\ At(t, "stopKill")
    /\ \/ Fine /\ task' = Killed(task) /\ Goto(t, "waitKill") /\ UNCHANGED ok
       \/ Fault /\ task' \in {task, Killed(task)} /\ StopReturns(t, TRUE)
    /\ UNCHANGED <<up, object, disk, cntrd, mons, chans, call, seen, sandboxReady, bounds>>

\* task.Kill(SIGKILL); not found is tolerated, and a call that fails may have killed.
StopKill(t) ==
    /\ At(t, "stopKill")
    /\ \/ Fine /\ task' = Killed(task) /\ Goto(t, "waitKill") /\ UNCHANGED ok
       \/ Fault /\ task' \in {task, Killed(task)} /\ StopReturns(t, FALSE)
    /\ UNCHANGED <<up, object, disk, cntrd, mons, chans, call, seen, sandboxReady, bounds>>

StopWaitKill(t) ==
    /\ At(t, "waitKill") /\ stopCh /\ StopReturns(t, TRUE)
    /\ UNCHANGED <<up, object, disk, ctrd, mons, chans, call, seen, sandboxReady, faults, bounds>>

\* The context of the call is cancelled or its deadline exceeded while it waits.
StopCtxDone(t) ==
    /\ up /\ pc[t] \in {"waitTerm", "waitKill"} /\ Fault /\ StopReturns(t, FALSE)
    /\ UNCHANGED <<up, object, disk, ctrd, mons, chans, call, seen, sandboxReady, bounds>>

\* Deferred: exitCancel, and wait until the exit monitor has ended.
StopExitCancel(t) ==
    /\ At(t, "exitCancel") /\ monitor[t] \notin Exits
    /\ monitor' = [monitor EXCEPT ![t] = "off"] /\ Goto(t, "waitCancel")
    /\ UNCHANGED <<up, object, disk, ctrd, waits, chans, rpc, sandboxReady, faults, bounds>>

\* Deferred: waitCancel.
StopWaitCancel(t) ==
    /\ At(t, "waitCancel") /\ waits' = waits \ {t} /\ Goto(t, "stopped")
    /\ UNCHANGED <<up, object, disk, ctrd, monitor, chans, rpc, sandboxReady, faults, bounds>>

\* Back in StopContainer, or in RemoveContainer, which goes on after a successful stop.
StopDone(t) ==
    /\ At(t, "stopped")
    /\ \/ call[t] = "RemoveContainer" /\ ok[t] /\ Goto(t, "setRemoving") /\ UNCHANGED rpc
       \/ ~(call[t] = "RemoveContainer" /\ ok[t]) /\ Return(t)
    /\ UNCHANGED <<up, object, disk, ctrd, mons, chans, sandboxReady, faults, bounds>>

-----------------------------------------------------------------------------
(* RemoveContainer *)

RemoveContainer(t) ==
    /\ At(t, "idle") /\ inStore /\ Goto(t, "removeState")
    /\ call' = [call EXCEPT ![t] = "RemoveContainer"]
    /\ UNCHANGED <<up, object, disk, ctrd, mons, chans, seen, ok, sandboxReady, faults, bounds>>

RemoveReadState(t) ==
    /\ At(t, "removeState")
    /\ Goto(t, IF State(status) \in {"RUNNING", "UNKNOWN"} THEN "stopState" ELSE "setRemoving")
    /\ UNCHANGED <<up, object, disk, ctrd, mons, chans, rpc, sandboxReady, faults, bounds>>

\* Mutant: a container may be removed while it is being started.
CanRemoveStarting(s) == State(s) \notin {"RUNNING", "UNKNOWN"} /\ ~s.removing

CanRemove(s) == State(s) \notin {"RUNNING", "UNKNOWN"} /\ ~s.starting /\ ~s.removing

setContainerRemoving(t) ==
    /\ At(t, "setRemoving")
    /\ \/ /\ CanRemove(status) /\ Goto(t, "deleteContainer")
          /\ Update([status EXCEPT !.removing = TRUE]) /\ UNCHANGED rpc
       \/ ~CanRemove(status) /\ Return(t) /\ UNCHANGED status
    /\ UNCHANGED <<up, inStore, stopCh, io, disk, ctrd, mons, chans, sandboxReady, faults, bounds>>

\* container.Delete(WithSnapshotCleanup): refused when a task is found; not found is fine.  An
\* error of the lookup of the task is taken for no task, and a task that is there is left behind.
RemoveContainerdContainer(t) ==
    /\ At(t, "deleteContainer")
    /\ \/ (Fault \/ (task = "none" /\ Fine)) /\ cntrd' = FALSE /\ Goto(t, "deleteStatus")
       \/ (Fault \/ (task # "none" /\ Fine)) /\ Goto(t, "resetRemoving") /\ UNCHANGED cntrd
    /\ UNCHANGED <<up, object, disk, task, mons, chans, rpc, sandboxReady, bounds>>

\* Mutant: an error of the removal of the root directory is only logged.
RemoveRootDirLogsError(t) ==
    /\ At(t, "rmRoot") /\ Goto(t, "rmState")
    /\ RemoveRoot \/ RemoveRootFails
    /\ UNCHANGED <<up, object, stateDir, ctrd, mons, chans, rpc, sandboxReady, bounds>>

RemoveCheckpoint(t) ==
    /\ At(t, "deleteStatus")
    /\ \/ DeleteStatus /\ Goto(t, "rmRoot")
       \/ DeleteStatusFails /\ Goto(t, "resetRemoving")
    /\ UNCHANGED <<up, object, rootDir, stateDir, ctrd, mons, chans, rpc, sandboxReady, bounds>>

RemoveRootDir(t) ==
    /\ At(t, "rmRoot")
    /\ \/ RemoveRoot /\ Goto(t, "rmState")
       \/ RemoveRootFails /\ Goto(t, "resetRemoving")
    /\ UNCHANGED <<up, object, stateDir, ctrd, mons, chans, rpc, sandboxReady, bounds>>

RemoveVolatileDir(t) ==
    /\ At(t, "rmState")
    /\ \/ Fine /\ stateDir' = FALSE /\ Goto(t, "storeDelete")
       \/ Fault /\ Goto(t, "resetRemoving") /\ UNCHANGED stateDir
    /\ UNCHANGED <<up, object, ckpt, rootDir, ctrd, mons, chans, rpc, sandboxReady, bounds>>

\* containerStore.Delete; the object keeps removing = TRUE for those who still hold it.
StoreDelete(t) ==
    /\ At(t, "storeDelete") /\ inStore' = FALSE /\ Return(t)
    /\ UNCHANGED <<up, status, stopCh, io, disk, ctrd, mons, chans, sandboxReady, faults, bounds>>

resetContainerRemoving(t) ==
    /\ At(t, "resetRemoving") /\ Return(t)
    /\ Update([status EXCEPT !.removing = FALSE])
    /\ UNCHANGED <<up, inStore, stopCh, io, disk, ctrd, mons, chans, sandboxReady, faults, bounds>>

-----------------------------------------------------------------------------
(* handleContainerExit, run by the event loop and by cleanupUnknownContainer *)

\* Mutant: a failed event is not put in back-off.
ExitReturnsNoBackOff(p, result) ==
    \/ p = Loop /\ Goto(p, "idle") /\ batch' = Tail(batch) /\ UNCHANGED <<backOff, ok>>
    \/ p # Loop /\ StopReturns(p, result) /\ UNCHANGED <<batch, backOff>>

\* The handler returns: the loop goes to its next event, or puts this one and those behind
\* it in back-off; a stopContainer returns the result.
ExitReturns(p, result) ==
    \/ /\ p = Loop /\ Goto(p, "idle") /\ UNCHANGED ok
       /\ batch' = IF result THEN Tail(batch) ELSE <<>>
       /\ backOff' = IF result THEN backOff ELSE batch
    \/ p # Loop /\ StopReturns(p, result) /\ UNCHANGED <<batch, backOff>>

\* The exit the event of the handler carries.
EventExit(p) == IF p = Loop THEN Head(batch) ELSE "unknown"

\* container.Task, with the IO of the container attached.
ExitLoadTask(p) ==
    /\ At(p, "exitTask")
    /\ \/ /\ Fine /\ Goto(p, IF task = "none" THEN "exitUpdate" ELSE "exitDelete")
          /\ UNCHANGED <<batch, backOff, ok>>
       \/ Fault /\ ExitReturns(p, FALSE)
    /\ UNCHANGED <<up, object, disk, ctrd, mons, exitCh, ch, call, seen, sandboxReady, bounds>>

\* Mutant: any error of the delete is tolerated.
ExitDeleteTaskLogsError(p) ==
    /\ At(p, "exitDelete") /\ Goto(p, "exitUpdate")
    /\ (Fine /\ TaskDelete) \/ TaskDeleteFails
    /\ UNCHANGED <<up, inStore, status, stopCh, disk, cntrd, mons, chans, rpc, sandboxReady, bounds>>

\* task.Delete(WithProcessKill); not found is tolerated.  The IO stays open where the state of
\* the task could not be read by container.Task, which then does not attach it.
ExitDeleteTask(p) ==
    /\ At(p, "exitDelete")
    /\ \/ Fine /\ TaskDelete /\ Goto(p, "exitUpdate") /\ UNCHANGED <<batch, backOff, ok>>
       \/ /\ Fault /\ task' = "none" /\ io' = io /\ Goto(p, "exitUpdate")
          /\ UNCHANGED <<batch, backOff, ok>>
       \/ TaskDeleteFails /\ ExitReturns(p, FALSE)
    /\ UNCHANGED <<up, inStore, status, stopCh, disk, cntrd, mons, exitCh, ch, call, seen,
                   sandboxReady, bounds>>

\* Mutant: FinishedAt is not checked.
ExitedAgain(s, exit) == [s EXCEPT !.exit = exit, !.unknown = FALSE]

\* The first exit to be recorded wins; UNKNOWN becomes EXITED.
Exited(s, exit) == [s EXCEPT !.exit = IF s.exit = "none" THEN exit ELSE s.exit,
                             !.unknown = FALSE]

ExitUpdateStatus(p) ==
    /\ At(p, "exitUpdate")
    /\ \/ UpdateSync(Exited(status, EventExit(p))) /\ Goto(p, "exitStop")
          /\ UNCHANGED <<batch, backOff, ok>>
       \/ UpdateSyncFails /\ ExitReturns(p, FALSE)
    /\ UNCHANGED <<up, inStore, stopCh, io, rootDir, stateDir, ctrd, mons, exitCh, ch, call, seen,
                   sandboxReady, bounds>>

\* Mutant: cntr.Stop is not called.
ExitStopForgotten(p) ==
    /\ At(p, "exitStop") /\ ExitReturns(p, TRUE)
    /\ UNCHANGED <<up, object, disk, ctrd, mons, exitCh, ch, call, seen, sandboxReady, faults, bounds>>

\* cntr.Stop closes StopCh.
ExitStop(p) ==
    /\ At(p, "exitStop") /\ stopCh' = TRUE /\ ExitReturns(p, TRUE)
    /\ UNCHANGED <<up, inStore, status, io, disk, ctrd, mons, exitCh, ch, call, seen,
                   sandboxReady, faults, bounds>>

-----------------------------------------------------------------------------
(* The event loop, eventMonitor.start, and the exit monitors *)

\* An event is handled at once unless the id is in back-off, then it queues behind.
Received(e) ==
    IF backOff = <<>> THEN batch' = <<e>> /\ UNCHANGED backOff
                      ELSE backOff' = Append(backOff, e) /\ UNCHANGED batch

LoopReceive ==
    /\ At(Loop, "idle") /\ batch = <<>>
    /\ \/ exitCh # <<>> /\ Received(Head(exitCh)) /\ exitCh' = Tail(exitCh) /\ UNCHANGED ch
       \/ ch # <<>> /\ Received(Head(ch)) /\ ch' = Tail(ch) /\ UNCHANGED exitCh
    /\ UNCHANGED <<up, object, disk, ctrd, mons, pc, rpc, sandboxReady, faults, bounds>>

\* The back-off of the id expires and the ticker fires: the whole queue is taken out.
LoopExpire ==
    /\ At(Loop, "idle") /\ batch = <<>> /\ backOff # <<>>
    /\ batch' = backOff /\ backOff' = <<>>
    /\ UNCHANGED <<up, object, disk, ctrd, mons, exitCh, ch, pc, rpc, sandboxReady, faults, bounds>>

\* handleEvent, up to the call of handleContainerExit.
handleEvent ==
    /\ At(Loop, "idle") /\ batch # <<>>
    /\ \/ /\ ~inStore /\ ExitReturns(Loop, TRUE) /\ Fine /\ UNCHANGED <<status, ckpt>>
       \/ /\ inStore /\ Head(batch) = "oom"
          /\ \/ UpdateSync([status EXCEPT !.oom = TRUE]) /\ ExitReturns(Loop, TRUE)
             \/ UpdateSyncFails /\ ExitReturns(Loop, FALSE)
       \/ /\ inStore /\ Head(batch) # "oom" /\ Goto(Loop, "exitTask") /\ Fine
          /\ UNCHANGED <<status, ckpt, batch, backOff, ok>>
    /\ UNCHANGED <<up, inStore, stopCh, io, rootDir, stateDir, ctrd, mons, exitCh, ch, call, seen,
                   sandboxReady, bounds>>

\* What task.Wait delivers to monitor m: the exit status, or an error when the task was
\* gone before the call or the context of the call has been cancelled.
WaitResults(m) ==
    IF m \in Threads \ waits THEN {"unknown"}
    ELSE IF task = "none" THEN {"task", "unknown"}
    ELSE IF task = "stopped" THEN {"task"} ELSE {}

\* startExitMonitor: the goroutine receives the exit, or the error of a broken wait, ...
MonitorReceive(m) ==
    /\ monitor[m] = "waiting"
    /\ \/ Fine /\ \E e \in WaitResults(m) : monitor' = [monitor EXCEPT ![m] = e]
       \/ Fault /\ monitor' = [monitor EXCEPT ![m] = "unknown"]
    /\ UNCHANGED <<up, object, disk, ctrd, waits, chans, pc, rpc, sandboxReady, bounds>>

\* ... and sends it to the loop, blocking while the channel is full.
MonitorSend(m) ==
    /\ monitor[m] \in Exits /\ Len(exitCh) < ExitChannelSize
    /\ exitCh' = Append(exitCh, monitor[m]) /\ monitor' = [monitor EXCEPT ![m] = "off"]
    /\ UNCHANGED <<up, object, disk, ctrd, waits, ch, backOff, batch, pc, rpc, sandboxReady,
                   faults, bounds>>

-----------------------------------------------------------------------------
(* Environment: the process of the container, containerd, the sandbox *)

\* The process ends by itself, on the stop signal, or killed.
TaskExit ==
    /\ task \in Alive /\ task' = "stopped"
    /\ UNCHANGED <<up, object, disk, cntrd, mons, chans, pc, rpc, sandboxReady, faults, bounds>>

\* containerd publishes /tasks/oom; nobody receives it while the plugin is down.
TaskOOM ==
    /\ up /\ task \in Alive /\ ooms < MaxOOMs /\ ooms' = ooms + 1 /\ ch' = Append(ch, "oom")
    /\ UNCHANGED <<up, object, disk, ctrd, mons, exitCh, backOff, batch, pc, rpc, sandboxReady,
                   faults, crashes>>

SandboxStops ==
    /\ sandboxReady /\ sandboxReady' = FALSE
    /\ UNCHANGED <<up, object, disk, ctrd, mons, chans, pc, rpc, faults, bounds>>

\* While the plugin is down: the host reboots, or an operator deletes the container.
HostReboots ==
    /\ ~up /\ pc[Loop] = "load" /\ task # "none"
    /\ task' = "none" /\ stateDir' = FALSE
    /\ UNCHANGED <<up, object, ckpt, rootDir, cntrd, mons, chans, pc, rpc, sandboxReady, faults,
                   bounds>>

ContainerDeletedOutside ==
    /\ ~up /\ pc[Loop] = "load" /\ cntrd /\ cntrd' = FALSE /\ task' = "none"
    /\ UNCHANGED <<up, object, disk, mons, chans, pc, rpc, sandboxReady, faults, bounds>>

-----------------------------------------------------------------------------
(* Restart: everything in memory is lost, then recover runs before any call is served *)

Crash == crashes < MaxCrashes /\ crashes' = crashes + 1 /\ Down

\* containerd does not list the container: its directories are orphans, removed best-effort.
cleanupOrphanedIDDirs ==
    /\ ~up /\ pc[Loop] = "load" /\ ~cntrd
    /\ up' = TRUE /\ Goto(Loop, "idle")
    /\ \/ Fine /\ rootDir' = FALSE /\ stateDir' = FALSE
       \/ Fault /\ rootDir' \in {FALSE, rootDir} /\ stateDir' \in {FALSE, stateDir}
    /\ ckpt' = IF rootDir' THEN ckpt ELSE {}
    /\ UNCHANGED <<object, ctrd, mons, chans, rpc, sandboxReady, bounds>>

\* loadContainer, first part: a container whose metadata cannot be read is skipped, ...
LoadSkips ==
    /\ ~up /\ pc[Loop] = "load" /\ cntrd /\ Fault /\ up' = TRUE /\ Goto(Loop, "idle")
    /\ UNCHANGED <<object, disk, ctrd, mons, chans, rpc, sandboxReady, bounds>>

\* ... then containerstore.LoadStatus.
LoadStatus ==
    /\ ~up /\ pc[Loop] = "load" /\ cntrd /\ Goto(Loop, "loadTask")
    /\ \/ Fine /\ \E c \in ckpt : status' = decode(c)
       \/ (Fault \/ (ckpt = {} /\ Fine)) /\ status' = unknownContainerStatus
    /\ UNCHANGED <<up, inStore, stopCh, io, disk, ctrd, mons, chans, rpc, sandboxReady, bounds>>

\* Mutant: no IO is created for a container without a task.
LoadNoTaskNoIO ==
    /\ task = "none" /\ Fine /\ io' = "nil" /\ UNCHANGED <<stateDir, task, monitor>>
    /\ status' = IF State(status) = "RUNNING"
                 THEN [status EXCEPT !.exit = "unknown", !.oom = FALSE] ELSE status

\* Mutant: a container without a task has not been started.
LoadNoTaskNotStarted ==
    /\ task = "none" /\ Fine /\ io' = "open" /\ UNCHANGED <<stateDir, task, monitor>>
    /\ status' = [status EXCEPT !.started = FALSE]

\* Second part: the status is brought up to date with the task, one alternative per case.
LoadNoTask ==
    /\ task = "none" /\ Fine /\ UNCHANGED <<task, monitor>>
    /\ io' = IF State(status) = "CREATED" THEN "open" ELSE "nil"
    /\ stateDir' = (stateDir \/ State(status) = "CREATED")
    /\ status' = IF State(status) = "RUNNING"
                 THEN [status EXCEPT !.exit = "unknown", !.oom = FALSE] ELSE status

\* The task is looked up twice, first by container.Task to attach the IO, then for its state.
\* Where the first lookup cannot read the state it succeeds and attaches nothing.
Attached(i) == (Fine /\ io' = i) \/ (Fault /\ io' = "unattached")

LoadCreatedTask ==
    /\ task = "created" /\ task' = "none" /\ Attached("closed")
    /\ status' = [status EXCEPT !.unknown = (State(status) # "CREATED")]
    /\ UNCHANGED <<stateDir, monitor>>

LoadRunningTask ==
    /\ task \in Alive /\ Attached("open") /\ UNCHANGED <<stateDir, task>>
    /\ \/ /\ State(status) = "EXITED" /\ UNCHANGED monitor
          /\ status' = [status EXCEPT !.unknown = TRUE]
       \/ /\ State(status) # "EXITED" /\ monitor' = [monitor EXCEPT ![Loop] = "waiting"]
          /\ status' = [status EXCEPT !.started = TRUE]

LoadStoppedTask ==
    /\ task = "stopped" /\ task' = "none" /\ Attached("closed")
    /\ status' = [status EXCEPT !.exit = "task"]
    /\ UNCHANGED <<stateDir, monitor>>

\* An error of the lookups or of task.Delete, or a state that is none of the above.  (task.Wait,
\* which comes after StartedAt is set, returns no error.)
LoadFails ==
    /\ Fault /\ status' = [status EXCEPT !.unknown = TRUE]
    /\ io' \in {"nil"} \cup (IF task = "none" THEN {} ELSE {"open"})
    /\ task' \in {task} \cup (IF task \in {"created", "stopped"} THEN {"stopped", "none"} ELSE {})
    /\ UNCHANGED <<stateDir, monitor>>

loadContainer ==
    /\ ~up /\ pc[Loop] = "loadTask" /\ Goto(Loop, "storeLoaded")
    /\ \/ LoadNoTask \/ LoadCreatedTask \/ LoadRunningTask \/ LoadStoppedTask \/ LoadFails
    /\ UNCHANGED <<up, inStore, stopCh, ckpt, rootDir, cntrd, waits, chans, rpc, sandboxReady,
                   bounds>>

\* NewContainer writes the checkpoint back and closes StopCh of an exited container; a
\* container that cannot be loaded is skipped.
StoreLoaded ==
    /\ ~up /\ pc[Loop] = "storeLoaded" /\ Goto(Loop, "idle") /\ up' = TRUE
    /\ \/ UpdateSync(status) /\ inStore' = TRUE /\ stopCh' = (State(status) = "EXITED")
       \/ UpdateSyncFails /\ UNCHANGED <<inStore, stopCh>>
    /\ UNCHANGED <<io, rootDir, stateDir, ctrd, mons, chans, rpc, sandboxReady, bounds>>

-----------------------------------------------------------------------------
(* The specification *)

\* The steps of the calls in progress.
CreateStep(t) == MkdirRoot(t) \/ MkdirVolatile(t) \/ NewContainerdContainer(t) \/ NewContainer(t)
                 \/ StoreAdd(t) \/ UndoCreate(t)
StartStep(t) == setContainerStarting(t) \/ StartSandboxCheck(t) \/ StartNewTask(t) \/ StartTask(t)
                \/ StartRecord(t) \/ StartMonitor(t) \/ StartUndoTask(t) \/ StartUndoStatus(t)
                \/ resetContainerStarting(t)
StopStep(t) == StopReadState(t) \/ StopLoadTask(t) \/ StopWaitTask(t) \/ StopTerm(t)
               \/ StopWaitTerm(t) \/ StopKill(t) \/ StopWaitKill(t) \/ StopExitCancel(t)
               \/ StopWaitCancel(t) \/ StopDone(t)
RemoveStep(t) == RemoveReadState(t) \/ setContainerRemoving(t) \/ RemoveContainerdContainer(t)
                 \/ RemoveCheckpoint(t) \/ RemoveRootDir(t) \/ RemoveVolatileDir(t)
                 \/ StoreDelete(t) \/ resetContainerRemoving(t)
handleContainerExit(p) == ExitLoadTask(p) \/ ExitDeleteTask(p) \/ ExitUpdateStatus(p) \/ ExitStop(p)

Handler(t) == CreateStep(t) \/ StartStep(t) \/ StopStep(t) \/ RemoveStep(t) \/ handleContainerExit(t)
EventLoop == LoopReceive \/ LoopExpire \/ handleEvent \/ handleContainerExit(Loop)
Monitor(m) == MonitorReceive(m) \/ MonitorSend(m)
Recover == cleanupOrphanedIDDirs \/ LoadSkips \/ LoadStatus \/ loadContainer \/ StoreLoaded
Environment == TaskExit \/ TaskOOM \/ SandboxStops \/ HostReboots \/ ContainerDeletedOutside \/ Crash

\* Nothing is left to happen to a container that is not in the store.
Terminated ==
    /\ up /\ ~inStore /\ batch = <<>> /\ backOff = <<>> /\ exitCh = <<>> /\ ch = <<>>
    /\ \A p \in Procs : pc[p] = "idle" /\ monitor[p] = "off"
    /\ UNCHANGED vars

Next ==
    \/ \E t \in Threads : \/ StartContainer(t) \/ StopContainer(t) \/ RemoveContainer(t)
                          \/ Handler(t) \/ StartPanics(t) \/ StopCtxDone(t)
    \/ \E m \in Procs : Monitor(m)
    \/ EventLoop \/ Recover \/ Environment \/ Terminated

Spec == Init /\ [][Next]_vars

\* Goroutines run, timeouts and the ticker fire, a killed process ends; nothing else is
\* promised: no call has to be made, and a process may run for ever.
Fairness ==
    /\ \A t \in Threads : WF_vars(Handler(t) \/ StartPanics(t))
    /\ \A m \in Procs : WF_vars(Monitor(m))
    /\ WF_vars(EventLoop) /\ WF_vars(Recover)
    /\ WF_vars(task = "dying" /\ TaskExit)

FairSpec == Spec /\ Fairness

-----------------------------------------------------------------------------
(* Properties *)

ObjectType ==
    /\ up \in BOOLEAN /\ inStore \in BOOLEAN /\ stopCh \in BOOLEAN
    /\ io \in {"nil", "unattached", "open", "closed"}
StatusType == status \in Status
DiskType ==
    /\ ckpt \in SUBSET Checkpoint /\ \A c, d \in ckpt : c = d
    /\ rootDir \in BOOLEAN /\ stateDir \in BOOLEAN /\ cntrd \in BOOLEAN /\ task \in Tasks
EventType ==
    /\ monitor \in [Procs -> {"off", "waiting", "task", "unknown"}] /\ waits \in SUBSET Threads
    /\ exitCh \in Seq(Events) /\ ch \in Seq({"oom"}) /\ backOff \in Seq(Events)
    /\ batch \in Seq(Events)
CallType ==
    /\ pc \in [Procs -> Steps] /\ call \in [Threads -> Calls]
    /\ seen \in [Threads -> States \cup {"none"}] /\ ok \in [Threads -> BOOLEAN]
BoundType ==
    /\ sandboxReady \in BOOLEAN /\ faults \in Nat /\ crashes \in Nat /\ ooms \in Nat

\* Every variable keeps its type; in particular the status file holds at most one status.
TypeOK == ObjectType /\ StatusType /\ DiskType /\ EventType /\ CallType /\ BoundType

\* An exit event for the loop to handle is in some queue.
HasExit(queue) == \E i \in 1..Len(queue) : queue[i] # "oom"
ExitQueued == HasExit(exitCh) \/ HasExit(backOff) \/ HasExit(batch)

\* No exit is lost: a container reported RUNNING always has an exit monitor, or an exit event
\* on its way to the loop or in back-off, or a StartContainer about to start the monitor.
NoLostExit ==
    up /\ inStore /\ State(status) = "RUNNING" =>
        \/ monitor[Loop] # "off" \/ ExitQueued \/ \E t \in Threads : pc[t] = "startMonitor"

\* The starting and removing flags work as locks: at most one goroutine is between
\* setContainerStarting/setContainerRemoving and the matching reset (or the end of the call).
StartRemoveExclusion ==
    \A t, u \in Threads :
        pc[t] \in StartSteps \cup RemoveSteps /\ pc[u] \in StartSteps \cup RemoveSteps => t = u

\* A container reported EXITED has no process, unless its start failed and so did the cleanup
\* of its task (StartContainer only logs that error).
ExitedIsDead ==
    up /\ inStore /\ State(status) = "EXITED" /\ status.exit # "error" => task \notin Alive

\* A successful RemoveContainer leaves nothing of the container behind on disk and no container
\* in containerd, even when events for it are handled while it is being removed; and no task
\* once an exit of its process has been observed.  Only a task that a failed start could not
\* delete may stay, where container.Delete could not look it up either.
RemovedLeavesNothing ==
    up /\ ~inStore /\ status.removing =>
        /\ ~cntrd /\ ckpt = {} /\ ~rootDir /\ ~stateDir
        /\ task # "none" => status.exit \in {"none", "error"}

\* When stopContainer of a RUNNING or UNKNOWN container returns without error, the process has
\* ended, although the state it acted on may be out of date by then.
StopMeansDead ==
    \A t \in Threads : pc[t] = "stopped" /\ ok[t] /\ seen[t] \in {"RUNNING", "UNKNOWN"} =>
        task \notin Alive

\* StartContainer and Attach dereference Container.IO.  It is set while the container is CREATED
\* or RUNNING, also after any sequence of restarts, unless the last restart found the task but
\* could not read its state.
NilIOOnlyUnread == up /\ inStore /\ State(status) \in {"CREATED", "RUNNING"} => io # "nil"

\* "IO could only be nil when the container is in unknown state" (the comment on Container.IO).
NilIOOnlyUnknown == up /\ inStore /\ ~HasIO => State(status) = "UNKNOWN"

\* The exit of a container is recorded once: until the next restart no later exit event, stop
\* or failed start overwrites it.
ExitRecordedOnce ==
    [][status.exit # "none" /\ up /\ up' => status'.exit = status.exit]_vars

\* An exit monitor reports an exit only when the process has ended or its wait broke: cancelling
\* the wait of a finished stopContainer is never taken for an exit of the container.
NoSpuriousExit ==
    [][\A m \in Procs : monitor[m] = "waiting" /\ monitor'[m] \in Exits =>
          task \notin Alive \/ faults' > faults]_vars

\* An exit on disk stays on disk until the container is removed; a restart forgets it only if
\* it could not read the file, and then the container is UNKNOWN.
ExitDurable ==
    [][\A c \in ckpt : c.exit # "none" =>
          \/ \E d \in ckpt' : d.exit # "none"
          \/ ckpt' = {} /\ ~cntrd'
          \/ status'.unknown]_vars

\* A stop always returns: every stopContainer ends, by the exit, an error or a restart.
StopTerminates == \A t \in Threads : pc[t] = "stopState" ~> pc[t] = "idle"

\* The end of a RUNNING container is always reported: it leaves RUNNING, or the plugin restarts.
ExitObserved ==
    (up /\ inStore /\ State(status) = "RUNNING" /\ task \notin Alive)
        ~> (~up \/ State(status) # "RUNNING")

-----------------------------------------------------------------------------
(* The inductive invariant behind the safety properties, in named parts *)

Acting == {"RUNNING", "UNKNOWN"}       \* the states in which a stop acts
NotStarted == {"getSandbox", "newTask", "startTask", "recordStart", "undoTask", "undoStart"}

\* No exit of the container has been observed or can be observed now.
Quiet ==
    /\ ~ExitQueued /\ ~stopCh
    /\ \A p \in Procs : monitor[p] = "off" /\ pc[p] \notin ExitSteps
    /\ \A t \in Threads : seen[t] \notin Acting

\* Calls are served only between recovery and the next crash; only the loop recovers.
Phases ==
    /\ ~up => ~status.starting /\ ~status.removing /\ \A t \in Threads : pc[t] = "idle"
    /\ pc[Loop] \in IF up THEN ExitSteps \cup {"idle"} ELSE RecoverSteps
    /\ \A t \in Threads : pc[t] \notin RecoverSteps
    /\ pc[Loop] \in {"load", "loadTask"} => Quiet /\ ~inStore
    /\ pc[Loop] = "load" => status = ZeroStatus
    /\ pc[Loop] = "storeLoaded" => ~inStore /\ ~stopCh /\ \A t \in Threads : seen[t] \notin Acting

\* Nobody knows of a container that is being created.
CreateAlone ==
    \A t \in Threads : pc[t] \in CreateSteps =>
        /\ up /\ ~inStore /\ Quiet /\ task = "none" /\ ~status.removing /\ status.exit = "none"
        /\ \A p \in Procs \ {t} : pc[p] = "idle"
        /\ pc[t] = "storeAdd" => State(status) = "CREATED" /\ io = "open"
        /\ pc[t] = "storeStatus" => io = "open"

\* A call acts on a container that is in the store, or that another call has removed since.
Handles ==
    \A t \in Threads : pc[t] \notin CreateSteps \cup {"idle"} => inStore \/ status.removing

\* A stop goes on only for a container it has seen RUNNING or UNKNOWN.
Stopping ==
    \A t \in Threads :
        pc[t] \in {"stopTask", "stopWait", "stopTerm", "waitTerm", "stopKill", "waitKill"} \cup ExitSteps =>
            seen[t] \in Acting

\* The starting and removing flags are held by the goroutines in the critical sections.
Locks ==
    /\ StartRemoveExclusion
    /\ \A t \in Threads : /\ pc[t] \in StartSteps => status.starting /\ inStore
                          /\ pc[t] \in RemoveSteps => status.removing /\ inStore
    /\ ~(status.starting /\ status.removing)

\* While the loop handles an event, the event is at the head of its batch, and the id of the
\* container is not in back-off.
LoopHolds ==
    /\ pc[Loop] \in ExitSteps => batch # <<>> /\ Head(batch) # "oom"
    /\ batch # <<>> => backOff = <<>>

\* NoLostExit, already while the container is being loaded.
ExitTracked ==
    /\ ((up /\ inStore) \/ pc[Loop] = "storeLoaded") /\ State(status) = "RUNNING" =>
          monitor[Loop] # "off" \/ ExitQueued \/ \E t \in Threads : pc[t] = "startMonitor"
    /\ \A p \in Procs : pc[p] = "exitStop" => status.exit # "none"

\* A container is CREATED until its start is recorded, and no exit is observed before.
NotStartedYet ==
    /\ State(status) = "CREATED" => Quiet
    /\ \A t \in Threads : /\ pc[t] \in NotStarted => State(status) = "CREATED"
                          /\ pc[t] = "startMonitor" => State(status) # "CREATED"

\* An observed exit means that the task is gone.
Gone ==
    /\ stopCh => task = "none"
    /\ \A p \in Procs : pc[p] \in {"exitUpdate", "exitStop"} => task = "none"
    /\ \A t \in Threads : pc[t] \in {"exitCancel", "waitCancel", "stopped"} /\ ok[t] /\ seen[t] \in Acting =>
          task = "none"
    /\ up /\ State(status) = "EXITED" /\ status.exit # "error" => task = "none"
    /\ pc[Loop] = "storeLoaded" /\ State(status) = "EXITED" => task = "none"

\* Only what does not run is removed, and a removal takes everything away, one thing after the other.
Removal ==
    /\ \A t \in Threads :
          /\ pc[t] \in RemoveSteps => State(status) \in {"CREATED", "EXITED"}
          /\ pc[t] \in {"deleteStatus", "rmRoot", "rmState", "storeDelete"} =>
                /\ ~cntrd
                /\ task # "none" => status.exit \in {"none", "error"}
          /\ pc[t] \in {"rmState", "storeDelete"} => ckpt = {} /\ ~rootDir
          /\ pc[t] = "storeDelete" => ~stateDir
    /\ RemovedLeavesNothing

IOSet ==
    ((up /\ inStore) \/ pc[Loop] = "storeLoaded") /\ State(status) \in {"CREATED", "RUNNING"} => io # "nil"

Control ==
    /\ Phases /\ CreateAlone /\ Handles /\ Stopping /\ Locks /\ LoopHolds /\ ExitTracked
    /\ NotStartedYet /\ Gone /\ Removal /\ IOSet

\* The interlocking of the handlers, the event loop and recovery, and the types it rests on.
Consistent == TypeOK /\ Control

\* The status file holds what is in memory or nothing, and recovery has not forgotten an exit that
\* is in the file.
Recorded ==
    /\ up /\ inStore => ckpt \subseteq {encode(status)}
    /\ \A t \in Threads : pc[t] \in CreateSteps => ckpt \subseteq {encode(status)} /\ ~status.started
    /\ pc[Loop] \in {"loadTask", "storeLoaded"} =>
          \A c \in ckpt : c.exit # "none" => status.exit # "none" \/ status.unknown

\* Nobody handles the exit of a container that is neither in the store nor being removed.
Settled == up /\ ~inStore /\ ~status.removing => pc[Loop] = "idle"

\* An exit monitor of a stopContainer listens only while the wait of the call is open.
Listening ==
    \A t \in Threads : /\ monitor[t] = "waiting" => t \in waits
                       /\ pc[t] = "waitCancel" => monitor[t] # "waiting"

\* Every step of the code preserves all parts together, whatever the number of calls, and they
\* make the properties above hold.
Inductive == Consistent /\ Recorded /\ Settled /\ Listening

=============================================================================
