---------------------- MODULE ContainerLifecycleProofs ----------------------
(***************************************************************************)
(* The safety properties of ContainerLifecycle hold for every number of    *)
(* concurrent calls, restarts, failing calls and OOM notifications, and    *)
(* what is reported of a container follows ContainerStateMachine.          *)
(*                                                                         *)
(* None of the properties is inductive by itself.  Inductive adds what the *)
(* code relies on: when calls are served (Phases), that nobody knows of a  *)
(* container being created (CreateAlone), who holds the starting and       *)
(* removing locks (Locks, Handles), what the loop has at hand (LoopHolds), *)
(* that no exit is observed before the start is recorded (NotStartedYet),  *)
(* that an observed exit means that the task is gone (Gone), that the      *)
(* status file is the status (Recorded), that the loop has nothing to do   *)
(* with a container that is not there (Settled), and which monitors listen *)
(* (Listening).                                                            *)
(*                                                                         *)
(* The steps of the calls are shown to preserve it here, those of the      *)
(* event loop and of containerd in ContainerLifecycleEvents.               *)
(***************************************************************************)
EXTENDS ContainerLifecycleEvents, ContainerReported

-----------------------------------------------------------------------------
(* Types *)

\* Every step of CreateContainer preserves the types.
LEMMA CreateType ==
    ASSUME Consistent, NEW t \in Threads, CreateStep(t)
    PROVE  TypeOK'
<1> USE DEF Consistent, TypeOK, Procs, At, Fine, Fault, object, disk, ctrd, mons, chans, rpc, bounds,
            DeleteStatus, DeleteStatusFails, RemoveRoot, RemoveRootFails
<1>1. StatusType'
  BY NewContainerEffect, Zenon DEF CreateStep, MkdirRoot, Goto, Return, MkdirVolatile,
    NewContainerdContainer, NewContainer, UpdateSyncFails, StoreAdd, UndoCreate, StatusType, Control
<1>2. ObjectType'
  BY ZenonT(60) DEF CreateStep, MkdirRoot, Goto, Return, MkdirVolatile, NewContainerdContainer,
      NewContainer,
    UpdateSync, UpdateSyncFails, StoreAdd, UndoCreate, ObjectType
<1>3. BoundType'
  BY LifecycleAssumption DEF CreateStep, MkdirRoot, Goto, Return, MkdirVolatile,
    NewContainerdContainer, NewContainer, UpdateSync, UpdateSyncFails, StoreAdd, UndoCreate,
    BoundType
<1>4. ckpt' \in {ckpt, {}, {encode(status')}}
  BY Zenon DEF CreateStep, MkdirRoot, Goto, Return, MkdirVolatile, NewContainerdContainer,
      NewContainer,
    UpdateSync, UpdateSyncFails, StoreAdd, UndoCreate
<1>5. /\ rootDir' \in BOOLEAN /\ stateDir' \in BOOLEAN /\ cntrd' \in BOOLEAN /\ task' \in Tasks
  BY Zenon DEF CreateStep, MkdirRoot, Goto, Return, MkdirVolatile, NewContainerdContainer,
      NewContainer,
    UpdateSync, UpdateSyncFails, StoreAdd, UndoCreate, DiskType, Tasks, Killed
<1>6. DiskType'
  BY <1>1, <1>4, <1>5, CheckpointType, Zenon DEF StatusType, DiskType
<1>7. EventType'
  BY LifecycleAssumption, ZenonT(60) DEF CreateStep, MkdirRoot, Goto, Return, MkdirVolatile,
    NewContainerdContainer, NewContainer, UpdateSync, UpdateSyncFails, StoreAdd, UndoCreate,
    EventType
<1>8. CallType'
  BY GotoType, ReturnType, ZenonT(60) DEF CreateStep, MkdirRoot, MkdirVolatile, NewContainerdContainer,
    NewContainer, StoreAdd, UndoCreate, CallType, Calls, Steps, CreateSteps, StartSteps, StopSteps,
    RemoveSteps, ExitSteps, RecoverSteps
<1> QED BY <1>1, <1>2, <1>3, <1>6, <1>7, <1>8, Zenon

\* Every step of stopContainer preserves the types.
LEMMA StopType ==
    ASSUME Consistent, NEW t \in Threads, StopStep(t)
    PROVE  TypeOK'
<1> USE DEF Consistent, TypeOK, Procs, At, Fine, Fault, object, disk, ctrd, mons, chans, rpc, bounds
<1>1. StatusType'
  BY Zenon DEF StopStep, StopReadState, Goto, StopReturns, StopLoadTask, StopWaitTask, StopTerm,
    StopWaitTerm, StopKill, StopWaitKill, StopExitCancel, StopWaitCancel, StopDone, Return,
    StatusType
<1>2. ObjectType'
  BY Zenon DEF StopStep, StopReadState, Goto, StopReturns, StopLoadTask, StopWaitTask, StopTerm,
    StopWaitTerm, StopKill, StopWaitKill, StopExitCancel, StopWaitCancel, StopDone, Return,
    ObjectType
<1>3. BoundType'
  <2>1. CASE StopReadState(t)
    BY <2>1, LifecycleAssumption, Zenon DEF StopReadState, Goto, StopReturns, BoundType
  <2>2. CASE StopLoadTask(t)
    BY <2>2, LifecycleAssumption DEF StopLoadTask, Goto, StopReturns, BoundType
  <2>3. CASE StopWaitTask(t)
    BY <2>3, LifecycleAssumption DEF StopWaitTask, Goto, StopReturns, BoundType
  <2>4. CASE StopTerm(t)
    BY <2>4, LifecycleAssumption DEF StopTerm, Goto, StopReturns, BoundType
  <2>5. CASE StopWaitTerm(t)
    BY <2>5, LifecycleAssumption, Zenon DEF StopWaitTerm, StopReturns, Goto, BoundType
  <2>6. CASE StopKill(t)
    BY <2>6, LifecycleAssumption DEF StopKill, Goto, StopReturns, BoundType
  <2>7. CASE StopWaitKill(t)
    BY <2>7, LifecycleAssumption, Zenon DEF StopWaitKill, StopReturns, Goto, BoundType
  <2>8. CASE StopExitCancel(t)
    BY <2>8, LifecycleAssumption, Zenon DEF StopExitCancel, Goto, BoundType
  <2>9. CASE StopWaitCancel(t)
    BY <2>9, LifecycleAssumption, Zenon DEF StopWaitCancel, Goto, BoundType
  <2>10. CASE StopDone(t)
    BY <2>10, LifecycleAssumption, Zenon DEF StopDone, Goto, Return, BoundType
  <2> QED BY <2>1, <2>2, <2>3, <2>4, <2>5, <2>6, <2>7, <2>8, <2>9, <2>10, Zenon DEF StopStep
<1>4. DiskType'
  BY ZenonT(60) DEF StopStep, StopReadState, Goto, StopReturns, StopLoadTask, StopWaitTask, StopTerm,
    StopWaitTerm, StopKill, StopWaitKill, StopExitCancel, StopWaitCancel, StopDone, Return,
    DiskType, Tasks, Killed
<1>5. EventType'
  BY LifecycleAssumption, Zenon DEF StopStep, StopReadState, Goto, StopReturns, StopLoadTask,
      StopWaitTask,
    StopTerm, StopWaitTerm, StopKill, StopWaitKill, StopExitCancel, StopWaitCancel, StopDone,
    Return, EventType
<1>6. CallType'
  <2>1. CASE StopReadState(t)
    BY <2>1, GotoType, StopReturnsType, StateExit, Zenon DEF StopReadState, CallType, Calls, Steps,
      CreateSteps, StartSteps, StopSteps, RemoveSteps, ExitSteps, RecoverSteps, States, StatusType,
      FirstSignal
  <2>2. CASE StopLoadTask(t)
    <3>1. CASE StopReturns(t, TRUE) \/ StopReturns(t, FALSE)
      BY <2>2, <3>1, StopReturnsType, Zenon DEF StopLoadTask, CallType
    <3>2. CASE UNCHANGED ok
      <4>1. \E step \in Steps : Goto(t, step)
        BY <2>2, <3>2, Zenon DEF StopLoadTask, StopReturns, FirstSignal, Steps, StopSteps, ExitSteps
      <4> QED BY <2>2, <3>2, <4>1, GotoType, Zenon DEF StopLoadTask, CallType
    <3> QED BY <2>2, <3>1, <3>2, Zenon DEF StopLoadTask
  <2>3. CASE StopWaitTask(t)
    <3>1. CASE StopReturns(t, TRUE) \/ StopReturns(t, FALSE)
      BY <2>3, <3>1, StopReturnsType, Zenon DEF StopWaitTask, CallType
    <3>2. CASE UNCHANGED ok
      <4>1. \E step \in Steps : Goto(t, step)
        BY <2>3, <3>2, Zenon DEF StopWaitTask, StopReturns, FirstSignal, Steps, StopSteps, ExitSteps
      <4> QED BY <2>3, <3>2, <4>1, GotoType, Zenon DEF StopWaitTask, CallType
    <3> QED BY <2>3, <3>1, <3>2, Zenon DEF StopWaitTask
  <2>4. CASE StopTerm(t)
    BY <2>4, GotoType, StopReturnsType, Zenon DEF StopTerm, CallType, Calls, Steps, CreateSteps,
      StartSteps, StopSteps, RemoveSteps, ExitSteps, RecoverSteps, States, StatusType, FirstSignal
  <2>5. CASE StopWaitTerm(t)
    BY <2>5, GotoType, StopReturnsType, Zenon DEF StopWaitTerm, CallType, Calls, Steps, CreateSteps,
      StartSteps, StopSteps, RemoveSteps, ExitSteps, RecoverSteps, States, StatusType, FirstSignal
  <2>6. CASE StopKill(t)
    BY <2>6, GotoType, StopReturnsType, Zenon DEF StopKill, CallType, Calls, Steps, CreateSteps,
      StartSteps, StopSteps, RemoveSteps, ExitSteps, RecoverSteps, States, StatusType, FirstSignal
  <2>7. CASE StopWaitKill(t)
    BY <2>7, GotoType, StopReturnsType, Zenon DEF StopWaitKill, CallType, Calls, Steps, CreateSteps,
      StartSteps, StopSteps, RemoveSteps, ExitSteps, RecoverSteps, States, StatusType, FirstSignal
  <2>8. CASE StopExitCancel(t)
    BY <2>8, GotoType, Zenon DEF StopExitCancel, CallType, Calls, Steps, CreateSteps, StartSteps,
      StopSteps, RemoveSteps, ExitSteps, RecoverSteps, States, StatusType, FirstSignal
  <2>9. CASE StopWaitCancel(t)
    BY <2>9, GotoType, Zenon DEF StopWaitCancel, CallType, Calls, Steps, CreateSteps, StartSteps,
      StopSteps, RemoveSteps, ExitSteps, RecoverSteps, States, StatusType, FirstSignal
  <2>10. CASE StopDone(t)
    BY <2>10, GotoType, ReturnType, Zenon DEF StopDone, CallType, Calls, Steps, CreateSteps, StartSteps,
      StopSteps, RemoveSteps, ExitSteps, RecoverSteps, States, StatusType, FirstSignal
  <2> QED BY <2>1, <2>2, <2>3, <2>4, <2>5, <2>6, <2>7, <2>8, <2>9, <2>10, Zenon DEF StopStep
<1> QED BY <1>1, <1>2, <1>3, <1>4, <1>5, <1>6, Zenon

\* A new call, and the cancellation of a waiting one, preserve the types.
LEMMA NewCallType ==
    ASSUME Consistent, NEW t \in Threads,
           StartContainer(t) \/ StopContainer(t) \/ RemoveContainer(t) \/ StopCtxDone(t)
    PROVE  TypeOK'
<1> USE DEF Consistent, TypeOK, Procs, At, Fine, Fault, object, disk, ctrd, mons, chans, rpc, bounds
<1>1. StatusType'
  BY Zenon DEF StartContainer, Goto, StopContainer, RemoveContainer, StopCtxDone, StopReturns, StatusType
<1>2. ObjectType'
  BY Zenon DEF StartContainer, Goto, StopContainer, RemoveContainer, StopCtxDone, StopReturns, ObjectType
<1>3. BoundType'
  BY LifecycleAssumption DEF StartContainer, Goto, StopContainer, RemoveContainer, StopCtxDone,
    StopReturns, BoundType
<1>4. DiskType'
  BY Zenon DEF StartContainer, Goto, StopContainer, RemoveContainer, StopCtxDone, StopReturns, DiskType,
    Tasks, Killed
<1>5. EventType'
  BY LifecycleAssumption, Zenon DEF StartContainer, Goto, StopContainer, RemoveContainer, StopCtxDone,
    StopReturns, EventType
<1>6. CallType'
  <2>1. CASE StartContainer(t)
    BY <2>1, GotoType, Zenon DEF StartContainer, CallType, Calls, Steps, CreateSteps, StartSteps,
      StopSteps, RemoveSteps, ExitSteps, RecoverSteps
  <2>2. CASE StopContainer(t)
    BY <2>2, GotoType, Zenon DEF StopContainer, CallType, Calls, Steps, CreateSteps, StartSteps, StopSteps,
      RemoveSteps, ExitSteps, RecoverSteps
  <2>3. CASE RemoveContainer(t)
    BY <2>3, GotoType, Zenon DEF RemoveContainer, CallType, Calls, Steps, CreateSteps, StartSteps,
      StopSteps, RemoveSteps, ExitSteps, RecoverSteps
  <2>4. CASE StopCtxDone(t)
    BY <2>4, StopReturnsType, Zenon DEF StopCtxDone, CallType, Calls, Steps, CreateSteps,
        StartSteps,
      StopSteps, RemoveSteps, ExitSteps, RecoverSteps
  <2> QED BY <2>1, <2>2, <2>3, <2>4, Zenon
<1> QED BY <1>1, <1>2, <1>3, <1>4, <1>5, <1>6, Zenon

\* Every step of StartContainer preserves the types.
LEMMA StartType ==
    ASSUME Consistent, NEW t \in Threads, StartStep(t)
    PROVE  TypeOK'
<1> USE DEF Consistent, TypeOK, Procs, At, Fine, Fault, object, disk, ctrd, mons, chans, rpc, bounds
<1>1. StatusType'
  BY SetStartingEffect, RecordEffect, UndoStatusEffect, ResetStartingEffect, Zenon DEF StartStep,
    setContainerStarting, Goto, Return, StartSandboxCheck, StartNewTask, StartTask, StartRecord,
    UpdateSyncFails, StartMonitor, StartUndoTask, TaskDelete, TaskDeleteFails, StartUndoStatus,
    resetContainerStarting, StatusType, Control
<1>2. ObjectType'
  BY ZenonT(60) DEF StartStep, setContainerStarting, Goto, Update, Return, StartSandboxCheck, StartNewTask,
    StartTask, StartRecord, UpdateSync, UpdateSyncFails, StartMonitor, StartUndoTask, TaskDelete,
    TaskDeleteFails, StartUndoStatus, resetContainerStarting, ObjectType
<1>3. BoundType'
  <2>1. UNCHANGED <<sandboxReady, crashes, ooms>> /\ faults' \in {faults, faults + 1}
    BY ZenonT(60) DEF StartStep, setContainerStarting, Goto, Update, Return,
      StartSandboxCheck, StartNewTask, StartTask, StartRecord, UpdateSync, UpdateSyncFails,
      StartMonitor, StartUndoTask, TaskDelete, TaskDeleteFails, StartUndoStatus,
      resetContainerStarting
  <2>2. sandboxReady \in BOOLEAN /\ faults \in Nat /\ crashes \in Nat /\ ooms \in Nat
    BY Zenon DEF BoundType
  <2>3. \A n, m : n \in Nat /\ m \in {n, n + 1} => m \in Nat
    OBVIOUS
  <2> QED BY <2>1, <2>2, <2>3, Zenon DEF BoundType
<1>4. ckpt' \in {ckpt, {}, {encode(status')}}
  BY Zenon DEF StartStep, setContainerStarting, Goto, Update, Return, StartSandboxCheck,
      StartNewTask,
    StartTask, StartRecord, UpdateSync, UpdateSyncFails, StartMonitor, StartUndoTask, TaskDelete,
    TaskDeleteFails, StartUndoStatus, resetContainerStarting
<1>5. /\ rootDir' \in BOOLEAN /\ stateDir' \in BOOLEAN /\ cntrd' \in BOOLEAN /\ task' \in Tasks
  BY Zenon DEF StartStep, setContainerStarting, Goto, Update, Return, StartSandboxCheck, StartNewTask,
    StartTask, StartRecord, UpdateSync, UpdateSyncFails, StartMonitor, StartUndoTask, TaskDelete,
    TaskDeleteFails, StartUndoStatus, resetContainerStarting, DiskType, Tasks, Killed
<1>6. DiskType'
  BY <1>1, <1>4, <1>5, CheckpointType, Zenon DEF StatusType, DiskType
<1>7. EventType'
  BY LifecycleAssumption, Zenon DEF StartStep, setContainerStarting, Goto, Update, Return,
    StartSandboxCheck, StartNewTask, StartTask, StartRecord, UpdateSync, UpdateSyncFails,
    StartMonitor, StartUndoTask, TaskDelete, TaskDeleteFails, StartUndoStatus,
    resetContainerStarting, EventType
<1>8. CallType'
  BY GotoType, ReturnType, Zenon DEF StartStep, setContainerStarting, StartSandboxCheck,
      StartNewTask,
    StartTask, StartRecord, StartMonitor, StartUndoTask, StartUndoStatus, resetContainerStarting,
    CallType, Calls, Steps, CreateSteps, StartSteps, StopSteps, RemoveSteps, ExitSteps, RecoverSteps
<1> QED BY <1>1, <1>2, <1>3, <1>6, <1>7, <1>8, Zenon

\* Every step of RemoveContainer preserves the types.
LEMMA RemoveType ==
    ASSUME Consistent, NEW t \in Threads, RemoveStep(t)
    PROVE  TypeOK'
<1> USE DEF Consistent, TypeOK, Procs, At, Fine, Fault, object, disk, ctrd, mons, chans, rpc, bounds,
            DeleteStatus, DeleteStatusFails, RemoveRoot, RemoveRootFails
<1>1. StatusType'
  BY SetRemovingEffect, ResetRemovingEffect, Zenon DEF RemoveStep, RemoveReadState, Goto,
    setContainerRemoving, Return, RemoveContainerdContainer, RemoveCheckpoint, RemoveRootDir,
    RemoveVolatileDir, StoreDelete, resetContainerRemoving, StatusType, Control
<1>2. ObjectType'
  BY ZenonT(60) DEF RemoveStep, RemoveReadState, Goto, setContainerRemoving, Update, Return,
    RemoveContainerdContainer, RemoveCheckpoint, RemoveRootDir, RemoveVolatileDir, StoreDelete,
    resetContainerRemoving, ObjectType
<1>3. BoundType'
  BY LifecycleAssumption DEF RemoveStep, RemoveReadState, Goto, setContainerRemoving, Update,
    Return, RemoveContainerdContainer, RemoveCheckpoint, RemoveRootDir, RemoveVolatileDir,
    StoreDelete, resetContainerRemoving, BoundType
<1>4. DiskType'
  BY Zenon DEF RemoveStep, RemoveReadState, Goto, setContainerRemoving, Update, Return,
    RemoveContainerdContainer, RemoveCheckpoint, RemoveRootDir, RemoveVolatileDir, StoreDelete,
    resetContainerRemoving, DiskType, Tasks, Killed
<1>5. EventType'
  BY LifecycleAssumption, Zenon DEF RemoveStep, RemoveReadState, Goto, setContainerRemoving, Update,
    Return, RemoveContainerdContainer, RemoveCheckpoint, RemoveRootDir, RemoveVolatileDir,
    StoreDelete, resetContainerRemoving, EventType
<1>6. CallType'
  BY GotoType, ReturnType, Zenon DEF RemoveStep, RemoveReadState, setContainerRemoving,
    RemoveContainerdContainer, RemoveCheckpoint, RemoveRootDir, RemoveVolatileDir, StoreDelete,
    resetContainerRemoving, CallType, Calls, Steps, CreateSteps, StartSteps, StopSteps, RemoveSteps,
    ExitSteps, RecoverSteps
<1> QED BY <1>1, <1>2, <1>3, <1>4, <1>5, <1>6, Zenon

-----------------------------------------------------------------------------
(* Steps outside the critical sections of StartContainer and RemoveContainer *)

Outside == StopSteps \cup {"idle", "setStarting", "removeState", "setRemoving", "exitTask"}

\* A call goes from one step outside to another, and changes neither the container nor the queues;
\* a task it kills does not go away.
Walk(t) ==
    /\ up /\ up' /\ pc[t] \in Outside /\ pc'[t] \in Outside
    /\ pc' = [pc EXCEPT ![t] = pc'[t]]
    /\ pc[t] = "idle" => inStore
    /\ UNCHANGED <<inStore, status, stopCh, io, ckpt, rootDir, stateDir, cntrd>>
    /\ UNCHANGED <<exitCh, backOff, batch>>
    /\ task' = "none" <=> task = "none"
    /\ monitor'[Loop] = monitor[Loop]

\* What a stop has seen and done, of the invariant.
Seen ==
    /\ Stopping
    /\ \A t \in Threads :
          pc[t] \in {"exitCancel", "waitCancel", "stopped"} /\ ok[t] /\ seen[t] \in Acting =>
              task = "none"

\* Such a step preserves the control invariant.
LEMMA WalkControl ==
    ASSUME Consistent, NEW t \in Threads, Walk(t), Seen',
           Quiet /\ State(status) = "CREATED" => Quiet'
    PROVE  Control'
<1>1. /\ TypeOK /\ Phases /\ CreateAlone /\ Handles /\ Stopping /\ Locks /\ LoopHolds
      /\ ExitTracked /\ NotStartedYet /\ Gone /\ Removal /\ IOSet
  BY Zenon DEF Consistent, Control
<1> USE <1>1, LifecycleAssumption
    DEF Walk, Outside, Procs, CreateSteps, StartSteps, StopSteps, RemoveSteps, ExitSteps,
        RecoverSteps
<1>2. Phases' /\ CreateAlone' /\ Handles' /\ Locks'
  BY SMTT(60) DEF Phases, CreateAlone, Handles, Locks, StartRemoveExclusion, TypeOK, CallType
<1>3. LoopHolds' /\ ExitTracked' /\ NotStartedYet' /\ Gone'
  BY DEF Phases, LoopHolds, ExitTracked, ExitQueued, NotStartedYet, NotStarted, Seen, Gone, TypeOK,
         CallType
<1>4. Removal' /\ IOSet'
  BY ZenonT(60) DEF Phases, Removal, RemovedLeavesNothing, IOSet, TypeOK, CallType
<1> QED BY <1>2, <1>3, <1>4, Zenon DEF Seen, Control

\* Such a step leaves what is recorded and what is reported alone.
LEMMA WalkServed ==
    ASSUME Inductive, NEW t \in Threads, Walk(t)
    PROVE  Served
<1>1. TypeOK /\ Settled /\ Recorded /\ CreateAlone
  BY Zenon DEF Inductive, Consistent, Control
<1>2. Records /\ Moves
  BY Zenon DEF Walk, Records, Moves
<1>3. Settled'
  BY <1>1, LifecycleAssumption, Zenon
  DEF Walk, Outside, StopSteps, Settled, TypeOK, CallType, Procs
<1> QED BY <1>1, <1>2, <1>3, LifecycleAssumption, Zenon
        DEF Served, CreateAlone, Recorded, Walk, Outside, StopSteps, CreateSteps, TypeOK, CallType, Procs

\* Every step of stopContainer is such a step.
LEMMA StopWalks ==
    ASSUME Consistent, NEW t \in Threads, StopStep(t)
    PROVE  Walk(t)
<1>1. TypeOK /\ Handles
  BY Zenon DEF Consistent, Control
<1> USE <1>1, LifecycleAssumption
    DEF At, Goto, Outside, StopSteps, TypeOK, CallType, EventType, Procs, object, disk, ctrd,
        mons, chans
<1>2. CASE StopReadState(t)
  BY <1>2, Zenon DEF Walk, StopReadState, StopReturns
<1>3. CASE StopLoadTask(t)
  BY <1>3, Zenon DEF Walk, StopLoadTask, StopReturns, FirstSignal
<1>4. CASE StopWaitTask(t)
  BY <1>4, Zenon DEF Walk, StopWaitTask, StopReturns, FirstSignal
<1>5. CASE StopTerm(t)
  BY <1>5, Zenon DEF Walk, StopTerm, StopReturns
<1>6. CASE StopWaitTerm(t)
  BY <1>6, Zenon DEF Walk, StopWaitTerm, StopReturns
<1>7. CASE StopKill(t)
  BY <1>7, Zenon DEF Walk, StopKill, StopReturns, Killed
<1>8. CASE StopWaitKill(t)
  BY <1>8, Zenon DEF Walk, StopWaitKill, StopReturns
<1>9. CASE StopExitCancel(t)
  BY <1>9, Zenon DEF Walk, StopExitCancel
<1>10. CASE StopWaitCancel(t)
  BY <1>10, Zenon DEF Walk, StopWaitCancel
<1>11. CASE StopDone(t)
  BY <1>11, Zenon DEF Walk, StopDone, Return
<1> QED BY <1>2, <1>3, <1>4, <1>5, <1>6, <1>7, <1>8, <1>9, <1>10, <1>11, Zenon DEF StopStep

\* Every step of stopContainer preserves the control invariant.
LEMMA StopControl ==
    ASSUME Consistent, NEW t \in Threads, StopStep(t)
    PROVE  Control'
<1>1. TypeOK /\ Stopping /\ Gone /\ Handles
  BY Zenon DEF Consistent, Control
<1>2. Walk(t)
  BY StopWalks, Zenon
<1>3. Seen' /\ (Quiet /\ State(status) = "CREATED" => Quiet')
  <2> USE <1>1, LifecycleAssumption
      DEF At, Goto, chans, ctrd, mons, rpc, Seen, Stopping, Gone, Quiet, ExitQueued, Acting,
          ExitSteps,
          TypeOK, CallType, EventType, Procs
  <2>1. CASE StopReadState(t)
    BY <2>1, StateExit, SMTT(60) DEF StopReadState, StopReturns, object, StatusType, States
  <2>2. CASE StopLoadTask(t)
    BY <2>2 DEF StopLoadTask, StopReturns, FirstSignal, object
  <2>3. CASE StopWaitTask(t)
    BY <2>3 DEF StopWaitTask, StopReturns, FirstSignal, object
  <2>4. CASE StopTerm(t)
    <3>1. CASE Goto(t, "waitTerm") /\ UNCHANGED ok
      BY <2>4, <3>1, Zenon DEF StopTerm, object
    <3>2. CASE StopReturns(t, FALSE)
      BY <2>4, <3>2, Zenon DEF StopTerm, StopReturns, object
    <3> QED BY <2>4, <3>1, <3>2, Zenon DEF StopTerm
  <2>5. CASE StopWaitTerm(t)
    BY <2>5 DEF StopWaitTerm, StopReturns, object
  <2>6. CASE StopKill(t)
    <3>1. CASE Goto(t, "waitKill") /\ UNCHANGED ok
      BY <2>6, <3>1, Zenon DEF StopKill, Killed, object
    <3>2. CASE StopReturns(t, FALSE)
      BY <2>6, <3>2, Zenon DEF StopKill, Killed, StopReturns, object
    <3> QED BY <2>6, <3>1, <3>2, Zenon DEF StopKill
  <2>7. CASE StopWaitKill(t)
    BY <2>7, Zenon DEF StopWaitKill, StopReturns, object
  <2>8. CASE StopExitCancel(t)
    BY <2>8, Zenon DEF StopExitCancel, object
  <2>9. CASE StopWaitCancel(t)
    BY <2>9, Zenon DEF StopWaitCancel, object
  <2>10. CASE StopDone(t)
    <3>1. CASE Goto(t, "setRemoving") /\ UNCHANGED rpc
      BY <2>10, <3>1, Zenon DEF StopDone, object
    <3>2. CASE Return(t)
      BY <2>10, <3>2 DEF StopDone, Return, object
    <3> QED BY <2>10, <3>1, <3>2, Zenon DEF StopDone
  <2> QED BY <2>1, <2>2, <2>3, <2>4, <2>5, <2>6, <2>7, <2>8, <2>9, <2>10, Zenon DEF StopStep
<1> QED BY <1>2, <1>3, WalkControl, Zenon


\* stopContainer ends its exit monitor before it cancels the wait the monitor listens to.
LEMMA StopUnheard ==
    ASSUME Inductive, NEW t \in Threads, StopStep(t)
    PROVE  Unheard
<1>1. TypeOK /\ Listening
  BY Zenon DEF Inductive, Consistent
<1> USE <1>1, LifecycleAssumption
    DEF At, Goto, StopReturns, Unheard, NoneHears, Listening, TypeOK, CallType, EventType, Procs, mons
<1>2. CASE StopReadState(t)
  BY <1>2, Zenon DEF StopReadState
<1>3. CASE StopLoadTask(t)
  BY <1>3, Zenon DEF StopLoadTask, FirstSignal
<1>4. CASE StopWaitTask(t)
  BY <1>4, Zenon DEF StopWaitTask, FirstSignal
<1>5. CASE StopTerm(t)
  BY <1>5, Zenon DEF StopTerm
<1>6. CASE StopWaitTerm(t)
  BY <1>6, Zenon DEF StopWaitTerm
<1>7. CASE StopKill(t)
  BY <1>7, Zenon DEF StopKill
<1>8. CASE StopWaitKill(t)
  BY <1>8, Zenon DEF StopWaitKill
<1>9. CASE StopExitCancel(t)
  BY <1>9, Zenon DEF StopExitCancel
<1>10. CASE StopWaitCancel(t)
  BY <1>10, Zenon DEF StopWaitCancel
<1>11. CASE StopDone(t)
  BY <1>11, Zenon DEF StopDone, Return
<1> QED BY <1>2, <1>3, <1>4, <1>5, <1>6, <1>7, <1>8, <1>9, <1>10, <1>11, Zenon DEF StopStep

\* A new call, and the cancellation of a waiting one, are such steps too,
LEMMA CallWalks ==
    ASSUME Consistent, NEW t \in Threads,
           StartContainer(t) \/ StopContainer(t) \/ RemoveContainer(t) \/ StopCtxDone(t)
    PROVE  Walk(t)
<1>1. TypeOK
  BY Zenon DEF Consistent
<1> USE <1>1, LifecycleAssumption
    DEF At, Goto, object, disk, ctrd, mons, chans, Walk, Outside, StopSteps, TypeOK, CallType,
        EventType, Procs
<1>2. CASE StartContainer(t)
  BY <1>2, Zenon DEF StartContainer
<1>3. CASE StopContainer(t)
  BY <1>3, Zenon DEF StopContainer
<1>4. CASE RemoveContainer(t)
  BY <1>4, Zenon DEF RemoveContainer
<1>5. CASE StopCtxDone(t)
  BY <1>5, Zenon DEF StopCtxDone, StopReturns
<1> QED BY <1>2, <1>3, <1>4, <1>5, Zenon

\* and preserve the control invariant.
LEMMA CallControl ==
    ASSUME Consistent, NEW t \in Threads,
           StartContainer(t) \/ StopContainer(t) \/ RemoveContainer(t) \/ StopCtxDone(t)
    PROVE  Control'
<1>1. TypeOK /\ Stopping /\ Gone
  BY Zenon DEF Consistent, Control
<1>2. Seen' /\ (Quiet /\ State(status) = "CREATED" => Quiet')
  <2> USE <1>1, LifecycleAssumption
      DEF At, Goto, object, disk, ctrd, mons, chans, ExitSteps, Acting, TypeOK, CallType, EventType,
          Procs, Seen, Stopping, Gone, Quiet, ExitQueued
  <2>1. CASE StartContainer(t)
    BY <2>1, Zenon DEF StartContainer
  <2>2. CASE StopContainer(t)
    BY <2>2, Zenon DEF StopContainer
  <2>3. CASE RemoveContainer(t)
    BY <2>3, Zenon DEF RemoveContainer
  <2>4. CASE StopCtxDone(t)
    BY <2>4, Zenon DEF StopCtxDone, StopReturns
  <2> QED BY <2>1, <2>2, <2>3, <2>4, Zenon
<1> QED BY <1>2, CallWalks, WalkControl, Zenon

\* They leave the exit monitors alone.
LEMMA CallUnheard ==
    ASSUME Inductive, NEW t \in Threads,
           StartContainer(t) \/ StopContainer(t) \/ RemoveContainer(t) \/ StopCtxDone(t)
    PROVE  Unheard
<1>1. TypeOK /\ Listening
  BY Zenon DEF Inductive, Consistent
<1> USE <1>1, LifecycleAssumption
    DEF At, Goto, StopReturns, Unheard, NoneHears, Listening, TypeOK, CallType, EventType, Procs, mons
<1>2. CASE StartContainer(t)
  BY <1>2, Zenon DEF StartContainer
<1>3. CASE StopContainer(t)
  BY <1>3, Zenon DEF StopContainer
<1>4. CASE RemoveContainer(t)
  BY <1>4, Zenon DEF RemoveContainer
<1>5. CASE StopCtxDone(t)
  BY <1>5, Zenon DEF StopCtxDone
<1> QED BY <1>2, <1>3, <1>4, <1>5, Zenon

\* RemoveContainer first reads the state, outside of its critical section.
LEMMA RemoveWalks ==
    ASSUME Consistent, NEW t \in Threads, RemoveReadState(t)
    PROVE  /\ Walk(t) /\ Control'
           /\ Listening => Unheard
<1>1. TypeOK /\ Stopping /\ Gone
  BY Zenon DEF Consistent, Control
<1> USE <1>1, LifecycleAssumption
    DEF At, Goto, object, disk, ctrd, mons, chans, rpc, RemoveReadState, TypeOK, CallType, Procs
<1>2. Walk(t)
  BY Zenon DEF Walk, Outside, StopSteps
<1>3. Seen' /\ (Quiet => Quiet')
  BY Zenon DEF Seen, Stopping, Gone, Quiet, ExitQueued, ExitSteps
<1>4. Listening => Unheard
  BY Zenon DEF Unheard, NoneHears, Listening, EventType
<1> QED BY <1>2, <1>3, <1>4, WalkControl, Zenon

-----------------------------------------------------------------------------
(* CreateContainer *)

\* What a step of CreateContainer does to what others can see: nothing, until the container is in
\* the store, CREATED and with IO.
Creates(t) ==
    /\ up /\ up' /\ pc[t] \in CreateSteps /\ pc'[t] \in CreateSteps \cup {"idle"}
    /\ pc' = [pc EXCEPT ![t] = pc'[t]]
    /\ UNCHANGED <<stopCh, task, exitCh, backOff, batch, monitor, waits>>
    /\ \/ status' = status
       \/ /\ State(status') = "CREATED" /\ status'.exit = "none"
          /\ ~status'.starting /\ ~status'.removing
    /\ inStore' => \/ inStore
                   \/ pc[t] = "storeAdd" /\ pc'[t] = "idle" /\ status' = status /\ io' = io
    /\ pc'[t] = "storeAdd" => pc[t] = "storeStatus" /\ State(status') = "CREATED" /\ io' = io
    /\ pc'[t] = "storeStatus" => io' = "open"
    /\ \A u \in Threads : seen'[u] \in {seen[u], "none"}

\* Every step of CreateContainer, its defers included, is such a step,
LEMMA CreateEffect ==
    ASSUME Consistent, NEW t \in Threads, CreateStep(t)
    PROVE  Creates(t)
<1>1. TypeOK /\ CreateAlone
  BY Zenon DEF Consistent, Control
<1> USE <1>1, LifecycleAssumption
    DEF At, Goto, Return, object, disk, ctrd, mons, chans, rpc, CreateSteps, TypeOK, CallType,
        Procs
<1>2. CASE MkdirRoot(t)
  BY <1>2, Zenon DEF Creates, MkdirRoot
<1>3. CASE MkdirVolatile(t)
  BY <1>3, Zenon DEF Creates, MkdirVolatile
<1>4. CASE NewContainerdContainer(t)
  BY <1>4, Zenon DEF Creates, NewContainerdContainer
<1>5. CASE NewContainer(t)
  <2>1. \/ status' = status /\ pc' = [pc EXCEPT ![t] = "undoContainer"]
        \/ /\ pc' = [pc EXCEPT ![t] = "storeAdd"] /\ State(status') = "CREATED"
           /\ ~status'.starting /\ ~status'.removing /\ status'.exit = "none"
    BY <1>5, NewContainerEffect, Zenon
  <2> QED BY <1>5, <2>1, Zenon DEF Creates, NewContainer
<1>6. CASE StoreAdd(t)
  BY <1>6 DEF Creates, StoreAdd
<1>7. CASE UndoCreate(t)
  BY <1>7, Zenon DEF Creates, UndoCreate
<1> QED BY <1>2, <1>3, <1>4, <1>5, <1>6, <1>7, Zenon DEF CreateStep

\* preserves the control invariant,
LEMMA CreateControl ==
    ASSUME Consistent, NEW t \in Threads, CreateStep(t)
    PROVE  Control'
<1>1. /\ TypeOK /\ Phases /\ CreateAlone /\ Handles /\ Stopping /\ Locks /\ LoopHolds
      /\ ExitTracked /\ NotStartedYet /\ Gone /\ Removal /\ IOSet
  BY Zenon DEF Consistent, Control
<1>2. Creates(t)
  BY CreateEffect, Zenon
<1>3. Quiet /\ \A p \in Procs \ {t} : pc'[p] = "idle"
  BY <1>1, <1>2 DEF CreateAlone, Creates, TypeOK, CallType
<1>4. Quiet'
  BY <1>1, <1>2, <1>3, LifecycleAssumption, ZenonT(60)
  DEF Creates, Quiet, ExitQueued, Acting, ExitSteps, CreateSteps, TypeOK, CallType, Procs
<1> USE <1>1, <1>2, <1>3, <1>4, LifecycleAssumption
    DEF Creates, Procs, CreateSteps, StartSteps, RemoveSteps, ExitSteps, RecoverSteps
<1>5. Phases' /\ CreateAlone' /\ Handles' /\ Stopping' /\ Locks'
  BY SMTT(60) DEF Phases, CreateAlone, Handles, Stopping, Locks, StartRemoveExclusion, TypeOK, CallType
<1>6. LoopHolds' /\ ExitTracked' /\ NotStartedYet' /\ Gone'
  BY DEF Phases, CreateAlone, LoopHolds, ExitTracked, NotStartedYet, NotStarted, Gone, TypeOK,
      CallType
<1>7. Removal' /\ IOSet'
  BY Zenon DEF Phases, CreateAlone, Removal, RemovedLeavesNothing, IOSet, TypeOK, CallType
<1> QED BY <1>5, <1>6, <1>7, Zenon DEF Control

\* and reports the container only when its status is stored.
LEMMA CreateServed ==
    ASSUME Inductive, NEW t \in Threads, CreateStep(t)
    PROVE  Served /\ Unheard
<1>1. TypeOK /\ Phases /\ CreateAlone /\ Settled /\ Recorded /\ Listening /\ Creates(t)
  BY CreateEffect, Zenon DEF Inductive, Consistent, Control
<1>2. pc[t] \in CreateSteps /\ status.exit = "none" /\ ~inStore /\ ~status.removing /\ ~status.started
  BY <1>1, Zenon DEF CreateAlone, Creates, Recorded
<1>3. Records /\ ~status'.started
  <2> USE <1>2 DEF Records, disk
  <2>1. CASE MkdirRoot(t)
    BY <2>1, Zenon DEF MkdirRoot, object
  <2>2. CASE MkdirVolatile(t)
    BY <2>2, Zenon DEF MkdirVolatile, object
  <2>3. CASE NewContainerdContainer(t)
    BY <2>3, Zenon DEF NewContainerdContainer
  <2>4. CASE NewContainer(t)
    BY <2>4, Zenon DEF NewContainer, UpdateSync, UpdateSyncFails, ZeroStatus
  <2>5. CASE StoreAdd(t)
    BY <2>5, Zenon DEF StoreAdd
  <2>6. CASE UndoCreate(t)
    BY <2>6, Zenon DEF UndoCreate, DeleteStatus, DeleteStatusFails, RemoveRoot, RemoveRootFails
  <2> QED BY <2>1, <2>2, <2>3, <2>4, <2>5, <2>6, Zenon DEF CreateStep
<1>4. Moves
  BY <1>1, <1>2, Zenon DEF CreateAlone, Creates, Moves
<1>5. Settled'
  BY <1>1, <1>2, LifecycleAssumption, Zenon
  DEF CreateAlone, Creates, Settled, CreateSteps, TypeOK, CallType, Procs
<1>6. Unheard
  BY <1>1 DEF Unheard, NoneHears, Listening, Creates, CreateSteps, TypeOK, CallType, Procs
<1> QED BY <1>1, <1>2, <1>3, <1>4, <1>5, <1>6, Zenon
        DEF Served, Creates, CreateAlone, CreateSteps, TypeOK, CallType, Procs

-----------------------------------------------------------------------------
(* StartContainer *)

\* A step of StartContainer takes the starting lock of a CREATED container from nobody, gives it
\* back, or holds it.
TakesStart(t) ==
    /\ pc[t] = "setStarting" /\ UNCHANGED <<ckpt, task, monitor>>
    /\ \/ pc'[t] = "idle" /\ status' = status
       \/ /\ pc'[t] = "getSandbox" /\ ~status.starting /\ ~status.removing /\ status'.starting
          /\ State(status) = "CREATED" /\ State(status') = "CREATED" /\ status'.exit = status.exit

GivesStart(t) ==
    /\ pc[t] = "resetStarting" /\ pc'[t] = "idle" /\ ~status'.starting
    /\ State(status') = State(status) /\ status'.exit = status.exit /\ UNCHANGED <<ckpt, task, monitor>>

HoldsStart(t) ==
    /\ status'.starting = status.starting
    /\ \/ /\ pc[t] \in NotStarted /\ pc'[t] \in NotStarted \ {"getSandbox"}
          /\ UNCHANGED <<status, monitor>>
       \/ /\ pc[t] = "recordStart" /\ pc'[t] = "startMonitor" /\ UNCHANGED <<task, monitor>>
          /\ State(status') \in {State(status), "RUNNING"} /\ State(status') # "CREATED"
       \/ /\ pc[t] = "undoStart" /\ pc'[t] = "resetStarting" /\ UNCHANGED <<task, monitor>>
          /\ \/ status' = status
             \/ status'.exit = "error" /\ State(status') \in {"EXITED", "UNKNOWN"}
       \/ /\ pc[t] = "startMonitor" /\ pc'[t] = "resetStarting" /\ UNCHANGED <<status, task>>
          /\ monitor' = [monitor EXCEPT ![Loop] = "waiting"]

Starts(t) ==
    /\ up /\ up' /\ \A p \in Procs : p # t => pc'[p] = pc[p]
    /\ UNCHANGED <<inStore, stopCh, rootDir, stateDir, cntrd, waits, exitCh, backOff, batch>>
    /\ status'.removing = status.removing
    /\ io' = "nil" => io = "nil"
    /\ TakesStart(t) \/ GivesStart(t) \/ HoldsStart(t)
    /\ \A u \in Threads : /\ seen'[u] \in {seen[u], "none"} /\ (ok'[u] => ok[u])
                          /\ u # t => seen'[u] = seen[u]

\* Every step of StartContainer, its defers included, is such a step,
LEMMA StartEffect ==
    ASSUME Consistent, NEW t \in Threads, StartStep(t)
    PROVE  Starts(t)
<1>1. TypeOK /\ NotStartedYet
  BY Zenon DEF Consistent, Control
<1>2. StatusType
  BY <1>1, Zenon DEF TypeOK
<1>3. setContainerStarting(t) =>
        /\ State(status') = State(status) /\ status'.exit = status.exit
        /\ status'.removing = status.removing
        /\ \/ status' = status /\ pc' = [pc EXCEPT ![t] = "idle"]
           \/ /\ pc' = [pc EXCEPT ![t] = "getSandbox"] /\ State(status) = "CREATED"
              /\ ~status.starting /\ ~status.removing /\ status'.starting
  BY <1>2, SetStartingEffect, Zenon
<1>4. StartRecord(t) =>
        /\ status'.starting = status.starting /\ status'.removing = status.removing
        /\ \/ status' = status /\ pc' = [pc EXCEPT ![t] = "undoTask"]
           \/ /\ pc' = [pc EXCEPT ![t] = "startMonitor"]
              /\ State(status') \in {State(status), "RUNNING"} /\ State(status') # "CREATED"
  BY <1>2, RecordEffect, Zenon
<1>5. StartUndoStatus(t) =>
        /\ status'.starting = status.starting /\ status'.removing = status.removing
        /\ \/ status' = status
           \/ status'.exit = "error" /\ State(status') \in {"EXITED", "UNKNOWN"}
  BY <1>2, UndoStatusEffect, Zenon
<1>6. resetContainerStarting(t) =>
        /\ State(status') = State(status) /\ status'.exit = status.exit
        /\ status'.removing = status.removing /\ ~status'.starting
  BY <1>2, ResetStartingEffect, Zenon
<1> USE <1>1, LifecycleAssumption
    DEF At, Goto, object, disk, ctrd, mons, chans, rpc, NotStarted, TypeOK, CallType, Procs,
        Starts, TakesStart, GivesStart, HoldsStart
<1>7. CASE setContainerStarting(t)
  BY <1>7, <1>3, Zenon DEF setContainerStarting, Return
<1>8. CASE StartSandboxCheck(t)
  BY <1>8, Zenon DEF StartSandboxCheck
<1>9. CASE StartNewTask(t)
  BY <1>9, Zenon DEF StartNewTask
<1>10. CASE StartTask(t)
  BY <1>10, Zenon DEF StartTask
<1>11. CASE StartRecord(t)
  BY <1>11, <1>4, Zenon DEF StartRecord
<1>12. CASE StartMonitor(t)
  BY <1>12, Zenon DEF StartMonitor
<1>13. CASE StartUndoTask(t)
  BY <1>13, Zenon DEF StartUndoTask, TaskDelete, TaskDeleteFails
<1>14. CASE StartUndoStatus(t)
  BY <1>14, <1>5, Zenon DEF StartUndoStatus
<1>15. CASE resetContainerStarting(t)
  BY <1>15, <1>6, Zenon DEF resetContainerStarting, Return
<1> QED BY <1>7, <1>8, <1>9, <1>10, <1>11, <1>12, <1>13, <1>14, <1>15, Zenon DEF StartStep

\* preserves the control invariant,
LEMMA StartControl ==
    ASSUME Consistent, NEW t \in Threads, StartStep(t)
    PROVE  Control'
<1>1. /\ TypeOK /\ Phases /\ CreateAlone /\ Handles /\ Stopping /\ Locks /\ LoopHolds
      /\ ExitTracked /\ NotStartedYet /\ Gone /\ Removal /\ IOSet
  BY Zenon DEF Consistent, Control
<1>3. Starts(t)
  BY StartEffect, Zenon
<1>4. /\ up /\ up' /\ \A p \in Procs : p # t => pc'[p] = pc[p]
      /\ pc[t] \in StartSteps \cup {"setStarting"} /\ pc'[t] \in StartSteps \cup {"idle"}
      /\ \A u \in Threads : u \in Procs /\ u # Loop
      /\ t \in Procs /\ Loop \in Procs /\ t # Loop
  BY <1>1, <1>3, LifecycleAssumption, Zenon
  DEF Starts, TakesStart, GivesStart, HoldsStart, NotStarted, StartSteps, TypeOK, CallType, Procs
<1>5. /\ UNCHANGED <<inStore, stopCh, rootDir, stateDir, cntrd, waits, exitCh, backOff, batch>>
      /\ status'.removing = status.removing /\ (io' = "nil" => io = "nil")
      /\ \A u \in Threads : /\ seen'[u] \in {seen[u], "none"} /\ (ok'[u] => ok[u])
                            /\ u # t => seen'[u] = seen[u]
  BY <1>3, Zenon DEF Starts
<1>6. TakesStart(t) \/ GivesStart(t) \/ HoldsStart(t)
  BY <1>3, Zenon DEF Starts
<1>7. pc[t] \notin CreateSteps \cup {"idle"} \cup ExitSteps \cup RecoverSteps \cup RemoveSteps
      /\ pc'[t] \notin CreateSteps \cup ExitSteps \cup RecoverSteps \cup RemoveSteps
  BY <1>4, Zenon DEF StartSteps, CreateSteps, ExitSteps, RecoverSteps, RemoveSteps
<1>8. pc[t] \in StartSteps => /\ status.starting /\ inStore /\ ~status.removing
                              /\ \A u \in Threads : u # t => pc[u] \notin StartSteps \cup RemoveSteps
  BY <1>1, Zenon DEF Locks, StartRemoveExclusion
<1>9. UNCHANGED monitor \/ State(status) # "CREATED"
  BY <1>1, <1>6, Zenon DEF TakesStart, GivesStart, HoldsStart, NotStartedYet
<1>10. Quiet /\ State(status) = "CREATED" => Quiet'
  BY <1>4, <1>5, <1>7, <1>9, Zenon DEF Quiet, ExitQueued, Acting
<1>11. Phases'
  BY <1>1, <1>4, <1>7, Zenon DEF Phases, ExitSteps, RecoverSteps
<1>12. CreateAlone'
  BY <1>1, <1>4, <1>7, Zenon DEF CreateAlone
<1>13. Handles' /\ Stopping'
  BY <1>1, <1>4, <1>5, <1>7, Zenon DEF Handles, Stopping, StartSteps
<1>14. Locks'
  <2>1. CASE TakesStart(t)
    <3>1. inStore \/ status.removing
      BY <1>1, <1>4, <1>7, Zenon DEF Handles
    <3>2. ~status.starting => \A u \in Threads : pc[u] \notin StartSteps
      BY <1>1, Zenon DEF Locks
    <3>3. ~status.removing => \A u \in Threads : pc[u] \notin RemoveSteps
      BY <1>1, Zenon DEF Locks
    <3>4. CASE pc'[t] = "idle" /\ status' = status
      BY <1>1, <1>4, <1>5, <3>4, SMTT(60) DEF Locks, StartRemoveExclusion, StartSteps, RemoveSteps
    <3>5. CASE ~status.starting /\ ~status.removing /\ status'.starting
      BY <1>4, <1>5, <1>7, <3>1, <3>2, <3>3, <3>5, SMTT(60) DEF Locks, StartRemoveExclusion
    <3> QED BY <2>1, <3>4, <3>5, Zenon DEF TakesStart
  <2>2. CASE GivesStart(t)
    <3>1. pc[t] \in StartSteps /\ pc'[t] \notin StartSteps /\ ~status'.starting
      BY <2>2, Zenon DEF GivesStart, StartSteps
    <3> QED BY <1>4, <1>5, <1>7, <1>8, <3>1, Zenon DEF Locks, StartRemoveExclusion
  <2>3. CASE HoldsStart(t)
    <3>1. pc[t] \in StartSteps /\ status'.starting = status.starting
      BY <2>3, Zenon DEF HoldsStart, StartSteps, NotStarted
    <3> QED BY <1>4, <1>5, <1>7, <1>8, <3>1, Zenon DEF Locks, StartRemoveExclusion
  <2> QED BY <1>6, <2>1, <2>2, <2>3, Zenon
<1>15. LoopHolds'
  BY <1>1, <1>4, <1>5, Zenon DEF LoopHolds
<1>16. /\ pc[t] \in NotStarted => State(status) = "CREATED"
       /\ pc[t] = "startMonitor" => State(status) # "CREATED"
       /\ State(status) = "CREATED" => Quiet
  BY <1>1, Zenon DEF NotStartedYet
<1>17. NotStartedYet'
  <2>1. State(status') = "CREATED" => State(status) = "CREATED"
    BY <1>6, Zenon DEF TakesStart, GivesStart, HoldsStart
  <2>2. /\ pc'[t] \in NotStarted => State(status') = "CREATED"
        /\ pc'[t] = "startMonitor" => State(status') # "CREATED"
    BY <1>6, <1>16, Zenon DEF TakesStart, GivesStart, HoldsStart, NotStarted
  <2>3. ASSUME NEW u \in Threads, u # t, pc[u] \in StartSteps PROVE State(status') = State(status)
    <3>1. pc[t] \notin StartSteps
      BY <1>8, <2>3, Zenon
    <3> QED BY <1>6, <3>1, Zenon DEF TakesStart, GivesStart, HoldsStart, StartSteps, NotStarted
  <2>4. \A u \in Threads : u # t =>
          /\ pc'[u] \in NotStarted => State(status') = "CREATED"
          /\ pc'[u] = "startMonitor" => State(status') # "CREATED"
    BY <1>1, <1>4, <2>3, Zenon DEF NotStartedYet, NotStarted, StartSteps
  <2> QED BY <1>10, <1>16, <2>1, <2>2, <2>4, Zenon DEF NotStartedYet
<1>18. ExitTracked'
  <2>1. State(status') = "RUNNING" => pc'[t] = "startMonitor" \/ monitor'[Loop] # "off"
                                      \/ (State(status) = "RUNNING" /\ UNCHANGED monitor)
    <3>1. CASE pc[t] = "startMonitor" /\ monitor' = [monitor EXCEPT ![Loop] = "waiting"]
      BY <1>1, <1>4, <3>1, Zenon DEF TypeOK, EventType
    <3>2. CASE ~(pc[t] = "startMonitor" /\ monitor' = [monitor EXCEPT ![Loop] = "waiting"])
      BY <1>6, <3>2, Zenon DEF TakesStart, GivesStart, HoldsStart
    <3> QED BY <3>1, <3>2, Zenon
  <2>2. pc[t] = "startMonitor" => monitor'[Loop] # "off"
    BY <1>1, <1>4, <1>6, Zenon DEF TakesStart, GivesStart, HoldsStart, NotStarted, TypeOK, EventType
  <2>3. pc'[Loop] # "storeLoaded"
    BY <1>1, <1>4, Zenon DEF Phases, ExitSteps
  <2>4. \A p \in Procs : pc'[p] = "exitStop" => pc[p] = "exitStop"
    BY <1>4, <1>7, Zenon DEF ExitSteps
  <2>5. status.exit # "none" => status'.exit # "none" \/ State(status) = "CREATED"
    BY <1>6, <1>16, Zenon DEF TakesStart, GivesStart, HoldsStart, NotStarted
  <2>6. State(status) = "CREATED" => \A p \in Procs : pc[p] # "exitStop"
    BY <1>16, Zenon DEF Quiet, ExitSteps
  <2> QED BY <1>1, <1>4, <1>5, <2>1, <2>2, <2>3, <2>4, <2>5, <2>6, SMTT(60) DEF ExitTracked, ExitQueued
<1>19. Gone'
  <2>1. task' = task \/ State(status) = "CREATED"
    BY <1>6, <1>16, Zenon DEF TakesStart, GivesStart, HoldsStart
  <2>2. State(status) = "CREATED" => ~stopCh /\ (\A p \in Procs : pc[p] \notin ExitSteps)
                                     /\ \A u \in Threads : seen[u] \notin Acting
    BY <1>16, Zenon DEF Quiet
  <2>3. State(status') = "EXITED" /\ status'.exit # "error" => State(status) = "EXITED" /\ status.exit # "error"
    BY <1>6, <1>16, Zenon DEF TakesStart, GivesStart, HoldsStart, NotStarted
  <2>4. pc'[t] \notin {"exitUpdate", "exitStop", "exitCancel", "waitCancel", "stopped"} /\ pc'[Loop] # "storeLoaded"
    BY <1>1, <1>4, <1>7, Zenon DEF StartSteps, Phases, ExitSteps
  <2> QED BY <1>1, <1>4, <1>5, <2>1, <2>2, <2>3, <2>4, SMTT(60) DEF Gone, ExitSteps, Acting
<1>20. Removal'
  <2>1. \A u \in Threads : pc'[u] \in RemoveSteps => pc[t] \notin StartSteps /\ u # t
    BY <1>4, <1>7, <1>8, Zenon
  <2>2. pc[t] \notin StartSteps \/ inStore
    BY <1>8, Zenon
  <2>3. pc[t] \notin StartSteps => /\ UNCHANGED <<ckpt, task, monitor>>
                                  /\ State(status') = State(status) /\ status'.exit = status.exit
    BY <1>6, Zenon DEF TakesStart, GivesStart, HoldsStart, StartSteps, NotStarted
  <2> QED BY <1>1, <1>4, <1>5, <1>7, <2>1, <2>2, <2>3, SMTT(60) DEF Removal, RemovedLeavesNothing, RemoveSteps
<1>21. IOSet'
  <2>1. State(status') \in {"CREATED", "RUNNING"} => State(status) \in {"CREATED", "RUNNING"}
    BY <1>6, <1>16, Zenon DEF TakesStart, GivesStart, HoldsStart, NotStarted
  <2> QED BY <1>1, <1>4, <1>5, <2>1, Zenon DEF IOSet, Phases, ExitSteps
<1> QED BY <1>11, <1>12, <1>13, <1>14, <1>15, <1>17, <1>18, <1>19, <1>20, <1>21, Zenon DEF Control

\* and takes a CREATED container to RUNNING, or to EXITED when it fails.
LEMMA StartServed ==
    ASSUME Inductive, NEW t \in Threads, StartStep(t)
    PROVE  Served /\ Unheard
<1>1. /\ TypeOK /\ CreateAlone /\ Locks /\ Handles /\ NotStartedYet /\ Settled /\ Listening
      /\ Starts(t)
      /\ StatusType /\ \A u \in Threads : pc[u] \in CreateSteps => ~status.started
  BY StartEffect, Zenon DEF Inductive, Consistent, Control, TypeOK, Recorded
<1>2. State(status) = "CREATED" => status.exit = "none"
  BY <1>1, StateExit, Zenon DEF StatusType
<1>3. Records /\ (StartUndoStatus(t) => status' = status \/ State(status') = "EXITED")
  <2>1. /\ setContainerStarting(t) => encode(status') = encode(status)
        /\ resetContainerStarting(t) => encode(status') = encode(status)
    <3>1. StatusType
      BY <1>1, Zenon
    <3>2. setContainerStarting(t) => encode(status') = encode(status)
      BY <3>1, FlagsNotEncoded, Zenon DEF setContainerStarting, Update, StatusType
    <3>3. resetContainerStarting(t) => encode(status') = encode(status)
      BY <3>1, FlagsNotEncoded, Zenon DEF resetContainerStarting, Update, StatusType
    <3> QED BY <3>2, <3>3, Zenon
  <2>2. StartUndoStatus(t) => State(status) = "CREATED"
    BY <1>1, Zenon DEF StartUndoStatus, At, NotStartedYet, NotStarted
  <2>3. StartUndoStatus(t) => status' = status \/ State(status') = "EXITED"
    BY <1>1, <2>2, UndoStatusEffect, Zenon
  <2>4. status.exit # "none" => status'.exit = status.exit
    BY <1>1, <1>2, Zenon DEF Starts, TakesStart, GivesStart, HoldsStart, NotStartedYet, NotStarted
  <2> USE <2>3, <2>4 DEF Records, disk
  <2>5. CASE setContainerStarting(t) \/ resetContainerStarting(t)
    BY <2>1, <2>5, Zenon DEF setContainerStarting, resetContainerStarting
  <2>6. CASE StartSandboxCheck(t) \/ StartNewTask(t) \/ StartTask(t)
    BY <2>6, Zenon DEF StartSandboxCheck, StartNewTask, StartTask, object
  <2>7. CASE StartMonitor(t) \/ StartUndoTask(t)
    BY <2>7, Zenon DEF StartMonitor, StartUndoTask, object
  <2>8. CASE StartRecord(t) \/ StartUndoStatus(t)
    <3>1. inStore
      BY <1>1, <2>8, Zenon DEF StartRecord, StartUndoStatus, At, Locks, StartSteps
    <3> QED BY <2>8, <3>1, Zenon DEF StartRecord, StartUndoStatus, UpdateSync, UpdateSyncFails
  <2> HIDE DEF Records
  <2> QED BY <2>3, <2>5, <2>6, <2>7, <2>8, Zenon DEF StartStep
<1>4. /\ pc'[t] \notin CreateSteps \cup RemoveSteps /\ pc[t] \notin CreateSteps \cup {"idle"}
      /\ inStore \/ status.removing
      /\ \A p \in Procs : p # t => pc'[p] = pc[p]
  BY <1>1, LifecycleAssumption, Zenon
  DEF Starts, TakesStart, GivesStart, HoldsStart, NotStarted, CreateSteps, RemoveSteps, Handles,
      TypeOK, CallType, Procs
<1>5. /\ State(status') = State(status) \/ (inStore /\ State(status) = "CREATED" /\ State(status') = "RUNNING")
      \/ (inStore /\ State(status) = "CREATED" /\ State(status') = "EXITED")
  <2>1. CASE pc[t] = "undoStart"
    BY <1>1, <1>3, <2>1, Zenon
    DEF StartStep, setContainerStarting, StartSandboxCheck, StartNewTask, StartTask, StartRecord,
        StartMonitor, StartUndoTask, resetContainerStarting, At, NotStartedYet, NotStarted, Locks,
        StartSteps
  <2>2. CASE pc[t] # "undoStart"
    BY <1>1, <2>2, Zenon
    DEF Starts, TakesStart, GivesStart, HoldsStart, NotStartedYet, NotStarted, Locks, StartSteps
  <2> QED BY <2>1, <2>2, Zenon
<1>6. Moves
  BY <1>1, <1>5, Zenon DEF Moves, Starts
<1>7. Settled'
  BY <1>1, <1>4, LifecycleAssumption, Zenon DEF Settled, Starts, Procs
<1>8. Unheard
  <2>1. waits' = waits /\ pc'[t] # "waitCancel" /\ Loop \in Procs /\ \A u \in Threads : u \in Procs /\ u # Loop
    BY <1>1, LifecycleAssumption, Zenon DEF Starts, TakesStart, GivesStart, HoldsStart, NotStarted, Procs
  <2>2. monitor' = monitor \/ monitor' = [monitor EXCEPT ![Loop] = "waiting"]
    BY <1>1, Zenon DEF Starts, TakesStart, GivesStart, HoldsStart
  <2>3. /\ \A u \in Threads : monitor'[u] = monitor[u]
        /\ NoneHears
    BY <1>1, <2>1, <2>2, Zenon DEF NoneHears, TypeOK, EventType
  <2> QED BY <1>1, <1>4, <2>1, <2>3, Zenon DEF Unheard, Listening
<1>9. task' # "none" => task # "none" \/ inStore
  BY <1>1, Zenon DEF Starts, TakesStart, GivesStart, HoldsStart, Locks, NotStarted, StartSteps
<1>10. \A u \in Threads : pc[u] \notin CreateSteps /\ pc'[u] \notin CreateSteps
  BY <1>1, <1>4, LifecycleAssumption, Zenon DEF CreateAlone, CreateSteps, Procs
<1> QED BY <1>1, <1>3, <1>6, <1>7, <1>8, <1>9, <1>10, Zenon DEF Served, Starts

-----------------------------------------------------------------------------
(* RemoveContainer *)

\* A step of RemoveContainer holds the removing lock, takes it from nobody, or gives it back.
Removes(t) ==
    /\ up /\ up' /\ \A p \in Procs : p # t => pc'[p] = pc[p]
    /\ UNCHANGED <<stopCh, io, task, exitCh, backOff, batch, monitor, waits>>
    /\ State(status') = State(status) /\ status'.exit = status.exit
    /\ status'.starting = status.starting
    /\ \/ /\ pc[t] = "setRemoving" /\ pc'[t] = "idle"
          /\ UNCHANGED <<status, inStore, ckpt, rootDir, stateDir, cntrd>>
       \/ /\ pc[t] = "setRemoving" /\ pc'[t] = "deleteContainer"
          /\ ~status.starting /\ ~status.removing /\ status'.removing
          /\ UNCHANGED <<inStore, ckpt, rootDir, stateDir, cntrd>>
       \/ /\ pc[t] \in RemoveSteps /\ pc'[t] \in RemoveSteps \ {"deleteContainer"}
          /\ UNCHANGED <<status, inStore>>
       \/ /\ pc[t] = "storeDelete" /\ pc'[t] = "idle" /\ ~inStore'
          /\ UNCHANGED <<status, ckpt, rootDir, stateDir, cntrd>>
       \/ /\ pc[t] = "resetRemoving" /\ pc'[t] = "idle" /\ ~status'.removing
          /\ UNCHANGED <<inStore, ckpt, rootDir, stateDir, cntrd>>
    /\ \A u \in Threads : /\ seen'[u] \in {seen[u], "none"} /\ (ok'[u] => ok[u])
                          /\ u # t => seen'[u] = seen[u]

\* Every later step of RemoveContainer takes, holds or gives back the lock,
LEMMA RemoveEffect ==
    ASSUME Consistent, NEW t \in Threads, RemoveStep(t), ~RemoveReadState(t)
    PROVE  Removes(t) /\ Removal'
<1>1. TypeOK /\ Handles /\ Locks /\ Gone /\ Removal
  BY Zenon DEF Consistent, Control
<1>2. StatusType
  BY <1>1, Zenon DEF TypeOK
<1>3. setContainerRemoving(t) =>
        /\ State(status') = State(status) /\ status'.exit = status.exit
        /\ status'.starting = status.starting
        /\ \/ status' = status /\ pc' = [pc EXCEPT ![t] = "idle"]
           \/ /\ pc' = [pc EXCEPT ![t] = "deleteContainer"]
              /\ ~status.starting /\ ~status.removing /\ status'.removing
  BY <1>2, SetRemovingEffect, Zenon
<1>4. resetContainerRemoving(t) =>
        /\ State(status') = State(status) /\ status'.exit = status.exit
        /\ status'.starting = status.starting /\ ~status'.removing
  BY <1>2, ResetRemovingEffect, Zenon
<1> USE <1>1, LifecycleAssumption
    DEF At, Goto, Return, object, disk, ctrd, mons, chans, rpc, RemoveSteps, TypeOK, CallType,
        Procs,
        Removes, Removal, RemovedLeavesNothing, Locks, StartRemoveExclusion
<1>5. CASE setContainerRemoving(t)
  <2>1. CASE pc' = [pc EXCEPT ![t] = "idle"]
    BY <1>5, <1>3, <2>1, Zenon DEF setContainerRemoving
  <2>2. CASE pc' = [pc EXCEPT ![t] = "deleteContainer"]
    <3>1. State(status') \in {"CREATED", "EXITED"}
      BY <1>2, <1>3, <1>5, <2>2, StateExit, Zenon DEF setContainerRemoving, CanRemove, StatusType, States
    <3> QED BY <1>5, <1>3, <2>2, <3>1, ZenonT(60) DEF setContainerRemoving, Handles, CreateSteps
  <2> QED BY <1>5, <1>3, <2>1, <2>2, Zenon
<1>6. CASE RemoveContainerdContainer(t)
  <2>1. task # "none" => status.exit \in {"none", "error"}
    BY <1>2, <1>6, StateExit, Zenon DEF RemoveContainerdContainer, Gone, StatusType
  <2> QED BY <1>6, <2>1 DEF RemoveContainerdContainer
<1>7. CASE RemoveCheckpoint(t)
  BY <1>7, Zenon DEF RemoveCheckpoint, DeleteStatus, DeleteStatusFails
<1>8. CASE RemoveRootDir(t)
  BY <1>8, Zenon DEF RemoveRootDir, RemoveRoot, RemoveRootFails
<1>9. CASE RemoveVolatileDir(t)
  BY <1>9, Zenon DEF RemoveVolatileDir
<1>10. CASE StoreDelete(t)
  BY <1>10, Zenon DEF StoreDelete
<1>11. CASE resetContainerRemoving(t)
  BY <1>11, <1>4, Zenon DEF resetContainerRemoving
<1> QED BY <1>5, <1>6, <1>7, <1>8, <1>9, <1>10, <1>11, Zenon DEF RemoveStep

\* preserves the control invariant,
LEMMA RemoveControl ==
    ASSUME Consistent, NEW t \in Threads, RemoveStep(t), ~RemoveReadState(t)
    PROVE  Control'
<1>1. /\ TypeOK /\ Phases /\ CreateAlone /\ Handles /\ Stopping /\ Locks /\ LoopHolds
      /\ ExitTracked /\ NotStartedYet /\ Gone /\ Removal /\ IOSet
  BY Zenon DEF Consistent, Control
<1>2. Removes(t) /\ Removal'
  BY RemoveEffect, Zenon
<1>3. Quiet => Quiet'
  BY <1>1, <1>2, LifecycleAssumption, Zenon
  DEF Removes, RemoveSteps, Quiet, ExitQueued, Acting, ExitSteps, TypeOK, CallType, Procs
<1>4. /\ up /\ up' /\ (\A p \in Procs : p # t => pc'[p] = pc[p])
      /\ pc[t] \in RemoveSteps \cup {"setRemoving"} /\ pc'[t] \in RemoveSteps \cup {"idle"}
      /\ \A u \in Threads : u \in Procs /\ u # Loop
      /\ t \in Procs /\ Loop \in Procs /\ t # Loop /\ pc[t] \notin CreateSteps \cup {"idle"}
  BY <1>1, <1>2, LifecycleAssumption, Zenon DEF Removes, RemoveSteps, CreateSteps, TypeOK, CallType, Procs
<1>5. /\ (inStore' => inStore) /\ (inStore => inStore' \/ status'.removing)
      /\ State(status') = State(status) /\ status'.exit = status.exit
      /\ (\A u \in Threads : seen'[u] \in {seen[u], "none"} /\ (ok'[u] => ok[u]))
      /\ \A u \in Threads : u # t => seen'[u] = seen[u]
  <2>1. pc[t] = "storeDelete" => status.removing /\ inStore
    BY <1>1, Zenon DEF Locks, RemoveSteps
  <2>2. inStore' = inStore \/ (pc[t] = "storeDelete" /\ ~inStore' /\ status' = status)
    BY <1>2, Zenon DEF Removes
  <2>3. /\ State(status') = State(status) /\ status'.exit = status.exit
        /\ \A u \in Threads : /\ seen'[u] \in {seen[u], "none"} /\ (ok'[u] => ok[u])
                              /\ u # t => seen'[u] = seen[u]
    BY <1>2, Zenon DEF Removes
  <2> QED BY <2>1, <2>2, <2>3
<1>6. UNCHANGED <<stopCh, io, task, exitCh, backOff, batch, monitor, waits>>
  BY <1>2, ZenonT(60) DEF Removes
<1>7. Phases' /\ CreateAlone' /\ Stopping'
  BY <1>1, <1>3, <1>4, <1>5, SMTT(60)
  DEF Phases, CreateAlone, Stopping, CreateSteps, RemoveSteps, ExitSteps, RecoverSteps
<1>8. Handles'
  <2>1. CASE pc[t] = "resetRemoving" /\ pc'[t] = "idle" /\ UNCHANGED inStore
    BY <1>1, <1>4, <2>1, Zenon DEF Handles, Locks, RemoveSteps
  <2>2. CASE ~(pc[t] = "resetRemoving" /\ pc'[t] = "idle" /\ UNCHANGED inStore)
    <3>1. status.removing => status'.removing
      BY <1>2, <2>2, Zenon DEF Removes
    <3>2. inStore \/ status.removing
      BY <1>1, <1>4, Zenon DEF Handles
    <3> QED BY <1>5, <3>1, <3>2, Zenon DEF Handles
  <2> QED BY <2>1, <2>2, Zenon
<1>9. Locks'
  <2>1. StartRemoveExclusion /\ (status'.starting <=> status.starting)
        /\ ~(status.starting /\ status.removing)
    BY <1>1, <1>2, Zenon DEF Removes, Locks
  <2>2. CASE pc[t] = "setRemoving" /\ pc'[t] = "idle" /\ UNCHANGED <<status, inStore>>
    BY <1>1, <1>4, <2>2, ZenonT(60) DEF Locks, StartRemoveExclusion, StartSteps, RemoveSteps
  <2>3. CASE /\ pc[t] = "setRemoving" /\ pc'[t] = "deleteContainer" /\ UNCHANGED inStore
             /\ ~status.starting /\ ~status.removing /\ status'.removing
    <3>1. inStore /\ \A u \in Threads : pc[u] \notin StartSteps \cup RemoveSteps
      BY <1>1, <1>4, <2>3, Zenon DEF Locks, Handles
    <3> QED BY <1>4, <2>1, <2>3, <3>1, SMTT(60) DEF Locks, StartRemoveExclusion, StartSteps, RemoveSteps
  <2>4. CASE pc[t] \in RemoveSteps
    <3>1. status.removing /\ inStore /\ \A u \in Threads : u # t => pc'[u] \notin StartSteps \cup RemoveSteps
      BY <1>1, <1>4, <2>4, Zenon DEF Locks, StartRemoveExclusion
    <3>2. pc'[t] \in RemoveSteps => status' = status /\ inStore' = inStore
      BY <1>2, <2>4, Zenon DEF Removes, RemoveSteps
    <3>3. pc'[t] \notin StartSteps /\ ~status'.starting
      BY <1>4, <2>1, <3>1, Zenon DEF StartSteps, RemoveSteps
    <3> QED BY <3>1, <3>2, <3>3, Zenon DEF Locks, StartRemoveExclusion
  <2> QED BY <1>2, <2>2, <2>3, <2>4, Zenon DEF Removes, RemoveSteps
<1>10. LoopHolds' /\ ExitTracked'
  <2>1. pc'[Loop] = pc[Loop] /\ pc[t] \notin {"startMonitor", "exitStop"} /\ pc'[t] # "exitStop"
    BY <1>4, Zenon DEF RemoveSteps
  <2>2. LoopHolds'
    BY <1>1, <1>6, <2>1, ZenonT(60) DEF LoopHolds
  <2> QED BY <1>1, <1>4, <1>5, <1>6, <2>1, <2>2, Zenon DEF ExitTracked, ExitQueued
<1>11. NotStartedYet'
  BY <1>1, <1>3, <1>4, <1>5, SMTT(60) DEF NotStartedYet, NotStarted, RemoveSteps
<1>12. Gone'
  BY <1>1, <1>4, <1>5, <1>6, Zenon DEF Phases, Gone, Acting, RemoveSteps, RecoverSteps, ExitSteps
<1>13. IOSet'
  BY <1>1, <1>4, <1>5, <1>6, Zenon DEF Phases, IOSet, RecoverSteps, ExitSteps
<1> QED BY <1>2, <1>7, <1>8, <1>9, <1>10, <1>11, <1>12, <1>13, SMTT(60) DEF Control

\* and reports the container DELETED only when it was CREATED or EXITED and is gone from containerd.
LEMMA RemoveServed ==
    ASSUME Inductive, NEW t \in Threads, RemoveStep(t), ~RemoveReadState(t)
    PROVE  Served /\ Unheard
<1>1. /\ TypeOK /\ CreateAlone /\ Locks /\ Handles /\ Removal /\ Settled /\ Listening /\ Removes(t)
      /\ StatusType /\ \A u \in Threads : pc[u] \in CreateSteps => ~status.started
  BY RemoveEffect, Zenon DEF Inductive, Consistent, Control, TypeOK, Recorded
<1>2. (cntrd' => cntrd) /\ Records
  <2>1. /\ setContainerRemoving(t) => encode(status') = encode(status)
        /\ resetContainerRemoving(t) => encode(status') = encode(status)
    <3>1. StatusType
      BY <1>1, Zenon
    <3>2. setContainerRemoving(t) => encode(status') = encode(status)
      BY <3>1, FlagsNotEncoded, Zenon DEF setContainerRemoving, Update, StatusType
    <3>3. resetContainerRemoving(t) => encode(status') = encode(status)
      BY <3>1, FlagsNotEncoded, Zenon DEF resetContainerRemoving, Update, StatusType
    <3> QED BY <3>2, <3>3, Zenon
  <2>2. status'.exit = status.exit
    BY <1>1, Zenon DEF Removes
  <2> USE <2>2 DEF Records, disk, ctrd, At
  <2>3. CASE setContainerRemoving(t)
    BY <2>1, <2>3, Zenon DEF setContainerRemoving
  <2>4. CASE resetContainerRemoving(t)
    BY <2>1, <2>4, Zenon DEF resetContainerRemoving
  <2>5. CASE RemoveContainerdContainer(t) \/ RemoveVolatileDir(t) \/ StoreDelete(t)
    BY <2>5 DEF RemoveContainerdContainer, RemoveVolatileDir, StoreDelete, object
  <2>6. CASE RemoveCheckpoint(t) \/ RemoveRootDir(t)
    BY <1>1, <2>6
    DEF RemoveCheckpoint, RemoveRootDir, DeleteStatus, DeleteStatusFails, RemoveRoot, RemoveRootFails,
        object, Removal
  <2> HIDE DEF Records
  <2> QED BY <2>3, <2>4, <2>5, <2>6, Zenon DEF RemoveStep
<1>3. /\ pc[t] \notin CreateSteps \cup {"idle"} /\ pc'[t] \notin CreateSteps \cup {"waitCancel"}
      /\ inStore \/ status.removing
      /\ \A p \in Procs : p # t => pc'[p] = pc[p]
      /\ monitor' = monitor /\ waits' = waits /\ up' /\ State(status') = State(status)
  BY <1>1, LifecycleAssumption, Zenon
  DEF Removes, CreateSteps, RemoveSteps, Handles, TypeOK, CallType, Procs
<1>4. Moves
  BY <1>1, <1>3, Zenon DEF Moves, Removes, Locks, Removal, RemoveSteps
<1>5. ~inStore' /\ ~status'.removing => ~inStore /\ ~status.removing
  <2>1. pc[t] \in RemoveSteps => status.removing /\ inStore
    BY <1>1, Zenon DEF Locks
  <2>2. CASE pc[t] \in {"setRemoving", "resetRemoving"}
    BY <1>1, <2>1, <2>2 DEF Removes, RemoveSteps
  <2>3. CASE pc[t] \notin {"setRemoving", "resetRemoving"}
    BY <1>1, <2>1, <2>3, Zenon DEF Removes, RemoveSteps
  <2> QED BY <2>2, <2>3, Zenon
<1>6. Settled'
  BY <1>1, <1>3, <1>5, LifecycleAssumption, Zenon DEF Settled, Removes, Procs
<1>7. Unheard
  BY <1>1, <1>3, Zenon DEF Unheard, NoneHears, Listening, Procs
<1>8. \A u \in Threads : pc[u] \notin CreateSteps /\ pc'[u] \notin CreateSteps
  BY <1>1, <1>3, LifecycleAssumption, Zenon DEF CreateAlone, CreateSteps, Procs
<1> QED BY <1>1, <1>2, <1>4, <1>6, <1>7, <1>8, Zenon DEF Served, Removes

-----------------------------------------------------------------------------
(* The inductive invariant and what follows from it *)

\* When the plugin starts, a first CreateContainer in progress, the invariant holds.
LEMMA InitConsistent == Init => Consistent
<1> SUFFICES ASSUME Init PROVE Consistent
  BY Zenon
<1>1. PICK t \in Threads :
         /\ pc = [p \in Procs |-> IF p = t THEN "mkRoot" ELSE "idle"]
         /\ call = [p \in Threads |-> IF p = t THEN "CreateContainer" ELSE "none"]
  BY Zenon DEF Init
<1>2. ObjectType /\ StatusType /\ DiskType /\ BoundType
  BY StatusConstants, Zenon DEF Init, ObjectType, StatusType, DiskType, BoundType, Tasks
<1>3. EventType
  BY DEF Init, EventType
<1>4. CallType
  BY <1>1, Zenon DEF Init, CallType, Steps, CreateSteps, Calls
<1>5. Quiet
  BY <1>1, EmptyNoExit, Zenon DEF Init, Quiet, ExitQueued, Procs, ExitSteps, Acting
<1>6. Phases /\ LoopHolds /\ ExitTracked /\ NotStartedYet /\ Gone /\ IOSet
  BY <1>1, <1>5, StatusConstants, LifecycleAssumption, Zenon
  DEF Init, Procs, Phases, LoopHolds, ExitTracked, NotStartedYet, Gone, IOSet, NotStarted,
      ExitSteps,
      RecoverSteps
<1>7. CreateAlone
  BY <1>1, <1>5, StatusConstants, LifecycleAssumption, Zenon DEF Init, Procs, CreateAlone, CreateSteps
<1>8. Handles /\ Stopping /\ Locks /\ Removal
  BY <1>1, StatusConstants, LifecycleAssumption, Zenon
  DEF Init, Procs, Handles, Stopping, Locks, StartRemoveExclusion, Removal, RemovedLeavesNothing,
      CreateSteps, StartSteps, RemoveSteps, ExitSteps
<1> QED BY <1>2, <1>3, <1>4, <1>6, <1>7, <1>8, SMTT(60) DEF Consistent, TypeOK, Control

\* A step that changes nothing preserves the invariant.
LEMMA StutterConsistent == Consistent /\ UNCHANGED vars => Consistent'
<1> SUFFICES ASSUME Consistent, UNCHANGED vars PROVE Consistent'
  BY ZenonT(60)
<1> USE DEF Consistent, vars, object, disk, ctrd, mons, chans, rpc, bounds
<1>1. TypeOK'
  BY DEF TypeOK, ObjectType, StatusType, DiskType, EventType, CallType, BoundType
<1>2. Quiet' = Quiet
  BY ZenonT(60) DEF Quiet, ExitQueued
<1>3. Phases' /\ CreateAlone' /\ Handles' /\ Stopping' /\ LoopHolds'
  BY <1>2, SMTT(60) DEF Control, Phases, CreateAlone, Handles, Stopping, LoopHolds
<1>4. Locks' /\ ExitTracked' /\ NotStartedYet' /\ Gone' /\ Removal' /\ IOSet'
  BY <1>2, ZenonT(60) DEF Control, Locks, StartRemoveExclusion, ExitTracked, ExitQueued, NotStartedYet, Gone,
              Removal, RemovedLeavesNothing, IOSet
<1> QED BY <1>1, <1>3, <1>4, Zenon DEF Control

\* Every step of the system preserves the types and the control invariant.
LEMMA NextConsistent ==
    ASSUME Consistent, [Next]_vars
    PROVE  Consistent'
<1>1. ASSUME NEW t \in Threads, Handler(t) PROVE Consistent'
  <2>1. CASE CreateStep(t)
    BY <2>1, CreateType, CreateControl, Zenon DEF Consistent
  <2>2. CASE StartStep(t)
    BY <2>2, StartType, StartControl, SMTT(60) DEF Consistent
  <2>3. CASE StopStep(t)
    BY <2>3, StopType, StopControl, Zenon DEF Consistent
  <2>4. CASE RemoveStep(t)
    BY <2>4, RemoveType, RemoveWalks, RemoveControl, Zenon DEF Consistent
  <2>5. CASE handleContainerExit(t)
    BY <2>5, ExitType, ExitControl, Zenon DEF Consistent, Procs
  <2> QED BY <1>1, <2>1, <2>2, <2>3, <2>4, <2>5, Zenon DEF Handler
<1>2. ASSUME NEW t \in Threads,
             StartContainer(t) \/ StopContainer(t) \/ RemoveContainer(t) \/ StopCtxDone(t)
      PROVE  Consistent'
  BY <1>2, NewCallType, CallControl, Zenon DEF Consistent
<1>3. ASSUME NEW m \in Procs, Monitor(m) PROVE Consistent'
  BY <1>3, MonitorType, MonitorEffect, BackgroundControl, Zenon DEF Consistent
<1>4. CASE EventLoop
  <2>1. CASE handleContainerExit(Loop)
    BY <2>1, ExitType, ExitControl, Zenon DEF Consistent, Procs
  <2>2. CASE LoopReceive \/ LoopExpire
    BY <2>2, LoopType, QueueEffect, BackgroundControl, Zenon DEF Consistent
  <2>3. CASE handleEvent
    BY <2>3, LoopType, DispatchControl, Zenon DEF Consistent
  <2> QED BY <1>4, <2>1, <2>2, <2>3, Zenon DEF EventLoop
<1>5. CASE Recover
  BY <1>5, RecoverType, RecoverControl, Zenon DEF Consistent
<1>6. CASE Environment
  BY <1>6, EnvironmentType, EnvironmentEffect, BackgroundControl, DownControl, ZenonT(60) DEF Consistent, Crash
<1>7. ASSUME NEW t \in Threads, StartPanics(t) PROVE Consistent'
  BY <1>7, DownType, DownControl, Zenon DEF Consistent, StartPanics, TypeOK, BoundType
<1>8. CASE UNCHANGED vars
  BY <1>8, StutterConsistent, Zenon
<1> QED BY <1>1, <1>2, <1>3, <1>4, <1>5, <1>6, <1>7, <1>8, SMTT(60) DEF Next, Terminated

-----------------------------------------------------------------------------
(* What is recorded, and who listens *)

\* Every step is served by the plugin, happens in the background, belongs to recovery, or ends
\* the process.
Kinds ==
    \/ Served /\ Unheard
    \/ Background /\ NoneHears
    \/ Background /\ \E m \in Procs : MonitorReceive(m)
    \/ Restores
    \/ Down

\* Every step of the system is of one of those kinds.
LEMMA NextKinds ==
    ASSUME Inductive, Next
    PROVE  Kinds \/ UNCHANGED vars
<1>1. Consistent /\ TypeOK
  BY Zenon DEF Inductive, Consistent
<1>2. ASSUME NEW t \in Threads, Handler(t) PROVE Served /\ Unheard
  <2>1. CASE CreateStep(t)
    BY <2>1, CreateServed, Zenon
  <2>2. CASE StartStep(t)
    BY <2>2, StartServed, Zenon
  <2>3. CASE StopStep(t)
    BY <1>1, <2>3, StopWalks, WalkServed, StopUnheard, Zenon
  <2>4. CASE RemoveStep(t)
    BY <1>1, <2>4, RemoveWalks, WalkServed, RemoveServed, ZenonT(60) DEF Inductive
  <2>5. CASE handleContainerExit(t)
    BY <2>5, ExitServed, Zenon DEF Procs
  <2> QED BY <1>2, <2>1, <2>2, <2>3, <2>4, <2>5, Zenon DEF Handler
<1>3. ASSUME NEW t \in Threads,
             StartContainer(t) \/ StopContainer(t) \/ RemoveContainer(t) \/ StopCtxDone(t)
      PROVE  Served /\ Unheard
  BY <1>1, <1>3, CallWalks, WalkServed, CallUnheard, Zenon
<1>4. ASSUME NEW m \in Procs, Monitor(m) PROVE Kinds
  BY <1>1, <1>4, MonitorEffect, BackgroundHears, Zenon DEF Monitor, Kinds
<1>5. CASE EventLoop
  <2>1. CASE handleContainerExit(Loop)
    BY <2>1, ExitServed, ZenonT(60) DEF Procs, Kinds
  <2>2. CASE LoopReceive \/ LoopExpire
    BY <1>1, <2>2, QueueEffect, BackgroundHears, Zenon DEF Kinds
  <2>3. CASE handleEvent
    BY <2>3, DispatchServed, Zenon DEF Kinds
  <2> QED BY <1>5, <2>1, <2>2, <2>3, Zenon DEF EventLoop
<1>6. CASE Recover
  BY <1>1, <1>6, RecoverRestores, Zenon DEF Kinds
<1>7. CASE Environment
  BY <1>1, <1>7, EnvironmentEffect, BackgroundHears, Zenon DEF Kinds, Crash
<1>8. ASSUME NEW t \in Threads, StartPanics(t) PROVE Kinds
  BY <1>8, Zenon DEF StartPanics, Kinds
<1> QED BY <1>2, <1>3, <1>4, <1>5, <1>6, <1>7, <1>8, Zenon DEF Next, Terminated, Kinds

\* A step served by the plugin keeps the file what is in memory.
LEMMA ServedRecorded ==
    ASSUME Inductive, Consistent', Served
    PROVE  Recorded'
<1>1. Recorded /\ pc'[Loop] \notin {"loadTask", "storeLoaded"}
  BY Zenon DEF Inductive, Consistent, Control, Phases, Served, ExitSteps
<1>2. CASE ckpt' = {encode(status')}
  BY <1>1, <1>2, Zenon DEF Served, Recorded
<1>3. CASE encode(status') = encode(status) /\ ckpt' \in {ckpt, {}}
  BY <1>1, <1>3, Zenon DEF Served, Moves, Recorded
<1> QED BY <1>2, <1>3, ZenonT(60) DEF Served, Records

\* When the plugin starts, a first CreateContainer in progress, the whole invariant holds.
LEMMA InitInductive == Init => Inductive
<1> SUFFICES ASSUME Init PROVE Inductive
  BY Zenon
<1>1. Consistent
  BY InitConsistent, Zenon
<1>2. PICK t \in Threads : pc = [p \in Procs |-> IF p = t THEN "mkRoot" ELSE "idle"]
  BY Zenon DEF Init
<1>3. Recorded /\ Settled /\ Listening
  BY <1>2, LifecycleAssumption, Zenon
  DEF Init, Recorded, Settled, Listening, ZeroStatus, Procs
<1> QED BY <1>1, <1>3, Zenon DEF Inductive

\* Every step of the system preserves the whole invariant.
LEMMA NextInductive ==
    ASSUME Inductive, [Next]_vars
    PROVE  Inductive'
<1>1. Consistent'
  BY NextConsistent, Zenon DEF Inductive
<1>2. CASE Served /\ Unheard
  BY <1>1, <1>2, ServedRecorded, Zenon DEF Inductive, Served, Unheard
<1>3. CASE Background
  <2>1. Recorded'
    BY <1>3, Zenon DEF Inductive, Background, Recorded
  <2> QED BY <1>1, <1>3, <2>1, BackgroundServed, Zenon DEF Inductive
<1>4. CASE Restores
  BY <1>1, <1>4, RestoresRecorded, Zenon DEF Inductive
<1>5. CASE Down
  BY <1>1, <1>5, DownRecorded, Zenon DEF Inductive
<1>6. CASE UNCHANGED vars
  BY <1>1, <1>6, Zenon
  DEF Inductive, Recorded, Settled, Listening, vars, object, disk, ctrd, mons, chans, rpc
<1> QED BY <1>2, <1>3, <1>4, <1>5, <1>6, NextKinds, Zenon DEF Kinds

\* The inductive invariant holds in every reachable state of the container lifecycle.
THEOREM LifecycleInvariant == Spec => []Inductive
<1>1. Init => Inductive
  BY InitInductive, Zenon
<1>2. Inductive /\ [Next]_vars => Inductive'
  BY NextInductive, Zenon
<1> QED BY <1>1, <1>2, PTL DEF Spec

-----------------------------------------------------------------------------
(* The safety properties *)

\* Every variable keeps its type; the status file holds at most one status, whatever crashes.
THEOREM LifecycleTypeOK == Spec => []TypeOK
<1>1. Inductive => TypeOK
  BY Zenon DEF Inductive, Consistent
<1> QED BY <1>1, LifecycleInvariant, PTL

\* A RUNNING container in the store always has an exit monitor, an exit event on its way to the
\* event loop or in back-off, or a StartContainer about to start the monitor.
THEOREM LifecycleNoLostExit == Spec => []NoLostExit
<1>1. Inductive => NoLostExit
  BY Zenon DEF Inductive, Consistent, Control, ExitTracked, NoLostExit
<1> QED BY <1>1, LifecycleInvariant, PTL

\* However many calls run, at most one is between setContainerStarting or setContainerRemoving
\* and the end of its critical section.
THEOREM LifecycleExclusion == Spec => []StartRemoveExclusion
<1>1. Inductive => StartRemoveExclusion
  BY Zenon DEF Inductive, Consistent, Control, Locks
<1> QED BY <1>1, LifecycleInvariant, PTL

\* A container reported EXITED has no process, unless its start failed.
THEOREM LifecycleExitedIsDead == Spec => []ExitedIsDead
<1>1. Inductive => ExitedIsDead
  BY DEF Inductive, Consistent, Control, Gone, ExitedIsDead, Alive
<1> QED BY <1>1, LifecycleInvariant, PTL

\* A container that RemoveContainer has taken out of the store has left no container in containerd,
\* nothing on disk, and no task of which an exit was observed.
THEOREM LifecycleRemoved == Spec => []RemovedLeavesNothing
<1>1. Inductive => RemovedLeavesNothing
  BY ZenonT(60) DEF Inductive, Consistent, Control, Removal
<1> QED BY <1>1, LifecycleInvariant, PTL

\* When stopContainer of a RUNNING or UNKNOWN container returns without error, the process has
\* ended.
THEOREM LifecycleStopMeansDead == Spec => []StopMeansDead
<1>1. Inductive => StopMeansDead
  BY Zenon DEF Inductive, Consistent, Control, Gone, StopMeansDead, Acting, Alive
<1> QED BY <1>1, LifecycleInvariant, PTL

\* After any sequence of restarts, the IO of a CREATED or RUNNING container is set unless the last
\* restart found its task and could not read the state of the task.
THEOREM LifecycleNilIO == Spec => []NilIOOnlyUnread
<1>1. Inductive => NilIOOnlyUnread
  BY Zenon DEF Inductive, Consistent, Control, IOSet, NilIOOnlyUnread
<1> QED BY <1>1, LifecycleInvariant, PTL

-----------------------------------------------------------------------------
(* What a step may never do *)

\* The exit of a container is recorded once: until the next restart no later exit event, stop or
\* failed start overwrites it.
THEOREM LifecycleExitRecordedOnce == Spec => ExitRecordedOnce
<1>1. Inductive /\ [Next]_vars =>
         [status.exit # "none" /\ up /\ up' => status'.exit = status.exit]_vars
  <2> SUFFICES ASSUME Inductive, Next, status.exit # "none", up, up'
               PROVE  status'.exit = status.exit \/ UNCHANGED vars
    BY Zenon
  <2>1. Kinds \/ UNCHANGED vars
    BY NextKinds, Zenon
  <2> QED BY <2>1, Zenon DEF Kinds, Served, Records, Background, Restores, Down
<1> QED BY <1>1, LifecycleInvariant, PTL DEF Spec, ExitRecordedOnce

\* An exit monitor reports an exit only when the process has ended or its wait broke: the cancelled
\* wait of a finished stopContainer is never taken for an exit.
THEOREM LifecycleNoSpuriousExit == Spec => NoSpuriousExit
<1> DEFINE Heard == \A m \in Procs : monitor[m] = "waiting" /\ monitor'[m] \in Exits =>
                       task \notin Alive \/ faults' > faults
<1>1. Inductive /\ [Next]_vars => [Heard]_vars
  <2> SUFFICES ASSUME Inductive, Next
               PROVE  Heard \/ UNCHANGED vars
    BY Zenon
  <2>1. TypeOK /\ Listening
    BY Zenon DEF Inductive, Consistent
  <2>2. NoneHears => Heard
    BY Zenon DEF NoneHears, Exits
  <2>3. ASSUME NEW m \in Procs, MonitorReceive(m) PROVE Heard
    <3>1. m \in Threads => m \in waits
      BY <2>1, <2>3, Zenon DEF MonitorReceive, Listening
    <3>2. task \notin Alive \/ faults' > faults
      BY <2>1, <2>3, <3>1
      DEF MonitorReceive, WaitResults, Fault, Alive, TypeOK, BoundType, DiskType, Tasks
    <3> QED BY <3>2, Zenon
  <2>4. Restores => NoneHears
    BY Zenon DEF Restores, NoneHears, Procs
  <2>5. Down => NoneHears
    BY DEF Down, NoneHears
  <2> QED BY <2>2, <2>3, <2>4, <2>5, NextKinds, Zenon DEF Kinds, Unheard
<1> QED BY <1>1, LifecycleInvariant, PTL DEF Spec, NoSpuriousExit

\* An exit on disk stays on disk until the container is removed; a restart forgets it only if it
\* could not read the file, and then the container is UNKNOWN.
THEOREM LifecycleExitDurable == Spec => ExitDurable
<1> DEFINE Kept == \A c \in ckpt : c.exit # "none" =>
                      \/ \E d \in ckpt' : d.exit # "none"
                      \/ ckpt' = {} /\ ~cntrd'
                      \/ status'.unknown
<1>1. Inductive /\ [Next]_vars => [Kept]_vars
  <2> SUFFICES ASSUME Inductive, Next, NEW c \in ckpt, c.exit # "none",
                      ~UNCHANGED vars, ~status'.unknown,
                      ~(ckpt' = {} /\ ~cntrd'), ~\E d \in ckpt' : d.exit # "none"
               PROVE  FALSE
    BY Zenon
  <2>1. Recorded /\ CreateAlone /\ Handles /\ Removal /\ Settled
    BY Zenon DEF Inductive, Consistent, Control
  <2>2. c \notin ckpt'
    BY Zenon
  <2>3. CASE Background \/ Down
    BY <2>2, <2>3, Zenon DEF Background, Down, disk
  <2>4. CASE Restores
    <3>1. PutsBack
      BY <2>2, <2>4, Zenon DEF Restores, Discards, ReadsBack, BringsUpToDate
    <3>2. encode(status).exit = status.exit
      BY Zenon DEF encode
    <3> QED BY <2>1, <2>2, <3>1, <3>2, Zenon DEF PutsBack, Recorded
  <2>5. CASE Served
    <3>1. CASE ckpt' = {}
      <4>1. PICK t \in Threads : pc[t] \in CreateSteps
        BY <2>2, <2>5, <3>1, Zenon DEF Served, Records
      <4> QED BY <2>1, <4>1 DEF CreateAlone, Recorded, encode
    <3>2. CASE ckpt' = {encode(status')} /\ (inStore \/ \E t \in Threads : pc[t] \in CreateSteps)
      <4>1. status.exit = c.exit
        BY <2>1, <2>5, <3>2 DEF Served, Recorded, encode
      <4>2. status'.exit = c.exit /\ encode(status').exit = status'.exit
        BY <2>5, <4>1, Zenon DEF Served, Records, encode
      <4> QED BY <3>2, <4>2, Zenon
    <3> QED BY <2>2, <2>5, <3>1, <3>2, ZenonT(60) DEF Served, Records
  <2> QED BY <2>3, <2>4, <2>5, NextKinds, Zenon DEF Kinds
<1> QED BY <1>1, LifecycleInvariant, PTL DEF Spec, ExitDurable

-----------------------------------------------------------------------------
(* The states that are reported *)

\* What recovery has read, brought up to date with the task, is a state it may report.
LEMMA LoadableState ==
    ASSUME NEW s \in Status, NEW r,
           r # "DELETED",
           r = "none" => ~s.started /\ s.exit = "none",
           r = "RUNNING" => s.unknown \/ s.started \/ s.exit # "none",
           r = "EXITED" => s.unknown \/ s.exit # "none"
    PROVE  State(s) \in Machine!Loadable(r)
<1>1. r = "none" => State(s) \in {"CREATED", "UNKNOWN"}
  BY Zenon DEF Status, State
<1>2. r = "RUNNING" => State(s) \in {"RUNNING", "EXITED", "UNKNOWN"}
  BY Zenon DEF Status, State
<1>3. r = "EXITED" => State(s) \in {"EXITED", "UNKNOWN"}
  BY Zenon DEF Status, State
<1>4. State(s) \in {"CREATED", "RUNNING", "EXITED", "UNKNOWN"}
  BY StateExit, Zenon DEF States
<1> HIDE DEF State
<1> QED BY <1>1, <1>2, <1>3, <1>4, Zenon DEF Machine!Loadable

\* A step served by the plugin is a step of the state machine, and keeps the report right.
LEMMA ServedReported ==
    ASSUME Inductive, Inductive', Remembered, Served, reported' = Report
    PROVE  Remembered' /\ (Machine!Next \/ reported' = reported) /\ (up' <=> up)
<1>1. /\ CreateAlone /\ CreateAlone' /\ Recorded' /\ status' \in Status
      /\ pc'[Loop] \notin {"loadTask", "storeLoaded"}
  BY Zenon DEF Inductive, Consistent, Control, Phases, TypeOK, StatusType, ExitSteps, Served
<1>2. State(status') \in States
  BY <1>1, StateExit, Zenon
<1>3. up /\ up' /\ Moves
  BY Zenon DEF Served
<1>4. /\ inStore' => reported' = State(status')
      /\ ~inStore' /\ reported \in {"none", "DELETED"} => reported' = reported
      /\ ~inStore' /\ reported \notin {"none", "DELETED"} =>
            reported' = IF status'.removing THEN "DELETED" ELSE "LOST"
  BY <1>3, Zenon DEF Report
<1>5. /\ inStore => reported = State(status)
      /\ ~inStore => reported \in {"none", "LOST", "DELETED"} /\ (status.removing => reported = "DELETED")
      /\ reported = "DELETED" => ~cntrd /\ ~inStore
      /\ reported = "none" => task = "none" /\ ~inStore
      /\ \A t \in Threads : pc[t] \in CreateSteps => reported = "none"
  BY <1>3, Zenon DEF Remembered
<1>6. (Machine!Next \/ reported' = reported) /\ (up' <=> up)
  <2>1. CASE (inStore' <=> inStore) /\ (inStore => State(status') = State(status))
             /\ (~inStore => (status'.removing <=> status.removing))
    BY <1>3, <1>4, <1>5, <2>1, Zenon
  <2>2. CASE ~((inStore' <=> inStore) /\ (inStore => State(status') = State(status))
               /\ (~inStore => (status'.removing <=> status.removing)))
    BY <1>3, <1>4, <1>5, <2>2
    DEF Moves, Machine!Next, Machine!Create, Machine!Start, Machine!StartFails, Machine!Exit,
        Machine!StopUnknown, Machine!Remove, Machine!Move
  <2> QED BY <2>1, <2>2, Zenon
<1>7. ~inStore' => /\ reported' \in {"none", "LOST", "DELETED"}
                   /\ status'.removing => reported' = "DELETED"
  BY <1>3, <1>4, <1>5, Zenon DEF Moves
<1>8. \A t \in Threads : pc'[t] \in CreateSteps => reported' = "none"
  BY <1>1, <1>4, <1>5, Zenon DEF Served, CreateAlone
<1>9. reported' = "DELETED" => ~cntrd' /\ ~inStore'
  BY <1>2, <1>3, <1>4, <1>5, Zenon DEF Served, Moves, States
<1>10. reported' = "none" => reported = "none" /\ task' = "none" /\ ~inStore'
  BY <1>2, <1>4, <1>5, Zenon DEF Served, States
<1>11. \A c \in ckpt' : /\ reported' = "none" => ~c.started /\ c.exit = "none"
                        /\ reported' = "RUNNING" => c.started \/ c.exit # "none"
                        /\ reported' = "EXITED" => c.exit # "none"
  <2> SUFFICES ASSUME NEW c \in ckpt'
               PROVE  /\ reported' = "none" => ~c.started /\ c.exit = "none"
                      /\ reported' = "RUNNING" => c.started \/ c.exit # "none"
                      /\ reported' = "EXITED" => c.exit # "none"
    BY Zenon
  <2>1. CASE inStore'
    BY <1>1, <1>2, <1>3, <1>4, <2>1, SMTT(60) DEF Recorded, State, encode
  <2>2. CASE reported' = "none"
    <3>1. CASE ckpt' \in {ckpt, {}}
      BY <1>10, <2>2, <3>1, Zenon DEF Remembered
    <3>2. CASE ckpt' = {encode(status')} /\ (inStore \/ \E t \in Threads : pc[t] \in CreateSteps)
      <4>1. ~status'.started /\ status'.exit = "none"
        BY <1>5, <1>10, <2>2, <3>2, ZenonT(60) DEF Served
      <4> QED BY <2>2, <3>2, <4>1 DEF encode
    <3> QED BY <3>1, <3>2, Zenon DEF Served, Records
  <2> QED BY <1>7, <2>1, <2>2, Zenon
<1>12. Remembered'
  BY <1>1, <1>3, <1>4, <1>7, <1>8, <1>9, <1>10, <1>11, SMTT(60) DEF Remembered
<1> QED BY <1>6, <1>12, Zenon

\* Recovery reports a state the state machine allows, and keeps the report until then.
LEMMA RestoresReported ==
    ASSUME Inductive, Inductive', Remembered, Restores, reported' = Report
    PROVE  Remembered' /\ (Machine!Next \/ (reported' = reported /\ up' = up))
<1>1. /\ Recorded' /\ status \in Status /\ status' \in Status /\ up \in BOOLEAN /\ up' \in BOOLEAN
      /\ DiskType
  BY Zenon DEF Inductive, Consistent, TypeOK, StatusType, ObjectType
<1>2. /\ ~up /\ ~inStore /\ cntrd' = cntrd /\ (task = "none" => task' = "none")
      /\ \A t \in Threads : pc'[t] \notin CreateSteps
  BY Zenon DEF Restores, CreateSteps
<1>3. CASE up' /\ ~inStore' /\ ~status'.removing /\ ckpt' \in {ckpt, {}} /\ pc'[Loop] = "idle"
  <2>1. reported' = IF reported \in {"none", "DELETED"} THEN reported ELSE "LOST"
    BY <1>3, Zenon DEF Report
  <2>2. reported' \in Machine!Loadable(reported)
    BY <2>1, Zenon DEF Machine!Loadable
  <2>3. Machine!Next
    BY <1>1, <1>2, <1>3, <2>2, ZenonT(60) DEF Machine!Next, Machine!Load
  <2>4. Remembered'
    BY <1>2, <1>3, <2>1, SMTT(60) DEF Remembered
  <2> QED BY <2>3, <2>4, Zenon
<1>4. CASE PutsBack /\ inStore'
  <2>1. /\ up' /\ status' = status /\ pc[Loop] = "storeLoaded" /\ pc'[Loop] = "idle"
        /\ reported' = State(status')
    BY <1>4, Zenon DEF PutsBack, Report
  <2>2. State(status) \in Machine!Loadable(reported)
    BY <1>1, <2>1, LoadableState, Zenon DEF Remembered
  <2>3. Machine!Next
    BY <1>1, <1>2, <2>1, <2>2, Zenon DEF Machine!Next, Machine!Load
  <2>4. State(status') \in {"CREATED", "RUNNING", "EXITED", "UNKNOWN"}
    BY <1>1, StateExit, Zenon DEF States
  <2>5. \A c \in ckpt' : /\ State(status') = "RUNNING" => c.started \/ c.exit # "none"
                         /\ State(status') = "EXITED" => c.exit # "none"
    <3>1. ckpt' = {encode(status)} /\ status' = status
      BY <1>4, Zenon DEF PutsBack
    <3>2. /\ State(status) = "RUNNING" => status.started
          /\ State(status) = "EXITED" => status.exit # "none"
      BY Zenon DEF State
    <3> QED BY <3>1, <3>2 DEF encode
  <2>6. inStore' /\ reported' \notin {"none", "LOST", "DELETED"}
    BY <1>4, <2>1, <2>4, Zenon
  <2>7. Remembered'
    BY <1>2, <2>1, <2>5, <2>6, Zenon DEF Remembered
  <2> QED BY <2>3, <2>7, Zenon
<1>5. CASE ReadsBack \/ BringsUpToDate
  <2>1. ~up' /\ ~inStore' /\ ckpt' = ckpt /\ reported' = reported
    BY <1>5, Zenon DEF ReadsBack, BringsUpToDate, Report
  <2>2. /\ reported # "DELETED"
        /\ reported = "none" => ~status'.started /\ status'.exit = "none"
        /\ reported = "RUNNING" => status'.unknown \/ status'.started \/ status'.exit # "none"
        /\ reported = "EXITED" => status'.unknown \/ status'.exit # "none"
    <3>1. CASE ReadsBack
      BY <3>1, Zenon DEF ReadsBack, Remembered
    <3>2. CASE BringsUpToDate
      BY <3>2, Zenon DEF BringsUpToDate, Remembered
    <3> QED BY <1>5, <3>1, <3>2, Zenon
  <2>3. Remembered'
    BY <1>2, <2>1, <2>2, Zenon DEF Remembered
  <2> QED BY <1>1, <1>2, <2>1, <2>3, Zenon
<1> QED BY <1>3, <1>4, <1>5, Zenon DEF Restores, Discards, PutsBack

\* Every step of the lifecycle is a step of the state machine or leaves it where it is.
LEMMA StepReported ==
    ASSUME Inductive, Inductive', Remembered, [ReportedNext]_<<vars, reported>>
    PROVE  Remembered' /\ [Machine!Next]_<<up, reported>>
<1>1. CASE UNCHANGED <<vars, reported>>
  BY <1>1, Zenon DEF Remembered, vars, object, disk, ctrd
<1>2. CASE ReportedNext
  <2>1. Next /\ reported' = Report /\ up \in BOOLEAN /\ up' \in BOOLEAN
    BY <1>2, Zenon DEF ReportedNext, Inductive, Consistent, TypeOK, ObjectType
  <2>2. CASE Served
    BY <2>1, <2>2, ServedReported, Zenon
  <2>3. CASE Background /\ ~up
    BY <2>1, <2>3, Zenon DEF Background, Report, Remembered
  <2>4. CASE Down
    BY <2>1, <2>4, LifecycleAssumption, Zenon
    DEF Down, Report, Remembered, disk, ctrd, CreateSteps, Procs, Machine!Next, Machine!Crash
  <2>5. CASE Restores
    BY <2>1, <2>5, RestoresReported, Zenon
  <2>6. CASE UNCHANGED vars
    BY <2>1, <2>6, Zenon DEF vars, object, disk, ctrd, Report, Remembered
  <2> QED BY <2>1, <2>2, <2>3, <2>4, <2>5, <2>6, NextKinds, BackgroundServed, SMTT(60) DEF Kinds
<1> QED BY <1>1, <1>2, Zenon

\* The states callers see follow the state machine of ContainerStateMachine, whatever calls, exits,
\* errors and restarts interleave.
THEOREM LifecycleImplementsStateMachine == ReportedSpec => ImplementsStateMachine
<1>1. ReportedInit => Inductive /\ Remembered /\ Machine!Init
  <2> SUFFICES ASSUME ReportedInit PROVE Inductive /\ Remembered /\ Machine!Init
    BY Zenon
  <2>1. Inductive
    BY InitInductive, Zenon DEF ReportedInit
  <2>2. Remembered /\ Machine!Init
    BY <2>1, StatusConstants, SMTT(60)
    DEF ReportedInit, Init, Remembered, Machine!Init, Inductive, Consistent, Control, Phases, ExitSteps
  <2> QED BY <2>1, <2>2, Zenon
<1>2. Inductive /\ Remembered /\ [ReportedNext]_<<vars, reported>> =>
         Inductive' /\ Remembered' /\ [Machine!Next]_<<up, reported>>
  BY NextInductive, StepReported, Zenon DEF ReportedNext
<1> QED BY <1>1, <1>2, PTL DEF ReportedSpec, ImplementsStateMachine, Machine!Spec

=============================================================================
