---------------------- MODULE ContainerLifecycleEvents ----------------------
(***************************************************************************)
(* Facts the proofs about ContainerLifecycle rest on: what each update of  *)
(* the status record does to the state and to the locks, what the queue    *)
(* operations of the event monitor do to the exit events in them, and what *)
(* the handlers that use them change.  Then: every step of                 *)
(* handleContainerExit, the exit monitors, the event loop, recovery and    *)
(* the environment preserves the inductive invariant.  The proofs are laid *)
(* out as in ContainerLifecycleCalls: the types, what the steps may        *)
(* change, then why that preserves the invariant.                          *)
(***************************************************************************)
EXTENDS ContainerLifecycle, TLAPS

-----------------------------------------------------------------------------
(* The status record *)

\* Setting or clearing Starting or Removing changes nothing else, in particular not the state.
LEMMA FlagUpdates ==
    ASSUME NEW s \in Status, NEW b \in BOOLEAN
    PROVE  /\ [s EXCEPT !.starting = b] \in Status /\ State([s EXCEPT !.starting = b]) = State(s)
           /\ [s EXCEPT !.starting = b].starting = b
           /\ [s EXCEPT !.starting = b].removing = s.removing
           /\ [s EXCEPT !.starting = b].exit = s.exit
           /\ [s EXCEPT !.removing = b] \in Status /\ State([s EXCEPT !.removing = b]) = State(s)
           /\ [s EXCEPT !.removing = b].removing = b
           /\ [s EXCEPT !.removing = b].starting = s.starting
           /\ [s EXCEPT !.removing = b].exit = s.exit
BY Zenon DEF Status, State

\* Recording an OOM kill leaves the state, the exit and the flags alone.
LEMMA OOMUpdate ==
    ASSUME NEW s \in Status
    PROVE  LET r == [s EXCEPT !.oom = TRUE] IN
           /\ r \in Status /\ State(r) = State(s) /\ r.exit = s.exit
           /\ r.starting = s.starting /\ r.removing = s.removing
BY Zenon DEF Status, State

\* Recording StartedAt makes a CREATED container RUNNING and leaves no container CREATED.
LEMMA StartedUpdate ==
    ASSUME NEW s \in Status
    PROVE  LET r == [s EXCEPT !.started = TRUE] IN
           /\ r \in Status /\ r.exit = s.exit /\ r.starting = s.starting /\ r.removing = s.removing
           /\ State(r) \in {State(s), "RUNNING"} /\ State(r) # "CREATED"
           /\ State(s) = "CREATED" => State(r) = "RUNNING"
BY Zenon DEF Status, State

\* What a failed StartContainer records takes the container out of CREATED and RUNNING.
LEMMA ErrorUpdate ==
    ASSUME NEW s \in Status
    PROVE  LET r == [s EXCEPT !.exit = "error", !.oom = FALSE] IN
           /\ r \in Status /\ r.exit = "error" /\ r.starting = s.starting /\ r.removing = s.removing
           /\ State(r) \in {"EXITED", "UNKNOWN"}
           /\ State(s) = "CREATED" => State(r) = "EXITED"
BY Zenon DEF Status, State, Exits

\* What handleContainerExit records makes the container EXITED, whatever it was before.
LEMMA ExitedUpdate ==
    ASSUME NEW s \in Status, NEW e \in Exits
    PROVE  LET r == Exited(s, e) IN
           /\ r \in Status /\ r.exit # "none" /\ State(r) = "EXITED"
           /\ r.starting = s.starting /\ r.removing = s.removing
BY Zenon DEF Status, State, Exits, Exited

\* Setting Unknown makes the container UNKNOWN; clearing it keeps CREATED.
LEMMA UnknownUpdate ==
    ASSUME NEW s \in Status, NEW b \in BOOLEAN
    PROVE  LET r == [s EXCEPT !.unknown = b] IN
           /\ r \in Status /\ r.exit = s.exit /\ r.starting = s.starting /\ r.removing = s.removing
           /\ b => State(r) = "UNKNOWN"
           /\ ~b /\ State(s) = "CREATED" => State(r) = "CREATED"
BY Zenon DEF Status, State

\* What recovery records for a task that is gone or stopped makes the container EXITED or UNKNOWN.
LEMMA LoadUpdates ==
    ASSUME NEW s \in Status
    PROVE  /\ [s EXCEPT !.exit = "unknown", !.oom = FALSE] \in Status
           /\ State([s EXCEPT !.exit = "unknown", !.oom = FALSE]) \in {"EXITED", "UNKNOWN"}
           /\ [s EXCEPT !.exit = "unknown", !.oom = FALSE].starting = s.starting
           /\ [s EXCEPT !.exit = "unknown", !.oom = FALSE].removing = s.removing
           /\ [s EXCEPT !.exit = "task"] \in Status
           /\ State([s EXCEPT !.exit = "task"]) \in {"EXITED", "UNKNOWN"}
           /\ [s EXCEPT !.exit = "task"].starting = s.starting
           /\ [s EXCEPT !.exit = "task"].removing = s.removing
BY Zenon DEF Status, State, Exits

\* The zero status, the status of a new container and unknownContainerStatus.
LEMMA StatusConstants ==
    /\ ZeroStatus \in Status /\ State(ZeroStatus) = "UNKNOWN" /\ ZeroStatus.exit = "none"
    /\ ~ZeroStatus.starting /\ ~ZeroStatus.removing
    /\ unknownContainerStatus \in Status /\ State(unknownContainerStatus) = "UNKNOWN"
    /\ ~unknownContainerStatus.starting /\ ~unknownContainerStatus.removing
    /\ [ZeroStatus EXCEPT !.created = TRUE] \in Status
    /\ State([ZeroStatus EXCEPT !.created = TRUE]) = "CREATED"
    /\ ~[ZeroStatus EXCEPT !.created = TRUE].starting
    /\ ~[ZeroStatus EXCEPT !.created = TRUE].removing
BY Zenon DEF ZeroStatus, unknownContainerStatus, Status, State, Exits

\* What is encoded is a checkpoint.
LEMMA EncodeType == \A s \in Status : encode(s) \in Checkpoint
BY Zenon DEF encode, Status, Checkpoint

\* A decoded checkpoint is a status, held by nobody.
LEMMA DecodeType ==
    \A c \in Checkpoint : decode(c) \in Status /\ ~decode(c).starting /\ ~decode(c).removing
BY Zenon DEF decode, Status, Checkpoint

\* Starting and Removing are not in the status file.
LEMMA FlagsNotEncoded ==
    ASSUME NEW s \in Status, NEW b \in BOOLEAN
    PROVE  /\ encode([s EXCEPT !.starting = b]) = encode(s)
           /\ encode([s EXCEPT !.removing = b]) = encode(s)
BY Zenon DEF encode, Status

\* FinishedAt is set in EXITED and unset in CREATED and RUNNING.
LEMMA StateExit == \A s \in Status : /\ State(s) \in States
                                     /\ State(s) \in {"CREATED", "RUNNING"} => s.exit = "none"
                                     /\ State(s) = "EXITED" => s.exit # "none"
BY Zenon DEF Status, State, States

-----------------------------------------------------------------------------
(* The queues of the event monitor *)

\* An empty queue holds no exit event,
LEMMA EmptyNoExit == ~HasExit(<<>>)
BY DEF HasExit

\* a queue of one event holds one if the event is an exit,
LEMMA OneHasExit == \A e \in Events : HasExit(<<e>>) <=> e # "oom"
BY DEF HasExit

\* an appended exit event is in the queue,
LEMMA AppendHasExit ==
    ASSUME NEW q \in Seq(Events), NEW e \in Events
    PROVE  HasExit(Append(q, e)) <=> HasExit(q) \/ e # "oom"
BY DEF HasExit

\* and the exit events of a queue are its head and those of its tail.
LEMMA TailHasExit ==
    ASSUME NEW q \in Seq(Events), q # <<>>
    PROVE  /\ HasExit(q) <=> HasExit(Tail(q)) \/ Head(q) # "oom"
           /\ Head(q) \in Events /\ Tail(q) \in Seq(Events)
<1>1. /\ Head(q) = q[1] /\ Head(q) \in Events /\ Tail(q) \in Seq(Events)
      /\ Len(q) \in Nat /\ Len(q) > 0 /\ Len(Tail(q)) = Len(q) - 1
      /\ \A i \in 1..Len(Tail(q)) : Tail(q)[i] = q[i + 1]
  OBVIOUS
<1>2. ASSUME HasExit(q) PROVE HasExit(Tail(q)) \/ Head(q) # "oom"
  <2>1. PICK i \in 1..Len(q) : q[i] # "oom"
    BY <1>2, Zenon DEF HasExit
  <2>2. CASE i = 1
    BY <1>1, <2>1, <2>2, Zenon
  <2>3. CASE i # 1
    <3>1. i - 1 \in 1..Len(Tail(q)) /\ Tail(q)[i - 1] = q[i]
      BY <1>1, <2>3
    <3> QED BY <2>1, <3>1, Zenon DEF HasExit
  <2> QED BY <2>2, <2>3, Zenon
<1>3. ASSUME HasExit(Tail(q)) PROVE HasExit(q)
  <2>1. PICK i \in 1..Len(Tail(q)) : Tail(q)[i] # "oom"
    BY <1>3, Zenon DEF HasExit
  <2>2. i + 1 \in 1..Len(q) /\ q[i + 1] # "oom"
    BY <1>1, <2>1
  <2> QED BY <2>2, Zenon DEF HasExit
<1>4. ASSUME Head(q) # "oom" PROVE HasExit(q)
  BY <1>1, <1>4 DEF HasExit
<1> QED BY <1>1, <1>2, <1>3, <1>4, Zenon

-----------------------------------------------------------------------------
(* The handlers *)

\* setContainerStarting takes the lock only of a CREATED container nobody holds.
LEMMA SetStartingEffect ==
    ASSUME StatusType, NEW t \in Threads, setContainerStarting(t)
    PROVE  /\ status' \in Status /\ State(status') = State(status) /\ status'.exit = status.exit
           /\ status'.removing = status.removing
           /\ \/ status' = status /\ pc' = [pc EXCEPT ![t] = "idle"]
              \/ /\ pc' = [pc EXCEPT ![t] = "getSandbox"] /\ State(status) = "CREATED"
                 /\ ~status.starting /\ ~status.removing /\ status'.starting
<1> USE DEF StatusType, setContainerStarting, Return, Goto, Update, CanStart
<1>1. CASE status' = status /\ pc' = [pc EXCEPT ![t] = "idle"]
  BY <1>1, Zenon
<1>2. CASE /\ CanStart(status) /\ status' = [status EXCEPT !.starting = TRUE]
           /\ pc' = [pc EXCEPT ![t] = "getSandbox"]
  <2>1. /\ [status EXCEPT !.starting = TRUE] \in Status
        /\ State([status EXCEPT !.starting = TRUE]) = State(status)
        /\ [status EXCEPT !.starting = TRUE].starting = TRUE
        /\ [status EXCEPT !.starting = TRUE].removing = status.removing
        /\ [status EXCEPT !.starting = TRUE].exit = status.exit
    BY FlagUpdates, Zenon
  <2> QED BY <1>2, <2>1, Zenon
<1> QED BY <1>1, <1>2, Zenon

\* resetContainerStarting releases the lock and changes nothing else.
LEMMA ResetStartingEffect ==
    ASSUME StatusType, NEW t \in Threads, resetContainerStarting(t)
    PROVE  /\ status' \in Status /\ State(status') = State(status) /\ status'.exit = status.exit
           /\ status'.removing = status.removing /\ ~status'.starting
BY FlagUpdates, Zenon DEF StatusType, resetContainerStarting, Update

\* setContainerRemoving takes the lock only of a container that does not run and nobody holds.
LEMMA SetRemovingEffect ==
    ASSUME StatusType, NEW t \in Threads, setContainerRemoving(t)
    PROVE  /\ status' \in Status /\ State(status') = State(status) /\ status'.exit = status.exit
           /\ status'.starting = status.starting
           /\ \/ status' = status /\ pc' = [pc EXCEPT ![t] = "idle"]
              \/ /\ pc' = [pc EXCEPT ![t] = "deleteContainer"]
                 /\ State(status) \notin {"RUNNING", "UNKNOWN"}
                 /\ ~status.starting /\ ~status.removing /\ status'.removing
<1> USE DEF StatusType, setContainerRemoving, Return, Goto, Update, CanRemove
<1>1. CASE status' = status /\ pc' = [pc EXCEPT ![t] = "idle"]
  BY <1>1, Zenon
<1>2. CASE /\ CanRemove(status) /\ status' = [status EXCEPT !.removing = TRUE]
           /\ pc' = [pc EXCEPT ![t] = "deleteContainer"]
  <2>1. /\ [status EXCEPT !.removing = TRUE] \in Status
        /\ State([status EXCEPT !.removing = TRUE]) = State(status)
        /\ [status EXCEPT !.removing = TRUE].removing = TRUE
        /\ [status EXCEPT !.removing = TRUE].starting = status.starting
        /\ [status EXCEPT !.removing = TRUE].exit = status.exit
    BY FlagUpdates, Zenon
  <2> QED BY <1>2, <2>1, Zenon
<1> QED BY <1>1, <1>2, Zenon

\* resetContainerRemoving releases the lock and changes nothing else.
LEMMA ResetRemovingEffect ==
    ASSUME StatusType, NEW t \in Threads, resetContainerRemoving(t)
    PROVE  /\ status' \in Status /\ State(status') = State(status) /\ status'.exit = status.exit
           /\ status'.starting = status.starting /\ ~status'.removing
BY FlagUpdates, Zenon DEF StatusType, resetContainerRemoving, Update

\* Once the start is recorded the container is not CREATED; a failure changes nothing.
LEMMA RecordEffect ==
    ASSUME StatusType, NEW t \in Threads, StartRecord(t)
    PROVE  /\ status' \in Status /\ status'.exit = status.exit
           /\ status'.starting = status.starting /\ status'.removing = status.removing
           /\ \/ status' = status /\ pc' = [pc EXCEPT ![t] = "undoTask"]
              \/ /\ pc' = [pc EXCEPT ![t] = "startMonitor"]
                 /\ State(status') \in {State(status), "RUNNING"} /\ State(status') # "CREATED"
BY StartedUpdate, Zenon DEF StatusType, StartRecord, UpdateSync, UpdateSyncFails, Goto

\* A failed start records its error, or leaves the status alone.
LEMMA UndoStatusEffect ==
    ASSUME StatusType, NEW t \in Threads, StartUndoStatus(t)
    PROVE  /\ status' \in Status
           /\ status'.starting = status.starting /\ status'.removing = status.removing
           /\ \/ status' = status
              \/ /\ status'.exit = "error" /\ State(status') \in {"EXITED", "UNKNOWN"}
                 /\ State(status) = "CREATED" => State(status') = "EXITED"
BY ErrorUpdate, Zenon DEF StatusType, StartUndoStatus, UpdateSync, UpdateSyncFails

\* handleContainerExit always has an exit to record.
LEMMA EventExitType ==
    ASSUME TypeOK, LoopHolds, NEW p \in Procs, pc[p] \in ExitSteps
    PROVE  EventExit(p) \in Exits
BY TailHasExit, Zenon DEF TypeOK, EventType, LoopHolds, EventExit, Exits, Events

\* handleContainerExit makes the container EXITED, or fails and changes nothing.
LEMMA ExitUpdateEffect ==
    ASSUME TypeOK, LoopHolds, NEW p \in Procs, ExitUpdateStatus(p)
    PROVE  /\ status' \in Status
           /\ status'.starting = status.starting /\ status'.removing = status.removing
           /\ \/ status' = status /\ ckpt' = ckpt /\ pc'[p] # "exitStop"
              \/ /\ status'.exit # "none" /\ State(status') = "EXITED" /\ rootDir
                 /\ pc' = [pc EXCEPT ![p] = "exitStop"]
                 /\ batch' = batch /\ backOff' = backOff /\ ok' = ok
<1>1. EventExit(p) \in Exits
  BY EventExitType, Zenon DEF ExitUpdateStatus, At, ExitSteps
<1>2. CASE UpdateSyncFails /\ ExitReturns(p, FALSE)
  BY <1>2, Zenon DEF UpdateSyncFails, TypeOK, StatusType, CallType, ExitReturns, Goto, StopReturns
<1>3. CASE /\ UpdateSync(Exited(status, EventExit(p))) /\ Goto(p, "exitStop")
           /\ UNCHANGED <<batch, backOff, ok>>
  <2>1. /\ Exited(status, EventExit(p)) \in Status /\ Exited(status, EventExit(p)).exit # "none"
        /\ State(Exited(status, EventExit(p))) = "EXITED"
        /\ Exited(status, EventExit(p)).starting = status.starting
        /\ Exited(status, EventExit(p)).removing = status.removing
    BY <1>1, ExitedUpdate, Zenon DEF TypeOK, StatusType
  <2> QED BY <1>3, <2>1, Zenon DEF UpdateSync, Goto
<1> QED BY <1>2, <1>3, Zenon DEF ExitUpdateStatus

\* handleEvent changes at most the OOM reason of the status.
LEMMA OOMEffect ==
    ASSUME StatusType, handleEvent
    PROVE  /\ status' \in Status /\ State(status') = State(status) /\ status'.exit = status.exit
           /\ status'.starting = status.starting /\ status'.removing = status.removing
BY OOMUpdate, Zenon DEF StatusType, handleEvent, UpdateSync, UpdateSyncFails

\* NewContainer stores the status of a CREATED container, or fails.
LEMMA NewContainerEffect ==
    ASSUME StatusType, NEW t \in Threads, NewContainer(t)
    PROVE  /\ status' \in Status
           /\ \/ status' = status /\ pc' = [pc EXCEPT ![t] = "undoContainer"]
              \/ /\ pc' = [pc EXCEPT ![t] = "storeAdd"] /\ State(status') = "CREATED"
                 /\ ~status'.starting /\ ~status'.removing /\ status'.exit = "none"
BY StatusConstants, StateExit, Zenon DEF StatusType, NewContainer, UpdateSync, UpdateSyncFails, Goto

\* The status recovery starts from is held by nobody.
LEMMA LoadStatusEffect ==
    ASSUME DiskType, LoadStatus
    PROVE  status' \in Status /\ ~status'.starting /\ ~status'.removing
BY StatusConstants, DecodeType, Zenon DEF DiskType, LoadStatus

\* loadContainer leaves CREATED and RUNNING containers with IO, RUNNING ones with an exit
\* monitor and EXITED ones without a task.
LEMMA LoadTaskEffect ==
    ASSUME StatusType, EventType, ~status.starting, ~status.removing, loadContainer
    PROVE  /\ status' \in Status /\ ~status'.starting /\ ~status'.removing
           /\ State(status') = "CREATED" =>
                 State(status) = "CREATED" /\ io' # "nil" /\ monitor' = monitor
           /\ State(status') = "RUNNING" => monitor'[Loop] = "waiting" /\ io' # "nil"
           /\ State(status') = "EXITED" => task' = "none"
<1> USE DEF StatusType, EventType, Procs
<1>1. CASE LoadNoTask
  <2>1. LET r == [status EXCEPT !.exit = "unknown", !.oom = FALSE] IN
        /\ r \in Status /\ State(r) \in {"EXITED", "UNKNOWN"}
        /\ r.starting = status.starting /\ r.removing = status.removing
    BY LoadUpdates, Zenon
  <2> QED BY <1>1, <2>1, Zenon DEF LoadNoTask
<1>2. CASE LoadCreatedTask
  <2>1. LET r == [status EXCEPT !.unknown = (State(status) # "CREATED")] IN
        /\ r \in Status /\ r.starting = status.starting /\ r.removing = status.removing
        /\ State(status) = "CREATED" => State(r) = "CREATED"
        /\ State(status) # "CREATED" => State(r) = "UNKNOWN"
    BY UnknownUpdate, Zenon
  <2> QED BY <1>2, <2>1, Zenon DEF LoadCreatedTask, Attached
<1>3. CASE LoadRunningTask
  <2>1. LET r == [status EXCEPT !.unknown = TRUE] IN
        /\ r \in Status /\ r.starting = status.starting /\ r.removing = status.removing
        /\ State(r) = "UNKNOWN"
    BY UnknownUpdate, Zenon
  <2>2. LET r == [status EXCEPT !.started = TRUE] IN
        /\ r \in Status /\ r.starting = status.starting /\ r.removing = status.removing
        /\ State(r) \in {State(status), "RUNNING"} /\ State(r) # "CREATED"
    BY StartedUpdate, Zenon
  <2>3. CASE State(status) = "EXITED" /\ status' = [status EXCEPT !.unknown = TRUE]
    BY <2>1, <2>3, Zenon
  <2>4. CASE /\ State(status) # "EXITED" /\ status' = [status EXCEPT !.started = TRUE]
             /\ monitor' = [monitor EXCEPT ![Loop] = "waiting"]
    BY <1>3, <2>2, <2>4, Zenon DEF LoadRunningTask, Attached
  <2> QED BY <1>3, <2>3, <2>4, Zenon DEF LoadRunningTask
<1>4. CASE LoadStoppedTask
  <2>1. LET r == [status EXCEPT !.exit = "task"] IN
        /\ r \in Status /\ State(r) \in {"EXITED", "UNKNOWN"}
        /\ r.starting = status.starting /\ r.removing = status.removing
    BY LoadUpdates, Zenon
  <2> QED BY <1>4, <2>1, Zenon DEF LoadStoppedTask
<1>5. CASE LoadFails
  <2>1. LET r == [status EXCEPT !.unknown = TRUE] IN
        /\ r \in Status /\ r.starting = status.starting /\ r.removing = status.removing
        /\ State(r) = "UNKNOWN"
    BY UnknownUpdate, Zenon
  <2> QED BY <1>5, <2>1, Zenon DEF LoadFails
<1> QED BY <1>1, <1>2, <1>3, <1>4, <1>5, Zenon DEF loadContainer

\* Receiving an event moves it between queues.
LEMMA ReceiveEffect ==
    ASSUME EventType, LoopReceive
    PROVE  ExitQueued' <=> ExitQueued
<1> USE DEF EventType, ExitQueued, LoopReceive, Received
<1>1. ASSUME NEW e \in Events, Received(e)
      PROVE  HasExit(backOff)' \/ HasExit(batch)' <=> HasExit(backOff) \/ e # "oom"
  <2>1. CASE backOff = <<>>
    <3>1. backOff' = <<>> /\ batch' = <<e>>
      BY <1>1, <2>1, Zenon
    <3>2. ~HasExit(backOff) /\ ~HasExit(backOff')
      BY <2>1, <3>1, EmptyNoExit, Zenon
    <3>3. HasExit(batch') <=> e # "oom"
      BY <3>1, OneHasExit, Zenon
    <3> QED BY <3>2, <3>3, Zenon DEF HasExit
  <2>2. CASE backOff # <<>>
    <3>1. backOff' = Append(backOff, e) /\ batch' = <<>>
      BY <1>1, <2>2, Zenon
    <3>2. HasExit(backOff') <=> HasExit(backOff) \/ e # "oom"
      BY <3>1, AppendHasExit, Zenon
    <3>3. ~HasExit(batch')
      BY <3>1, EmptyNoExit, Zenon
    <3> QED BY <3>2, <3>3, Zenon DEF HasExit
  <2> QED BY <2>1, <2>2, Zenon
<1>2. CASE exitCh # <<>> /\ Received(Head(exitCh)) /\ exitCh' = Tail(exitCh)
  BY <1>1, <1>2, TailHasExit, EmptyNoExit, Zenon
<1>3. CASE ch # <<>> /\ Received(Head(ch)) /\ UNCHANGED exitCh
  <2>1. Head(ch) = "oom" /\ Head(ch) \in Events
    BY <1>3 DEF Events
  <2> QED BY <1>1, <1>3, <2>1, EmptyNoExit, Zenon
<1> QED BY <1>2, <1>3, Zenon

\* An exit monitor that has sent its event leaves an exit event in the channel.
LEMMA SendEffect ==
    ASSUME EventType, NEW m \in Procs, MonitorSend(m)
    PROVE  ExitQueued'
<1>1. monitor[m] \in Events /\ monitor[m] # "oom"
  BY Zenon DEF EventType, MonitorSend, Exits, Events
<1> QED BY <1>1, AppendHasExit, Zenon DEF EventType, MonitorSend, ExitQueued

\* handleEvent drops exit events only of a container that is not in the store.
LEMMA HandleEffect ==
    ASSUME EventType, CallType, LoopHolds, handleEvent
    PROVE  /\ ExitQueued' => ExitQueued
           /\ inStore /\ ExitQueued => ExitQueued'
           /\ up /\ pc[Loop] = "idle"
           /\ \/ pc' = pc
              \/ pc' = [pc EXCEPT ![Loop] = "exitTask"] /\ inStore /\ ExitQueued
           /\ ckpt' = ckpt \/ (inStore /\ rootDir)
           /\ UNCHANGED <<up, inStore, stopCh, io, rootDir, stateDir, ctrd, mons, rpc>>
<1> USE DEF EventType, LoopHolds, ExitQueued
<1>1. /\ batch # <<>> /\ backOff = <<>> /\ exitCh' = exitCh
      /\ HasExit(batch) <=> HasExit(Tail(batch)) \/ Head(batch) # "oom"
  BY TailHasExit, Zenon DEF handleEvent
<1>2. /\ up /\ pc[Loop] = "idle" /\ [pc EXCEPT ![Loop] = "idle"] = pc
      /\ ckpt' = ckpt \/ (inStore /\ rootDir)
      /\ UNCHANGED <<up, inStore, stopCh, io, rootDir, stateDir, ctrd, mons, rpc>>
  BY Zenon DEF handleEvent, At, ExitReturns, StopReturns, UpdateSync, UpdateSyncFails, CallType, Procs,
         rpc
<1>3. CASE (~inStore \/ Head(batch) = "oom") /\ ExitReturns(Loop, TRUE)
  BY <1>1, <1>2, <1>3, Zenon DEF ExitReturns, Goto
<1>4. CASE ExitReturns(Loop, FALSE)
  BY <1>1, <1>2, <1>4, EmptyNoExit, Zenon DEF ExitReturns, Goto
<1>5. CASE inStore /\ Head(batch) # "oom" /\ Goto(Loop, "exitTask") /\ UNCHANGED <<batch, backOff>>
  BY <1>1, <1>2, <1>5, Zenon DEF Goto
<1> QED BY <1>3, <1>4, <1>5, Zenon DEF handleEvent

\* NewContainer after recovery closes StopCh only of an EXITED container.
LEMMA StoreLoadedEffect ==
    ASSUME Phases, StoreLoaded
    PROVE  /\ ~up /\ up' /\ pc[Loop] = "storeLoaded" /\ pc' = [pc EXCEPT ![Loop] = "idle"]
           /\ status' = status
           /\ stopCh' => State(status) = "EXITED"
           /\ UNCHANGED <<io, rootDir, stateDir, ctrd, mons, chans, rpc>>
<1>1. CASE UpdateSync(status) /\ stopCh' = (State(status) = "EXITED")
  BY <1>1, Zenon DEF StoreLoaded, Goto, UpdateSync
<1>2. CASE UpdateSyncFails /\ UNCHANGED stopCh
  BY <1>2, Zenon DEF StoreLoaded, Goto, UpdateSyncFails, Phases
<1> QED BY <1>1, <1>2, Zenon DEF StoreLoaded

\* loadContainer runs while the plugin is down to callers, and changes no queue and no call.
LEMMA LoadFrame ==
    ASSUME Phases, loadContainer
    PROVE  /\ ~up /\ ~status.starting /\ ~status.removing
           /\ pc[Loop] = "loadTask" /\ pc' = [pc EXCEPT ![Loop] = "storeLoaded"]
           /\ UNCHANGED <<up, inStore, stopCh, ckpt, rootDir, cntrd, waits, chans, rpc>>
BY Zenon DEF Phases, loadContainer, Goto

-----------------------------------------------------------------------------
(* What a step means for the status file and for the state that is reported *)

\* The status is changed in memory in a part that is not stored, or written to the file first; an
\* exit is not overwritten, and the file is deleted only with the container.
Records ==
    /\ \/ encode(status') = encode(status) /\ ckpt' \in {ckpt, {}}
       \/ ckpt' = {encode(status')} /\ (inStore \/ \E t \in Threads : pc[t] \in CreateSteps)
    /\ status.exit # "none" => status'.exit = status.exit
    /\ ckpt' = {} => ckpt = {} \/ ~cntrd' \/ \E t \in Threads : pc[t] \in CreateSteps

\* The state that is reported stays, or the container is created, started, exited or removed.
Moves ==
    \/ /\ inStore' <=> inStore
       /\ inStore => State(status') = State(status)
       /\ ~inStore => (status'.removing <=> status.removing)
    \/ /\ inStore /\ inStore'
       /\ \/ State(status) = "CREATED" /\ State(status') \in {"RUNNING", "EXITED"}
          \/ State(status) \in {"RUNNING", "UNKNOWN"} /\ State(status') = "EXITED"
    \/ /\ ~inStore /\ inStore' /\ State(status') = "CREATED"
       /\ \E t \in Threads : pc[t] \in CreateSteps
    \/ /\ inStore /\ ~inStore' /\ status'.removing /\ ~cntrd' /\ State(status) \in {"CREATED", "EXITED"}

\* A step of a call or of the event loop.
Served ==
    /\ up /\ up' /\ Records /\ Moves /\ Settled'
    /\ \A t \in Threads : /\ pc'[t] \in CreateSteps => pc[t] \in CreateSteps
                          /\ pc[t] \in CreateSteps => ~status'.started /\ status'.exit = "none"
    /\ cntrd' => cntrd \/ \E t \in Threads : pc[t] \in CreateSteps
    /\ task' # "none" => task # "none" \/ inStore

\* No exit monitor receives an exit, and those of the stops keep to their waits.
NoneHears == \A m \in Procs : monitor'[m] \in {monitor[m], "waiting", "off"}
Unheard == NoneHears /\ Listening'

-----------------------------------------------------------------------------
(* Types of what the handlers share *)

\* Going to the next step keeps pc a step of every process.
LEMMA GotoType ==
    ASSUME CallType, NEW p \in Procs, NEW step \in Steps, Goto(p, step)
    PROVE  pc' \in [Procs -> Steps]
BY Zenon DEF CallType, Goto

\* A handler that returns keeps the types of the calls.
LEMMA ReturnType ==
    ASSUME CallType, NEW t \in Threads, Return(t)
    PROVE  CallType'
<1>1. pc' \in [Procs -> Steps]
  BY GotoType, Zenon DEF Return, Procs, Steps
<1> QED BY <1>1, Zenon DEF CallType, Return, Calls

\* A stopContainer that returns keeps the types of pc and ok.
LEMMA StopReturnsType ==
    ASSUME CallType, NEW t \in Threads, StopReturns(t, TRUE) \/ StopReturns(t, FALSE)
    PROVE  pc' \in [Procs -> Steps] /\ ok' \in [Threads -> BOOLEAN]
<1>1. pc' \in [Procs -> Steps]
  BY GotoType, Zenon DEF StopReturns, Procs, Steps, StopSteps
<1> QED BY <1>1, Zenon DEF CallType, StopReturns

\* A handleContainerExit that returns keeps the types of pc, ok and the queues of the loop.
LEMMA ExitReturnsType ==
    ASSUME CallType, EventType, NEW p \in Procs, p = Loop => batch # <<>>,
           ExitReturns(p, TRUE) \/ ExitReturns(p, FALSE)
    PROVE  /\ pc' \in [Procs -> Steps] /\ ok' \in [Threads -> BOOLEAN]
           /\ batch' \in Seq(Events) /\ backOff' \in Seq(Events)
<1>1. CASE p = Loop
  <2>1. Tail(batch) \in Seq(Events) /\ batch \in Seq(Events) /\ <<>> \in Seq(Events)
    BY <1>1, TailHasExit DEF EventType
  <2>2. Goto(p, "idle") /\ UNCHANGED ok
    BY <1>1, LifecycleAssumption, Zenon DEF ExitReturns
  <2> QED
    BY <1>1, <2>1, <2>2, GotoType, LifecycleAssumption, Zenon DEF ExitReturns, CallType, EventType, Steps
<1>2. CASE p # Loop
  <2>1. p \in Threads /\ (StopReturns(p, TRUE) \/ StopReturns(p, FALSE)) /\ UNCHANGED <<batch, backOff>>
    BY <1>2, Zenon DEF ExitReturns, Procs
  <2> QED BY <2>1, StopReturnsType, Zenon DEF EventType
<1> QED BY <1>1, <1>2, Zenon

\* What is written to the status file is nothing, or the encoded status.
LEMMA CheckpointType ==
    ASSUME DiskType, status' \in Status, ckpt' \in {ckpt, {}, {encode(status')}}
    PROVE  ckpt' \in SUBSET Checkpoint /\ \A c, d \in ckpt' : c = d
BY EncodeType, Zenon DEF DiskType

-----------------------------------------------------------------------------
(* Types *)

\* Every step of handleContainerExit preserves the types.
LEMMA ExitType ==
    ASSUME Consistent, NEW p \in Procs, handleContainerExit(p)
    PROVE  TypeOK'
<1> USE DEF Consistent, TypeOK, Procs, At, Fine, Fault, object, disk, ctrd, mons, chans, rpc, bounds
<1>1. StatusType'
  BY ExitUpdateEffect, Zenon DEF handleContainerExit, ExitLoadTask, Goto, ExitReturns, StopReturns,
    ExitDeleteTask, TaskDelete, TaskDeleteFails, ExitUpdateStatus, UpdateSyncFails, ExitStop,
    StatusType, Control
<1>2. ObjectType'
  BY Zenon DEF handleContainerExit, ExitLoadTask, Goto, ExitReturns, StopReturns, ExitDeleteTask,
    TaskDelete, TaskDeleteFails, ExitUpdateStatus, UpdateSync, UpdateSyncFails, ExitStop, ObjectType
<1>3. BoundType'
  BY LifecycleAssumption DEF handleContainerExit, ExitLoadTask, Goto, ExitReturns, StopReturns,
    ExitDeleteTask, TaskDelete, TaskDeleteFails, ExitUpdateStatus, UpdateSync, UpdateSyncFails,
    ExitStop, BoundType
<1>4. ckpt' \in {ckpt, {}, {encode(status')}}
  BY Zenon DEF handleContainerExit, ExitLoadTask, Goto, ExitReturns, StopReturns, ExitDeleteTask,
    TaskDelete, TaskDeleteFails, ExitUpdateStatus, UpdateSync, UpdateSyncFails, ExitStop
<1>5. /\ rootDir' \in BOOLEAN /\ stateDir' \in BOOLEAN /\ cntrd' \in BOOLEAN /\ task' \in Tasks
  BY Zenon DEF handleContainerExit, ExitLoadTask, Goto, ExitReturns, StopReturns, ExitDeleteTask,
    TaskDelete, TaskDeleteFails, ExitUpdateStatus, UpdateSync, UpdateSyncFails, ExitStop, DiskType,
    Tasks, Killed
<1>6. DiskType'
  BY <1>1, <1>4, <1>5, CheckpointType, Zenon DEF StatusType, DiskType
<1>7. EventType'
  <2>1. p = Loop => batch # <<>>
    BY LifecycleAssumption, Zenon DEF Control, LoopHolds, ExitSteps, handleContainerExit,
        ExitLoadTask, ExitDeleteTask, ExitUpdateStatus, ExitStop
  <2>2. CASE ExitLoadTask(p)
    BY <2>1, <2>2, ExitReturnsType, Zenon DEF ExitLoadTask, EventType
  <2>3. CASE ExitDeleteTask(p)
    BY <2>1, <2>3, ExitReturnsType, Zenon DEF ExitDeleteTask, EventType
  <2>4. CASE ExitUpdateStatus(p)
    BY <2>1, <2>4, ExitReturnsType, Zenon DEF ExitUpdateStatus, EventType
  <2>5. CASE ExitStop(p)
    BY <2>1, <2>5, ExitReturnsType, Zenon DEF ExitStop, EventType
  <2> QED BY <2>2, <2>3, <2>4, <2>5, Zenon DEF handleContainerExit
<1>8. CallType'
  <2>1. p = Loop => batch # <<>>
    BY LifecycleAssumption, Zenon DEF Control, LoopHolds, ExitSteps, handleContainerExit,
        ExitLoadTask, ExitDeleteTask, ExitUpdateStatus, ExitStop
  <2>2. CASE ExitLoadTask(p)
    BY <2>1, <2>2, ExitReturnsType, GotoType, Zenon DEF ExitLoadTask, CallType, Steps, ExitSteps
  <2>3. CASE ExitDeleteTask(p)
    BY <2>1, <2>3, ExitReturnsType, GotoType, Zenon DEF ExitDeleteTask, CallType, Steps, ExitSteps
  <2>4. CASE ExitUpdateStatus(p)
    BY <2>1, <2>4, ExitReturnsType, GotoType, Zenon DEF ExitUpdateStatus, CallType, Steps, ExitSteps
  <2>5. CASE ExitStop(p)
    BY <2>1, <2>5, ExitReturnsType, Zenon DEF ExitStop, CallType, Steps, ExitSteps
  <2> QED BY <2>2, <2>3, <2>4, <2>5, Zenon DEF handleContainerExit
<1> QED BY <1>1, <1>2, <1>3, <1>6, <1>7, <1>8, Zenon

\* Receiving an event, the end of a back-off and handleEvent preserve the types.
LEMMA LoopType ==
    ASSUME Consistent, LoopReceive \/ LoopExpire \/ handleEvent
    PROVE  TypeOK'
<1> USE DEF Consistent, TypeOK, Procs, At, Fine, Fault, object, disk, ctrd, mons, chans, rpc, bounds
<1>1. StatusType'
  BY OOMEffect, Zenon DEF LoopReceive, Received, LoopExpire, handleEvent, ExitReturns, Goto,
      StopReturns,
    UpdateSyncFails, StatusType, Control
<1>2. ObjectType'
  BY Zenon DEF LoopReceive, Received, LoopExpire, handleEvent, ExitReturns, Goto, StopReturns, UpdateSync,
    UpdateSyncFails, ObjectType
<1>3. BoundType'
  BY LifecycleAssumption DEF LoopReceive, Received, LoopExpire, handleEvent, ExitReturns, Goto,
    StopReturns, UpdateSync, UpdateSyncFails, BoundType
<1>4. ckpt' \in {ckpt, {}, {encode(status')}}
  BY Zenon DEF LoopReceive, Received, LoopExpire, handleEvent, ExitReturns, Goto, StopReturns,
      UpdateSync,
    UpdateSyncFails
<1>5. /\ rootDir' \in BOOLEAN /\ stateDir' \in BOOLEAN /\ cntrd' \in BOOLEAN /\ task' \in Tasks
  BY Zenon DEF LoopReceive, Received, LoopExpire, handleEvent, ExitReturns, Goto, StopReturns, UpdateSync,
    UpdateSyncFails, DiskType, Tasks, Killed
<1>6. DiskType'
  BY <1>1, <1>4, <1>5, CheckpointType, Zenon DEF StatusType, DiskType
<1>7. EventType'
  <2>1. CASE LoopReceive
    <3>1. ASSUME NEW e \in Events, Received(e) PROVE batch' \in Seq(Events) /\ backOff' \in Seq(Events)
      <4>1. <<e>> \in Seq(Events) /\ Append(backOff, e) \in Seq(Events)
        BY DEF EventType
      <4> QED BY <3>1, <4>1, Zenon DEF Received, EventType
    <3>2. CASE exitCh # <<>> /\ Received(Head(exitCh)) /\ exitCh' = Tail(exitCh) /\ UNCHANGED ch
      BY <2>1, <3>1, <3>2, TailHasExit, Zenon DEF LoopReceive, EventType
    <3>3. CASE ch # <<>> /\ Received(Head(ch)) /\ ch' = Tail(ch) /\ UNCHANGED exitCh
      <4>1. Head(ch) \in Events /\ Tail(ch) \in Seq({"oom"})
        BY <3>3 DEF EventType, Events
      <4> QED BY <2>1, <3>1, <3>3, <4>1, Zenon DEF LoopReceive, EventType
    <3> QED BY <2>1, <3>2, <3>3, Zenon DEF LoopReceive
  <2>2. CASE LoopExpire
    BY <2>2, Zenon DEF LoopExpire, EventType
  <2>3. CASE handleEvent
    BY <2>3, ExitReturnsType, Zenon DEF handleEvent, EventType
  <2> QED BY <2>1, <2>2, <2>3, Zenon
<1>8. CallType'
  <2>1. CASE LoopReceive \/ LoopExpire
    BY <2>1, Zenon DEF LoopReceive, LoopExpire, CallType
  <2>2. CASE handleEvent
    BY <2>2, GotoType, ExitReturnsType, Zenon DEF handleEvent, CallType, Steps, ExitSteps
  <2> QED BY <2>1, <2>2, Zenon
<1> QED BY <1>1, <1>2, <1>3, <1>6, <1>7, <1>8, Zenon

\* The exit monitors preserve the types.
LEMMA MonitorType ==
    ASSUME Consistent, NEW m \in Procs, Monitor(m)
    PROVE  TypeOK'
<1> USE DEF Consistent, TypeOK, Procs, At, Fine, Fault, object, disk, ctrd, mons, chans, rpc, bounds
<1>1. StatusType'
  BY Zenon DEF Monitor, MonitorReceive, MonitorSend, StatusType
<1>2. ObjectType'
  BY Zenon DEF Monitor, MonitorReceive, MonitorSend, ObjectType
<1>3. BoundType'
  BY LifecycleAssumption DEF Monitor, MonitorReceive, MonitorSend, BoundType
<1>4. DiskType'
  BY Zenon DEF Monitor, MonitorReceive, MonitorSend, DiskType, Tasks, Killed
<1>5. EventType'
  <2>1. CASE MonitorReceive(m)
    BY <2>1, LifecycleAssumption, Zenon DEF MonitorReceive, EventType, Events, Exits, WaitResults
  <2>2. CASE MonitorSend(m)
    BY <2>2, LifecycleAssumption DEF MonitorSend, EventType, Events, Exits, WaitResults
  <2> QED BY <2>1, <2>2, Zenon DEF Monitor
<1>6. CallType'
  BY LifecycleAssumption DEF Monitor, MonitorReceive, MonitorSend, CallType, Steps, Calls, States,
    CreateSteps, StartSteps, StopSteps, RemoveSteps, ExitSteps, RecoverSteps
<1> QED BY <1>1, <1>2, <1>3, <1>4, <1>5, <1>6, Zenon

\* Every step of recover preserves the types.
LEMMA RecoverType ==
    ASSUME Consistent, Recover
    PROVE  TypeOK'
<1> USE DEF Consistent, TypeOK, Procs, At, Fine, Fault, object, disk, ctrd, mons, chans, rpc, bounds
<1>1. StatusType'
  <2>1. CASE LoadStatus
    BY <2>1, LoadStatusEffect, Zenon DEF StatusType
  <2>2. CASE loadContainer
    BY <2>2, LoadFrame, LoadTaskEffect, Zenon DEF Control, StatusType
  <2>3. CASE StoreLoaded
    BY <2>3, StoreLoadedEffect, Zenon DEF Control, StatusType
  <2>4. CASE cleanupOrphanedIDDirs \/ LoadSkips
    BY <2>4, Zenon DEF cleanupOrphanedIDDirs, LoadSkips, StatusType
  <2> QED BY <2>1, <2>2, <2>3, <2>4, Zenon DEF Recover
<1>2. ObjectType'
  BY Zenon DEF Recover, cleanupOrphanedIDDirs, LoadSkips, Goto, LoadStatus, loadContainer, LoadNoTask,
    LoadCreatedTask, LoadRunningTask, LoadStoppedTask, LoadFails, Attached, StoreLoaded, UpdateSync,
    UpdateSyncFails, ObjectType
<1>3. BoundType'
  <2>1. CASE cleanupOrphanedIDDirs
    <3>1. CASE Fine
      BY <2>1, <3>1, Zenon DEF cleanupOrphanedIDDirs, BoundType
    <3>2. CASE Fault
      BY <2>1, <3>2 DEF cleanupOrphanedIDDirs, BoundType
    <3> QED BY <2>1, <3>1, <3>2, Zenon DEF cleanupOrphanedIDDirs
  <2>2. CASE LoadStatus
    BY <2>2, LifecycleAssumption DEF LoadStatus, BoundType
  <2>3. CASE loadContainer
    BY <2>3, LifecycleAssumption DEF loadContainer, LoadNoTask, LoadCreatedTask, LoadRunningTask,
      LoadStoppedTask, LoadFails, Attached, BoundType
  <2>4. CASE StoreLoaded
    BY <2>4, LifecycleAssumption DEF StoreLoaded, UpdateSync, UpdateSyncFails, BoundType
  <2>5. CASE LoadSkips
    BY <2>5 DEF LoadSkips, BoundType
  <2> QED BY <2>1, <2>2, <2>3, <2>4, <2>5, Zenon DEF Recover
<1>4. ckpt' \in {ckpt, {}, {encode(status')}}
  BY Zenon DEF Recover, cleanupOrphanedIDDirs, LoadSkips, LoadStatus, loadContainer, StoreLoaded,
    UpdateSync, UpdateSyncFails
<1>5. /\ rootDir' \in BOOLEAN /\ stateDir' \in BOOLEAN /\ cntrd' \in BOOLEAN /\ task' \in Tasks
  BY Zenon DEF Recover, cleanupOrphanedIDDirs, LoadSkips, LoadStatus, loadContainer, LoadNoTask,
    LoadCreatedTask, LoadRunningTask, LoadStoppedTask, LoadFails, StoreLoaded, UpdateSync,
    UpdateSyncFails, DiskType, Tasks, Killed
<1>6. DiskType'
  BY <1>1, <1>4, <1>5, CheckpointType, Zenon DEF StatusType, DiskType
<1>7. EventType'
  BY LifecycleAssumption, Zenon DEF Recover, cleanupOrphanedIDDirs, LoadSkips, LoadStatus,
    loadContainer, LoadNoTask, LoadCreatedTask, LoadRunningTask, LoadStoppedTask, LoadFails,
    StoreLoaded, EventType
<1>8. CallType'
  BY GotoType, Zenon DEF Recover, cleanupOrphanedIDDirs, LoadSkips, LoadStatus, loadContainer,
    StoreLoaded, CallType, Calls,
    Steps, CreateSteps, StartSteps, StopSteps, RemoveSteps, ExitSteps, RecoverSteps
<1> QED BY <1>1, <1>2, <1>3, <1>6, <1>7, <1>8, Zenon

\* The end of the process of the plugin preserves the types.
LEMMA DownType ==
    ASSUME TypeOK, Down, crashes' \in Nat
    PROVE  TypeOK'
<1> USE LifecycleAssumption DEF TypeOK, Down, Procs, disk, ctrd
<1>1. StatusType' /\ ObjectType'
  BY StatusConstants, Zenon DEF StatusType, ObjectType
<1>2. DiskType' /\ BoundType'
  BY Zenon DEF DiskType, BoundType
<1>3. EventType'
  BY DEF EventType, Events
<1>4. CallType'
  BY Zenon DEF CallType, Calls, Steps, RecoverSteps
<1> QED BY <1>1, <1>2, <1>3, <1>4, Zenon

\* What the process, containerd and the host do, a crash included, preserves the types.
LEMMA EnvironmentType ==
    ASSUME Consistent, Environment
    PROVE  TypeOK'
<1> USE DEF Consistent, TypeOK, Procs, At, Fine, Fault, object, disk, ctrd, mons, chans, rpc, bounds
<1>0. CASE Crash
  BY <1>0, DownType DEF Crash, BoundType
<1> SUFFICES ASSUME ~Crash PROVE TypeOK'
  BY <1>0, Zenon
<1>1. StatusType'
  BY Zenon DEF Environment, TaskExit, TaskOOM, SandboxStops, HostReboots,
    ContainerDeletedOutside, StatusType
<1>2. ObjectType'
  BY Zenon DEF Environment, TaskExit, TaskOOM, SandboxStops, HostReboots, ContainerDeletedOutside,
    ObjectType
<1>3. BoundType'
  <2>1. CASE TaskExit
    BY <2>1, LifecycleAssumption, Zenon DEF TaskExit, BoundType
  <2>2. CASE TaskOOM
    BY <2>2, LifecycleAssumption DEF TaskOOM, BoundType
  <2>3. CASE SandboxStops
    BY <2>3, LifecycleAssumption, Zenon DEF SandboxStops, BoundType
  <2>4. CASE HostReboots
    BY <2>4, LifecycleAssumption, Zenon DEF HostReboots, BoundType
  <2>5. CASE ContainerDeletedOutside
    BY <2>5, LifecycleAssumption, Zenon DEF ContainerDeletedOutside, BoundType
  <2> QED BY <2>1, <2>2, <2>3, <2>4, <2>5, Zenon DEF Environment
<1>4. DiskType'
  BY Zenon DEF Environment, TaskExit, TaskOOM, SandboxStops, HostReboots, ContainerDeletedOutside,
    DiskType, Tasks, Killed
<1>5. EventType'
  <2>1. CASE TaskExit
    BY <2>1, LifecycleAssumption, Zenon DEF TaskExit, EventType, Events
  <2>2. CASE TaskOOM
    BY <2>2, LifecycleAssumption DEF TaskOOM, EventType, Events
  <2>3. CASE SandboxStops
    BY <2>3, LifecycleAssumption, Zenon DEF SandboxStops, EventType, Events
  <2>4. CASE HostReboots
    BY <2>4, LifecycleAssumption, Zenon DEF HostReboots, EventType, Events
  <2>5. CASE ContainerDeletedOutside
    BY <2>5, LifecycleAssumption, Zenon DEF ContainerDeletedOutside, EventType, Events
  <2> QED BY <2>1, <2>2, <2>3, <2>4, <2>5, Zenon DEF Environment
<1>6. CallType'
  <2>1. CASE TaskExit
    BY <2>1, LifecycleAssumption, Zenon DEF TaskExit, CallType, Calls, Steps, RecoverSteps
  <2>2. CASE TaskOOM
    BY <2>2, LifecycleAssumption, Zenon DEF TaskOOM, CallType, Calls, Steps, RecoverSteps
  <2>3. CASE SandboxStops
    BY <2>3, LifecycleAssumption, Zenon DEF SandboxStops, CallType, Calls, Steps, RecoverSteps
  <2>4. CASE HostReboots
    BY <2>4, LifecycleAssumption, Zenon DEF HostReboots, CallType, Calls, Steps, RecoverSteps
  <2>5. CASE ContainerDeletedOutside
    BY <2>5, LifecycleAssumption, Zenon DEF ContainerDeletedOutside, CallType, Calls, Steps, RecoverSteps
  <2> QED BY <2>1, <2>2, <2>3, <2>4, <2>5, Zenon DEF Environment
<1> QED BY <1>1, <1>2, <1>3, <1>4, <1>5, <1>6, Zenon

-----------------------------------------------------------------------------
(* handleContainerExit *)

\* A step of handleContainerExit goes on only with the task gone, records an exit before it closes
\* StopCh, and keeps the event queued until then.
HandlesExit(p) ==
    /\ pc[p] \in ExitSteps /\ pc' = [pc EXCEPT ![p] = pc'[p]]
    /\ pc'[p] \in ExitSteps \cup (IF p = Loop THEN {"idle"} ELSE {"exitCancel", "stopped"})
    /\ UNCHANGED <<up, inStore, rootDir, stateDir, cntrd, exitCh, monitor, waits, seen>>
    /\ status'.starting = status.starting /\ status'.removing = status.removing
    /\ \/ UNCHANGED <<status, ckpt>> /\ (pc'[p] = "exitStop" => pc[p] = "exitStop")
       \/ rootDir /\ State(status') = "EXITED" /\ status'.exit # "none" /\ pc[p] = "exitUpdate"
    /\ io' = "nil" => io = "nil"
    /\ (stopCh' => stopCh \/ pc[p] = "exitStop")
    /\ (task = "none" => task' = "none") /\ (pc'[p] \in {"exitUpdate", "exitStop"} => task' = "none")
    /\ \A t \in Threads : ok'[t] => ok[t] \/ t = p
    /\ p \in Threads /\ ok'[p] /\ pc'[p] \notin ExitSteps => task' = "none"
    /\ ExitQueued => ExitQueued' \/ pc[p] = "exitStop"

\* Every step of handleContainerExit is such a step, in the loop and in cleanupUnknownContainer,
LEMMA ExitEffect ==
    ASSUME Consistent, NEW p \in Procs, handleContainerExit(p)
    PROVE  LoopHolds' /\ HandlesExit(p)
<1>1. TypeOK /\ LoopHolds /\ Gone
  BY Zenon DEF Consistent, Control
<1> USE <1>1, LifecycleAssumption, EmptyNoExit
    DEF At, Goto, ExitReturns, StopReturns, LoopHolds, ExitSteps, HandlesExit, ExitQueued, Procs,
        TypeOK, CallType, EventType, object, disk, ctrd, mons
<1>2. CASE ExitLoadTask(p)
  BY <1>2 DEF ExitLoadTask
<1>3. CASE ExitDeleteTask(p)
  BY <1>3, Zenon DEF ExitDeleteTask, TaskDelete, TaskDeleteFails
<1>4. CASE ExitUpdateStatus(p)
  <2>1. /\ status'.starting = status.starting /\ status'.removing = status.removing
        /\ \/ status' = status /\ ckpt' = ckpt /\ pc'[p] # "exitStop"
           \/ rootDir /\ status'.exit # "none" /\ State(status') = "EXITED"
    BY <1>4, ExitUpdateEffect, Zenon
  <2> QED BY <1>4, <2>1, Zenon DEF ExitUpdateStatus, Gone
<1>5. CASE ExitStop(p)
  BY <1>5, Zenon DEF ExitStop, Gone
<1> QED BY <1>2, <1>3, <1>4, <1>5, Zenon DEF handleContainerExit

\* and preserves the control invariant.
LEMMA ExitControl ==
    ASSUME Consistent, NEW p \in Procs, handleContainerExit(p)
    PROVE  Control'
<1>1. /\ TypeOK /\ Phases /\ CreateAlone /\ Handles /\ Stopping /\ Locks /\ LoopHolds
      /\ ExitTracked /\ NotStartedYet /\ Gone /\ Removal /\ IOSet
  BY Zenon DEF Consistent, Control
<1>2. LoopHolds' /\ HandlesExit(p)
  BY ExitEffect, Zenon
<1>3. up /\ State(status) # "CREATED" /\ \A t \in Threads : pc[t] \notin CreateSteps \cup NotStarted
  BY <1>1, <1>2, LifecycleAssumption, Zenon
  DEF HandlesExit, Phases, CreateAlone, NotStartedYet, Quiet, ExitSteps, RecoverSteps,
      CreateSteps, Procs
<1> USE <1>1, <1>2, <1>3, LifecycleAssumption DEF HandlesExit, ExitSteps, Procs, TypeOK, CallType
<1>4. Phases' /\ CreateAlone' /\ Handles' /\ Stopping' /\ Locks'
  BY DEF Phases, CreateAlone, Handles, Stopping, Locks, StartRemoveExclusion, CreateSteps,
      StartSteps,
         RemoveSteps, RecoverSteps
<1>5. ExitTracked'
  BY StateExit DEF ExitTracked, Phases, StatusType, RecoverSteps
<1>6. NotStartedYet' /\ Gone'
  BY Zenon DEF NotStartedYet, Gone, NotStarted, Phases, RecoverSteps
<1>7. Removal' /\ IOSet'
  BY DEF Removal, RemovedLeavesNothing, IOSet, Gone, Phases, RemoveSteps, RecoverSteps
<1> QED BY <1>4, <1>5, <1>6, <1>7, Zenon DEF Control

\* It records the first exit, and makes the container EXITED on disk before it does in memory.
LEMMA ExitServed ==
    ASSUME Inductive, NEW p \in Procs, handleContainerExit(p)
    PROVE  Served /\ Unheard
<1>1. /\ TypeOK /\ Phases /\ CreateAlone /\ Handles /\ NotStartedYet /\ Removal /\ Settled
      /\ Listening /\ HandlesExit(p)
      /\ \A t \in Threads : pc[t] \in CreateSteps => ~status.started
  BY ExitEffect, Zenon DEF Inductive, Consistent, Control, Recorded
<1>2. up /\ State(status) \in {"RUNNING", "EXITED", "UNKNOWN"} /\ status \in Status
  BY <1>1, StateExit, LifecycleAssumption, Zenon
  DEF HandlesExit, Phases, NotStartedYet, Quiet, ExitSteps, RecoverSteps, States, Procs, TypeOK,
      StatusType
<1>3. Records
  <2>0. rootDir => inStore
    BY <1>1, <1>2, LifecycleAssumption, Zenon
    DEF HandlesExit, Handles, Removal, RemovedLeavesNothing, Settled, CreateSteps, ExitSteps, Procs
  <2> USE DEF Records, disk, object
  <2>1. CASE ExitLoadTask(p)
    BY <2>1, Zenon DEF ExitLoadTask
  <2>2. CASE ExitDeleteTask(p)
    BY <2>2, Zenon DEF ExitDeleteTask
  <2>3. CASE ExitUpdateStatus(p)
    BY <1>2, <2>0, <2>3, Zenon DEF ExitUpdateStatus, UpdateSync, UpdateSyncFails, Exited, Status
  <2>4. CASE ExitStop(p)
    BY <2>4, Zenon DEF ExitStop
  <2> QED BY <2>1, <2>2, <2>3, <2>4, Zenon DEF handleContainerExit
<1>4. Moves
  BY <1>1, <1>2, Zenon DEF HandlesExit, Moves
<1>5. Settled'
  BY <1>1, <1>2, LifecycleAssumption, Zenon
  DEF HandlesExit, Settled, ExitSteps, TypeOK, CallType, Procs
<1>6. Unheard
  BY <1>1, LifecycleAssumption, Zenon
  DEF HandlesExit, Unheard, NoneHears, Listening, ExitSteps, TypeOK, CallType, EventType, Procs
<1>7. \A t \in Threads : pc[t] \notin CreateSteps /\ pc'[t] \notin CreateSteps
  BY <1>1, LifecycleAssumption
  DEF HandlesExit, CreateAlone, ExitSteps, CreateSteps, TypeOK, CallType, Procs
<1> QED BY <1>1, <1>2, <1>3, <1>4, <1>5, <1>6, <1>7, Zenon DEF Served, HandlesExit

-----------------------------------------------------------------------------
(* The exit monitors, the queues of the loop, and the environment *)

\* A step in the background touches neither a call nor the container object.  It may take the task
\* away, and moves the exit events without losing one or inventing one.
Background ==
    /\ UNCHANGED <<up, inStore, status, stopCh, io, ckpt, rootDir, pc, seen, ok, waits>>
    /\ \A m \in Procs : monitor'[m] = "waiting" => monitor[m] = "waiting"
    /\ (stateDir' => stateDir) /\ (cntrd' => cntrd) /\ (task = "none" => task' = "none")
    /\ LoopHolds' /\ (Quiet => Quiet')
    /\ monitor[Loop] # "off" \/ ExitQueued => monitor'[Loop] # "off" \/ ExitQueued'

\* Such a step preserves the control invariant.
LEMMA BackgroundControl ==
    ASSUME Consistent, Background
    PROVE  Control'
<1>1. /\ TypeOK /\ Phases /\ CreateAlone /\ Handles /\ Stopping /\ Locks /\ ExitTracked
      /\ NotStartedYet /\ Gone /\ Removal /\ IOSet
  BY Zenon DEF Consistent, Control
<1>2. Phases' /\ CreateAlone' /\ Handles' /\ Stopping' /\ Locks'
  BY <1>1 DEF Background, Phases, CreateAlone, Handles, Stopping, Locks, StartRemoveExclusion
<1>3. LoopHolds' /\ ExitTracked' /\ NotStartedYet' /\ Gone'
  BY <1>1, Zenon DEF Background, ExitTracked, NotStartedYet, Gone
<1>4. Removal' /\ IOSet'
  BY <1>1, Zenon DEF Background, Removal, RemovedLeavesNothing, IOSet
<1> QED BY <1>2, <1>3, <1>4, Zenon DEF Control

\* It leaves what is recorded and what is reported alone, and the exit monitors to their waits.
LEMMA BackgroundServed ==
    ASSUME Inductive, Background
    PROVE  (up => Served) /\ Settled' /\ Listening'
<1>1. Settled /\ Recorded /\ Listening /\ CreateAlone
  BY Zenon DEF Inductive, Consistent, Control
<1>2. Settled' /\ Listening'
  BY <1>1, Zenon DEF Background, Settled, Listening, Procs
<1>3. Records /\ Moves
  BY Zenon DEF Background, Records, Moves
<1> QED BY <1>1, <1>2, <1>3, Zenon DEF Background, Served, CreateAlone, Recorded

\* The exit monitors of startExitMonitor work in the background,
LEMMA MonitorEffect ==
    ASSUME Consistent, NEW m \in Procs, Monitor(m)
    PROVE  Background
<1>1. TypeOK /\ EventType /\ LoopHolds
  BY Zenon DEF Consistent, Control, TypeOK
<1> USE <1>1, LifecycleAssumption
    DEF Background, LoopHolds, Quiet, ExitQueued, EventType, Procs, Exits, object, disk, ctrd, mons,
        chans, rpc
<1>2. CASE MonitorReceive(m)
  BY <1>2, Zenon DEF MonitorReceive, WaitResults
<1>3. CASE MonitorSend(m)
  <2>1. ExitQueued'
    BY <1>3, SendEffect, Zenon
  <2> QED BY <1>3, <2>1, Zenon DEF MonitorSend
<1> QED BY <1>2, <1>3, Zenon DEF Monitor

\* as do the process, containerd and the host, unless the plugin crashes,
LEMMA EnvironmentEffect ==
    ASSUME Consistent, Environment, ~Crash
    PROVE  Background
<1>1. TypeOK /\ LoopHolds
  BY Zenon DEF Consistent, Control
<1> USE <1>1 DEF Background, LoopHolds, Quiet, ExitQueued, Alive, object, disk, ctrd, mons, chans, rpc
<1>2. CASE TaskExit
  BY <1>2, Zenon DEF TaskExit
<1>3. CASE TaskOOM
  BY <1>3, Zenon DEF TaskOOM
<1>4. CASE SandboxStops
  BY <1>4, Zenon DEF SandboxStops
<1>5. CASE HostReboots
  BY <1>5, Zenon DEF HostReboots
<1>6. CASE ContainerDeletedOutside
  BY <1>6, Zenon DEF ContainerDeletedOutside
<1> QED BY <1>2, <1>3, <1>4, <1>5, <1>6, Zenon DEF Environment

\* and the loop while it fills its batch.
LEMMA QueueEffect ==
    ASSUME Consistent, LoopReceive \/ LoopExpire
    PROVE  Background
<1>1. TypeOK /\ EventType /\ LoopHolds
  BY Zenon DEF Consistent, Control, TypeOK
<1>2. CASE LoopReceive
  <2>1. ExitQueued' <=> ExitQueued
    BY <1>1, <1>2, ReceiveEffect, Zenon
  <2>2. LoopHolds'
    BY <1>1, <1>2, Zenon DEF LoopReceive, Received, LoopHolds, At, ExitSteps, EventType
  <2> QED BY <1>2, <2>1, <2>2, Zenon DEF LoopReceive, Background, Quiet, object, disk, ctrd, mons, rpc
<1>3. CASE LoopExpire
  BY <1>1, <1>3, EmptyNoExit, Zenon
  DEF LoopExpire, Background, LoopHolds, Quiet, ExitQueued, At, ExitSteps, object, disk, ctrd, mons,
      rpc
<1> QED BY <1>2, <1>3, Zenon

\* Of these, only the monitor that receives from task.Wait hears of an exit.
LEMMA BackgroundHears ==
    ASSUME TypeOK, \/ \E m \in Procs : MonitorSend(m)
                   \/ LoopReceive \/ LoopExpire \/ (Environment /\ ~Crash)
    PROVE  NoneHears
<1> USE DEF NoneHears, TypeOK, EventType, mons
<1>1. ASSUME NEW m \in Procs, MonitorSend(m) PROVE NoneHears
  BY <1>1, Zenon DEF MonitorSend
<1>2. CASE LoopReceive \/ LoopExpire
  BY <1>2, Zenon DEF LoopReceive, LoopExpire
<1>3. CASE Environment /\ ~Crash
  BY <1>3, Zenon DEF Environment, TaskExit, TaskOOM, SandboxStops, HostReboots, ContainerDeletedOutside
<1> QED BY <1>1, <1>2, <1>3, Zenon

-----------------------------------------------------------------------------
(* The end of the process, and the dispatch of an event *)

\* The end of the process leaves a state in which nothing but recovery can go on.
LEMMA DownControl ==
    ASSUME Consistent, Down
    PROVE  Control'
<1>1. TypeOK /\ Gone /\ Removal
  BY Zenon DEF Consistent, Control
<1>2. Quiet'
  BY EmptyNoExit, LifecycleAssumption, Zenon DEF Down, Quiet, ExitQueued, Procs, Acting, ExitSteps
<1> USE <1>1, StatusConstants, LifecycleAssumption DEF Down, Procs
<1>3. Phases' /\ CreateAlone' /\ Handles' /\ Stopping' /\ Locks'
  BY <1>2, Zenon DEF Phases, CreateAlone, Handles, Stopping, Locks, StartRemoveExclusion, CreateSteps,
              StartSteps, RemoveSteps, ExitSteps, RecoverSteps, Acting
<1>4. LoopHolds' /\ ExitTracked' /\ NotStartedYet' /\ Gone' /\ Removal' /\ IOSet'
  BY Zenon DEF LoopHolds, ExitTracked, NotStartedYet, NotStarted, Gone, Removal, RemovedLeavesNothing,
         RemoveSteps,         IOSet, ExitSteps
<1> QED BY <1>3, <1>4, Zenon DEF Control

\* Nobody holds, removes or listens to the container then.
LEMMA DownRecorded ==
    ASSUME Down
    PROVE  Recorded' /\ Settled' /\ Listening'
BY LifecycleAssumption, Zenon
DEF Down, Recorded, Settled, Listening, CreateSteps, Procs

\* handleEvent changes at most the OOM reason, or goes to handleContainerExit with the event.
Dispatches ==
    /\ up /\ up' /\ pc[Loop] = "idle"
    /\ State(status') = State(status) /\ status'.exit = status.exit
    /\ status'.starting = status.starting /\ status'.removing = status.removing
    /\ ExitQueued' => ExitQueued
    /\ inStore /\ ExitQueued => ExitQueued'
    /\ pc' = pc \/ (pc' = [pc EXCEPT ![Loop] = "exitTask"] /\ inStore /\ ExitQueued)
    /\ ckpt' = ckpt \/ (inStore /\ rootDir)
    /\ UNCHANGED <<inStore, stopCh, io, rootDir, stateDir, task, cntrd, monitor, waits, seen, ok>>

\* The dispatch of an event is such a step,
LEMMA DispatchEffect ==
    ASSUME Consistent, handleEvent
    PROVE  Dispatches
<1>1. StatusType /\ EventType /\ CallType /\ LoopHolds
  BY Zenon DEF Consistent, Control, TypeOK
<1>2. /\ State(status') = State(status) /\ status'.exit = status.exit
      /\ status'.starting = status.starting /\ status'.removing = status.removing
  BY <1>1, OOMEffect, Zenon
<1> QED BY <1>1, <1>2, HandleEffect DEF Dispatches, ctrd, mons, rpc

\* preserves the control invariant,
LEMMA DispatchControl ==
    ASSUME Consistent, handleEvent
    PROVE  Control'
<1>1. /\ TypeOK /\ Phases /\ CreateAlone /\ Handles /\ Stopping /\ Locks /\ LoopHolds
      /\ ExitTracked /\ NotStartedYet /\ Gone /\ Removal /\ IOSet
  BY Zenon DEF Consistent, Control
<1>2. CallType /\ EventType /\ Dispatches
  BY <1>1, DispatchEffect, Zenon DEF TypeOK
<1>3. LoopHolds'
  BY <1>1, <1>2, LifecycleAssumption, Zenon
  DEF handleEvent, At, Goto, ExitReturns, LoopHolds, EventType, CallType, Procs, ExitSteps
<1> USE <1>1, <1>2, LifecycleAssumption DEF Dispatches, CallType, Procs, ExitSteps
<1>4. Quiet => Quiet'
  BY Zenon DEF Quiet
<1>5. Phases' /\ CreateAlone' /\ Handles' /\ Stopping' /\ Locks'
  BY <1>4 DEF Phases, CreateAlone, Handles, Stopping, Locks, StartRemoveExclusion, CreateSteps,
              StartSteps, RemoveSteps, RecoverSteps
<1>6. ExitTracked' /\ NotStartedYet' /\ Gone'
  BY <1>4 DEF ExitTracked, NotStartedYet, Gone, NotStarted
<1>7. Removal' /\ IOSet'
  BY Zenon DEF Removal, RemovedLeavesNothing, IOSet, Locks, RemoveSteps
<1> QED BY <1>3, <1>5, <1>6, <1>7, Zenon DEF Control

\* and keeps file and memory the same.
LEMMA DispatchServed ==
    ASSUME Inductive, handleEvent
    PROVE  Served /\ Unheard
<1>1. /\ TypeOK /\ Phases /\ CreateAlone /\ Settled /\ Recorded /\ Listening /\ Dispatches
      /\ StatusType
  BY DispatchEffect, Zenon DEF Inductive, Consistent, Control, TypeOK
<1>2. Records /\ (status' = status \/ inStore)
  BY <1>1, Zenon DEF Dispatches, Records, handleEvent, UpdateSync, UpdateSyncFails
<1>3. Moves
  BY <1>1, Zenon DEF Dispatches, Moves
<1>4. Settled'
  BY <1>1, LifecycleAssumption, Zenon DEF Dispatches, Settled, TypeOK, CallType, Procs
<1>5. Unheard
  BY <1>1, LifecycleAssumption, Zenon DEF Dispatches, Unheard, NoneHears, Listening, TypeOK, CallType, EventType, Procs
<1>6. \A t \in Threads : pc'[t] = pc[t]
  BY <1>1, LifecycleAssumption, Zenon DEF Dispatches, TypeOK, CallType, Procs
<1> QED BY <1>1, <1>2, <1>3, <1>4, <1>5, <1>6, Zenon DEF Served, Dispatches, CreateAlone, Recorded

-----------------------------------------------------------------------------
(* Recovery *)

\* The steps of recover: the container is left out, or its status is read, brought up to date with
\* its task, and put in the store.
LeftOut ==
    /\ pc[Loop] = "load" /\ pc'[Loop] = "idle" /\ up'
    /\ UNCHANGED <<inStore, status, stopCh, monitor>>
StatusRead ==
    /\ pc[Loop] = "load" /\ pc'[Loop] = "loadTask" /\ ~up'
    /\ UNCHANGED <<inStore, stopCh, monitor, task>>
Loaded ==
    /\ pc[Loop] = "loadTask" /\ pc'[Loop] = "storeLoaded" /\ ~up' /\ UNCHANGED <<inStore, stopCh>>
    /\ State(status') = "CREATED" => State(status) = "CREATED" /\ io' # "nil" /\ monitor' = monitor
    /\ State(status') = "RUNNING" => monitor'[Loop] = "waiting" /\ io' # "nil"
    /\ State(status') = "EXITED" => task' = "none"
Stored ==
    /\ pc[Loop] = "storeLoaded" /\ pc'[Loop] = "idle" /\ up' /\ UNCHANGED <<status, io, monitor, task>>
    /\ stopCh' => State(status) = "EXITED"
Recovers ==
    /\ LeftOut \/ StatusRead \/ Loaded \/ Stored
    /\ ~up /\ ~status'.starting /\ ~status'.removing
    /\ pc' = [pc EXCEPT ![Loop] = pc'[Loop]] /\ UNCHANGED <<exitCh, backOff, batch, seen, ok>>

\* Every step of recover is such a step,
LEMMA RecoverEffect ==
    ASSUME Consistent, Recover
    PROVE  Recovers
<1>1. TypeOK /\ Phases
  BY Zenon DEF Consistent, Control
<1>2. StatusType /\ DiskType /\ EventType /\ CallType
  BY <1>1, Zenon DEF TypeOK
<1>3. CASE cleanupOrphanedIDDirs \/ LoadSkips
  BY <1>1, <1>2, <1>3, StatusConstants, Zenon
  DEF cleanupOrphanedIDDirs, LoadSkips, Goto, Phases, Recovers, LeftOut, CallType, Procs, object,
      mons, chans, rpc
<1>4. CASE LoadStatus
  <2>1. ~status'.starting /\ ~status'.removing
    BY <1>2, <1>4, LoadStatusEffect, Zenon
  <2> QED BY <1>2, <1>4, <2>1, Zenon DEF LoadStatus, Goto, Recovers, StatusRead, CallType, Procs, ctrd,
      mons,
                 chans, rpc
<1>5. CASE loadContainer
  <2>1. /\ ~up /\ ~status.starting /\ ~status.removing /\ pc[Loop] = "loadTask"
        /\ pc' = [pc EXCEPT ![Loop] = "storeLoaded"]
        /\ UNCHANGED <<up, inStore, stopCh, chans, rpc>>
    BY <1>1, <1>5, LoadFrame, Zenon
  <2>2. /\ ~status'.starting /\ ~status'.removing
        /\ State(status') = "CREATED" =>
              State(status) = "CREATED" /\ io' # "nil" /\ monitor' = monitor
        /\ State(status') = "RUNNING" => monitor'[Loop] = "waiting" /\ io' # "nil"
        /\ State(status') = "EXITED" => task' = "none"
    BY <1>2, <1>5, <2>1, LoadTaskEffect, Zenon
  <2> QED BY <1>2, <2>1, <2>2, Zenon DEF Recovers, Loaded, CallType, Procs, chans, rpc
<1>6. CASE StoreLoaded
  <2>1. /\ ~up /\ up' /\ pc[Loop] = "storeLoaded" /\ pc' = [pc EXCEPT ![Loop] = "idle"]
        /\ status' = status /\ (stopCh' => State(status) = "EXITED")
        /\ UNCHANGED <<io, ctrd, mons, chans, rpc>>
    BY <1>1, <1>6, StoreLoadedEffect, Zenon
  <2> QED BY <1>1, <1>2, <2>1, Zenon DEF Recovers, Stored, Phases, CallType, Procs, ctrd, mons, chans,
      rpc
<1> QED BY <1>3, <1>4, <1>5, <1>6, Zenon DEF Recover

\* and preserves the control invariant.
LEMMA RecoverControl ==
    ASSUME Consistent, Recover
    PROVE  Control'
<1>1. TypeOK /\ Phases /\ LoopHolds /\ ExitTracked /\ NotStartedYet /\ Gone /\ IOSet
  BY Zenon DEF Consistent, Control
<1>2. StatusType /\ DiskType /\ EventType /\ CallType
  BY <1>1, Zenon DEF TypeOK
<1>3. Recovers
  BY RecoverEffect, Zenon
\* No call is in progress, and the container is not in the store.
<1>4. /\ \A t \in Threads : pc[t] = "idle" /\ pc'[t] = "idle"
      /\ pc[Loop] \in RecoverSteps /\ pc'[Loop] \in RecoverSteps \cup {"idle"} /\ ~inStore
  BY <1>1, <1>2, <1>3, LifecycleAssumption, Zenon
  DEF Phases, Recovers, LeftOut, StatusRead, Loaded, Stored, RecoverSteps, CallType, Procs
<1>5. pc[Loop] \in {"load", "loadTask"} /\ monitor' = monitor /\ stopCh' = stopCh => Quiet'
  BY <1>1, <1>3, <1>4 DEF Phases, Recovers, Quiet, ExitQueued, ExitSteps, RecoverSteps, Procs
<1> USE <1>1, <1>3, <1>4, <1>5, LifecycleAssumption
    DEF Recovers, LeftOut, StatusRead, Loaded, Stored, ExitSteps, RecoverSteps, Procs
<1>6. Phases'
  BY DEF Phases, Quiet
<1>7. CreateAlone' /\ Handles' /\ Stopping' /\ Locks' /\ LoopHolds'
  BY Zenon DEF CreateAlone, Handles, Stopping, Locks, StartRemoveExclusion, LoopHolds, CreateSteps,
         StartSteps, RemoveSteps
<1>8. ExitTracked'
  BY DEF ExitTracked, ExitQueued
<1>9. NotStartedYet'
  <2>1. CASE pc[Loop] # "storeLoaded"
    BY <2>1, StatusConstants, Zenon DEF NotStartedYet, NotStarted, Phases
  <2>2. CASE pc[Loop] = "storeLoaded"
    BY <2>2, Zenon DEF NotStartedYet, NotStarted, Quiet, ExitQueued
  <2> QED BY <2>1, <2>2, Zenon
<1>10. Gone' /\ Removal' /\ IOSet'
  BY StatusConstants DEF Gone, Removal, RemovedLeavesNothing, IOSet, Phases, RemoveSteps, Quiet
<1> QED BY <1>6, <1>7, <1>8, <1>9, <1>10, Zenon DEF Control

\* What the steps of recover make of the status file: they delete the file of a container that
\* containerd has not, or leave it; read it, or take the container for UNKNOWN; never clear what was
\* read when they bring it up to date with the task; and write it back, or leave the container out.
Discards ==
    /\ pc[Loop] = "load" /\ pc'[Loop] = "idle" /\ up' /\ ~inStore' /\ ~status'.removing
    /\ ckpt' = ckpt \/ (ckpt' = {} /\ ~cntrd)
ReadsBack ==
    /\ pc[Loop] = "load" /\ pc'[Loop] = "loadTask" /\ ~up' /\ ~inStore' /\ cntrd /\ ckpt' = ckpt
    /\ \/ status'.unknown /\ ~status'.started /\ status'.exit = "none"
       \/ \E c \in ckpt : status'.started = c.started /\ status'.exit = c.exit
BringsUpToDate ==
    /\ pc[Loop] = "loadTask" /\ pc'[Loop] = "storeLoaded" /\ ~up' /\ ~inStore' /\ ckpt' = ckpt
    /\ status.unknown => status'.unknown
    /\ status.exit # "none" => status'.exit # "none"
    /\ status.started => status'.started
    /\ task = "none" /\ ~status.started /\ status.exit = "none" =>
          ~status'.started /\ status'.exit = "none"
PutsBack ==
    /\ pc[Loop] = "storeLoaded" /\ pc'[Loop] = "idle" /\ up' /\ status' = status /\ ~status.removing
    /\ (ckpt' = {encode(status)} /\ inStore') \/ (ckpt' = ckpt /\ ~inStore')
Restores ==
    /\ ~up /\ ~inStore /\ cntrd' = cntrd /\ (task = "none" => task' = "none") /\ waits' = waits
    /\ \A t \in Threads : pc[t] = "idle" /\ pc'[t] = "idle" /\ monitor'[t] = monitor[t]
    /\ monitor'[Loop] \in {monitor[Loop], "waiting"}
    /\ Discards \/ ReadsBack \/ BringsUpToDate \/ PutsBack

\* LoadStatus takes the exit and the start from the file, or the container for UNKNOWN.
LEMMA ReadEffect ==
    ASSUME LoadStatus
    PROVE  \/ status'.unknown /\ ~status'.started /\ status'.exit = "none"
           \/ \E c \in ckpt : status'.started = c.started /\ status'.exit = c.exit
<1>1. CASE status' = unknownContainerStatus
  BY <1>1, Zenon DEF unknownContainerStatus, ZeroStatus
<1>2. CASE \E c \in ckpt : status' = decode(c)
  BY <1>2 DEF decode
<1> QED BY <1>1, <1>2, Zenon DEF LoadStatus

\* loadContainer clears nothing of the status it has read.
LEMMA MatchEffect ==
    ASSUME Consistent, loadContainer
    PROVE  /\ status.unknown => status'.unknown
           /\ status.exit # "none" => status'.exit # "none"
           /\ status.started => status'.started
           /\ task = "none" /\ ~status.started /\ status.exit = "none" =>
                 ~status'.started /\ status'.exit = "none"
           /\ task = "none" => task' = "none"
           /\ monitor' = monitor \/ monitor' = [monitor EXCEPT ![Loop] = "waiting"]
<1>1. status \in Status
  BY Zenon DEF Consistent, TypeOK, StatusType
<1> USE <1>1 DEF Status, State, Alive
<1>2. CASE LoadNoTask
  BY <1>2, Zenon DEF LoadNoTask
<1>3. CASE LoadCreatedTask
  BY <1>3, Zenon DEF LoadCreatedTask
<1>4. CASE LoadRunningTask
  BY <1>4, Zenon DEF LoadRunningTask
<1>5. CASE LoadStoppedTask
  BY <1>5, Zenon DEF LoadStoppedTask
<1>6. CASE LoadFails
  BY <1>6, Zenon DEF LoadFails
<1> QED BY <1>2, <1>3, <1>4, <1>5, <1>6, Zenon DEF loadContainer

\* Every step of recover is one of those.
LEMMA RecoverRestores ==
    ASSUME Consistent, Recover
    PROVE  Restores
<1>1. TypeOK /\ Phases /\ StatusType /\ CallType /\ EventType
  BY Zenon DEF Consistent, Control, TypeOK
<1>2. ~up /\ ~inStore /\ ~status.removing /\ \A t \in Threads : pc[t] = "idle"
  BY <1>1, Zenon DEF Recover, cleanupOrphanedIDDirs, LoadSkips, LoadStatus, loadContainer,
       StoreLoaded, Phases
<1> USE <1>1, <1>2, LifecycleAssumption
    DEF Goto, CallType, EventType, Procs, Restores, object, disk, ctrd, mons
<1>3. CASE cleanupOrphanedIDDirs \/ LoadSkips
  <2>1. CASE cleanupOrphanedIDDirs
    BY <2>1, Zenon DEF cleanupOrphanedIDDirs, Discards
  <2>2. CASE LoadSkips
    BY <2>2, Zenon DEF LoadSkips, Discards
  <2> QED BY <1>3, <2>1, <2>2, Zenon
<1>4. CASE LoadStatus
  BY <1>4, ReadEffect, Zenon DEF LoadStatus, ReadsBack
<1>5. CASE loadContainer
  BY <1>5, MatchEffect, Zenon DEF loadContainer, BringsUpToDate
<1>6. CASE StoreLoaded
  BY <1>6 DEF StoreLoaded, UpdateSync, UpdateSyncFails, PutsBack
<1> QED BY <1>3, <1>4, <1>5, <1>6, Zenon DEF Recover

\* Recovery keeps what it has read of the exit, and leaves nobody with the container.
LEMMA RestoresRecorded ==
    ASSUME Inductive, Restores
    PROVE  Recorded' /\ Settled' /\ Listening'
<1>1. DiskType /\ Recorded /\ Settled /\ Listening
  BY Zenon DEF Inductive, Consistent, TypeOK
<1> USE <1>1 DEF Restores, Discards, ReadsBack, BringsUpToDate, PutsBack
<1>2. Recorded'
  BY Zenon DEF DiskType, Recorded, CreateSteps
<1>3. Settled'
  BY Zenon DEF Settled
<1>4. Listening'
  BY Zenon DEF Listening
<1> QED BY <1>2, <1>3, <1>4, Zenon

=============================================================================
