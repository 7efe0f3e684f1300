# Verification of the containerd CRI plugin

TLA+ models of `containerd/cri`, the plugin through which the Kubernetes kubelet
drives containerd. They are model-checked with TLC on small instances. Every safety
property that a passing run checks is also proved with TLAPS, for every instance.

## The system

The plugin runs inside containerd. The kubelet calls it over gRPC, and each call
is served by its own goroutine. The truth about a container or a pod sandbox is
split over four places that change independently:

| place | what it holds | survives a restart |
|---|---|---|
| memory | `containerStore`, `sandboxStore`, `imageStore`, name indexes, label store | no |
| checkpoint | `<root>/containers/<id>/status`, written atomically; sandboxes have none | yes |
| containerd | container, snapshot, image and task (the process) | yes |
| kernel, CNI | network namespaces, pod network | yes, until a reboot |

Around these places run long-lived goroutines: the event loop, the exit monitors,
the syncers of snapshots and of the CNI configuration, the streaming server, and
the copiers of container output.

### How the parts interact

* A start creates the task, records `StartedAt`, then starts an **exit monitor**,
  a goroutine that waits for the task and sends one event to `exitCh`.
* The **event loop** is the only goroutine that handles exits of running
  containers and sandboxes: it deletes the task, records the exit, closes
  `StopCh`. If a step fails the event goes to the back-off queue of its id.
* A **stop** kills the process and waits for `StopCh`, that is, for the loop. For
  an object in UNKNOWN state it first starts an exit monitor of its own, or, when
  there is no task, runs the exit handler itself.
* A **removal** of a container takes away, in this order, the containerd container,
  the checkpoint, two directories and the store entry. The flags `Starting` and
  `Removing` are the only lock between start and removal.
* **Stopping or removing a sandbox** stops or removes the containers it lists.
  Nothing marks the sandbox as going, so creations and starts race with it.
* After a **restart** `recover` rebuilds all stores from containerd, the checkpoints
  and the directories before any call is served.
* An **image** belongs to containerd. Pulls, removals and events only refresh the
  store.
* `Run` waits for the first of three critical services to end, stops the others and
  returns. An error of `Run` ends containerd.

### What correct means

* The end of a process is never lost, is recorded once, and survives restarts.
* EXITED, NOTREADY, and a stop that returned, mean that the process has ended.
* A call that fails, and a crash, leave nothing behind that could have been undone.
* What callers see follows the state machines drawn in the two `status.go`.
* A name belongs to one object; recovery is not blocked by what calls do.
* Caches and indexes agree with what they cache, once nothing is going on.
* A container runs with the limits, mounts and runtime that were asked for.
* Calls, streams and loops end or keep up; output reaches log and clients.

`PROJECT.json` lists the hazards behind these, at the lines where they bite.

## Modules

### Containers and sandboxes

| module | what it is |
|---|---|
| `ContainerStatus` | the `Status` record, `State`, `encode`, `decode` |
| `ContainerLifecycle` | the life of one container; properties; inductive invariant |
| `ContainerStateMachine` | the abstract state machine of what callers see |
| `ContainerReported` | the lifecycle with a history variable, mapped to the abstract machine |
| `PodSandbox` | the life of one pod sandbox, with its containers in outline |
| `PodSandboxStateMachine`, `PodSandboxShown` | its abstract machine, and the mapping |
| `MCContainerLifecycle`, `MCPodSandbox` | symmetry of the threads, for TLC |

An action is what the code does between two points where another goroutine can
see it: a call to containerd, a critical section of the status lock, a file
operation. `pc[t]` is the position of the goroutine `t` in its handler and
`pc[Loop]` that of the event loop, which also stands for `recover` while the
plugin is down. Handlers are translated with their error paths. `Fault` is an
unexpected error of containerd, CNI or the disk; deferred clean-ups are steps of
their own that may fail too.

| variable of `ContainerLifecycle` | code |
|---|---|
| `up` | `initialized`: recovery is over, calls are served |
| `inStore`, `status`, `stopCh`, `io` | the entry of `containerStore` and its `Status`, `StopCh`, `IO` |
| `ckpt`, `rootDir`, `stateDir` | the status file (a set of at most one content) and the two directories |
| `cntrd`, `task` | containerd's container and task |
| `monitor`, `waits` | exit monitors and the `task.Wait` contexts not cancelled |
| `exitCh`, `ch`, `backOff`, `batch` | the two channels, the back-off queue of the id, the events being handled |
| `call`, `seen`, `ok` | the call, the state `stopContainer` read, its result |

Timestamps are abstracted to zero or not. `FinishedAt` and `ExitCode` are always
written together and are one field, which tells whose exit code it is: the
task's, the one for an unknown exit (255), or the one of a failed start (128).

| variable of `PodSandbox` | code |
|---|---|
| `inStore`, `state`, `stopCh`, `reserved` | the entry of `sandboxStore`, its `Status.State` and `StopCh`, its name |
| `hostNet`, `netns`, `network` | host network; the namespace (none, a plain file, mounted); what CNI has set up |
| `cntrd`, `task`, `rootDir`, `volatileDir`, `shm` | containerd's objects, the directories, the tmpfs |
| `cntr`, `todo` | the containers of the pod in outline; those a call has listed and not yet handled |
| `unclean` | history: a clean-up failed or was bypassed, see `NothingLeaks` |

The environment is modelled from how the code uses it: a process ends by itself
or after SIGKILL, containerd publishes an OOM event, and while the plugin is down
the host reboots or somebody deletes the container in containerd.

### Stores

These modules are checked by the run `stores`.

| module | code | state and actions |
|---|---|---|
| `NameIndex` | `registrar`, and the calls that use it | the two maps; creation, its undoing, removal, recovery of several objects |
| `Images` | `store/image`, `image_pull.go`, `image_remove.go`, image events, `loadImages` | the references of containerd and of the store; each call of the image service is a step |
| `Snapshots` | `snapshots.go`, `store/snapshot` | mark and sweep by the wall clock |
| `Labels` | `store/label`, label code of creation and removal | counts of SELinux levels |
| `Creation` | `container_create.go`, `containerd/opts/container.go` | every acquisition of `CreateContainer`, volumes, deferred calls, recovery |
| `Resources` | `container_update_resources_unix.go` | limits in the spec and in the task, beside start, exit, removal |
| `Mounts` | `spec_unix.go`, `container_create_unix.go` | merge, order and propagation of mounts |
| `Runtimes` | `config.go`, `getSandboxRuntime` | validation of the configuration, choice of a runtime, restart with another one |
| `AsAsked` | | the last three together: what a container was asked to run with |
| `StreamServer` | `streaming/server.go`, `request_cache.go` | list, token map, expiry and limit of the cache |
| `LogLines` | `io/logger.go` | one turn of `redirectLogs` per step |
| `Joining` | | joining sequences and selecting from them, for `Mounts` and `LogLines` |
| `Lists` | `container_list.go`, `sandbox_list.go`, `container_stats_list.go` | the store, statuses and shortened ids are read at different moments |

### Loops

These modules are checked by the run `loops`, under fairness.

| module | code | state and actions |
|---|---|---|
| `EventMonitor`, `EventQueue` | `events.go` | the loop over several objects with the back-off in ticks; its abstract specification |
| `Service` | `cri.go`, `service.go`, `instrumented_service.go` | making the service, `Run`, `Close`, three error channels |
| `CNIConf` | `cni_conf_syncer.go`, `update_runtime_config.go`, `status.go` | the watched directory, the loop, `UpdateRuntimeConfig` |
| `Session` | `container_execsync.go`, `exec_io.go`, `streaming/remotecommand` | the creation of the streams and the execution of a command |
| `PortForward` | `streaming/portforward`, `sandbox_portforward_unix.go` | pairing of streams, timeouts, two directions of copying |
| `ContainerIO` | `container_io.go`, `writer_group.go`, attach and log reopen | the writer groups, the log, attached clients |

### Disjoint unions

`MCStores` and `MCLoops` put together several components that share no state and
check them in one run each. So that one module can see them all, the names of a
component start with what it is about (`ImageInit`, `SnapshotNext`, `LogSpec`) or are
those of its code. The variable `component`, fixed in the initial state,
says which one runs; the others stay in one initial state. The states of such a run
are the disjoint union of those of its components, and a property about one
component means the same as in a run of its own. In `MCLoops` the fairness is that
of the component that runs. The properties are those of the component modules, the
same definitions that the proofs are about; each includes the component's type
invariant.

## Runs

| run | instance | shows |
|---|---|---|
| `lifecycle_calls` | 2 calls, 1 fault, 1 restart | the inductive invariant, no lost exit, exclusion of start and removal, meaning of a stop, one exit |
| `lifecycle_restarts` | 1 call at a time, 2 faults, 2 restarts, 1 OOM | EXITED is dead, what a removal leaves, where the IO can be nil, no spurious exit, durable exit; the reported state implements `ContainerStateMachine` |
| `lifecycle_liveness` | 2 calls, 1 fault, fair | a stop returns, an exit is reported |
| `lifecycle_liveness_restart` | 1 call, 2 faults, 1 restart, 1 OOM, fair | a stop returns also for an UNKNOWN container |
| `sandbox_calls` | 2 calls, 1 container, 1 fault, 1 restart | no lost exit, meaning of a stop, a removed sandbox runs nothing |
| `sandbox_shown` | 1 call, 2 faults, 1 timeout, 2 restarts, fair | NOTREADY is dead, nothing leaks, the states shown implement `PodSandboxStateMachine`, repeated removal succeeds |
| `stores` | see `MCStores` | one property per store, listed below |
| `loops` | see `MCLoops`, fair | one or two properties per loop, listed below |
| `lifecycle_drawn` | 1 call, 1 fault | *violated*: the state machine exactly as drawn in `store/container/status.go` |
| `lifecycle_nil_io` | 1 call, 1 fault, 1 restart | *violated*: the comment on `Container.IO` |
| `resources_start` | 1 update | *violated*: the comment on the transaction of a resource update |
| `log_limit` | limit 3, 18 bytes | *violated*: the comment on the panic of the logger |

| property of `stores` | says |
|---|---|
| `NamesHeld`, `BlockedOnlyByLeftover` | every stored object holds its own name; recovery fails on a name only because of a container that was left behind |
| `ImagesCatchUp` | the indexes of the store agree and, once idle, hold what containerd holds |
| `SnapshotsSwept` | after a sync the store has exactly what the walk collected |
| `LevelsCounted` | the count of a level is the number of its stored users |
| `RunsAsAsked` | the task has the limits of the spec, no mount is hidden, the runtime is that of the pod |
| `CreationUndone` | a failed or interrupted creation leaves only what could not be undone |
| `RequestsKept` | a request can be fetched once, until it expires |
| `LogRight` | the log is the output, cut at the limit |
| `ListsRight` | what is listed was there, and nothing that did not change is missed |

| property of `loops` | says |
|---|---|
| `ImplementsEventQueue`, `EventsHandled` | failing handlers never reorder, drop or repeat events; all are handled in the end |
| `RunReturns` | `Run` returns when a service ends; an error of the event monitor ends containerd |
| `ConfLoaded` | once its events are read the plugin has the directory as it is |
| `ExecRight`, `ExecEnds` | exit code and output of a command reach the caller; the call ends |
| `PairsMatch`, `PairsReleased` | the two streams of a connection are paired; no pair and no half-open forward stays |
| `OutputServed` | output always has an open log; attached clients are let go when it ends |

**Bounds.** Two concurrent calls are enough for every conflict of two handlers
with each other and with the loops and monitors, which run besides. One fault with
two calls, and two with one call, reach a clean-up that fails after the operation it
cleans up. The second restart meets what the first one wrote back. `ExitChannelSize`
is 1 (1024 in the code), so that senders do block. In `NameIndex` three ids share two
names: a collision and a bystander. In `Images` a tag moves between an image with and
one without a digest reference. The back-off has durations 1 to 3, so that it doubles
and meets its cap. In `LogLines` the buffers are 2 and 3 bytes and the output has up
to 6, so that line ends and limits fall on, before and after every end of a buffer.
In `PortForward` two connections are enough to pair wrong streams. In `MCStores` the
image store meets a fault or a restart, and the sync of the snapshots a fault or a step
back of the clock, not both (`MaxMishaps`). The proofs remove the bounds for the safety
properties they cover, those of these two stores among them.

**Fairness.** Weak fairness of every handler in progress, every exit monitor, the
loops and recovery: the Go scheduler runs goroutines that can run, and timers fire.
Weak fairness of the end of a process that was sent SIGKILL, which the kernel
provides. In `sandbox_shown` also strong fairness of the calls `StopPodSandbox` and
`RemovePodSandbox`, as the kubelet's garbage collection retries them. In
`ContainerIO` a client takes what is written to it or its connection breaks. Nothing
is assumed of other calls, of processes that were not killed, of clients that send
or end their stdin, of descendants that hold an output open, or of the cancellation
of a context. The number of faults is bounded: an operation that is retried succeeds
in the end.

**Deadlock** is checked in all passing runs but `stores`, where the bounds on calls,
time and restarts run out. Where a component has ended its module says so with a step
of its own (`Terminated`, `Ended`, `SessionEnded`).

### Findings

1. `Container.IO` is nil not only for UNKNOWN containers (`lifecycle_nil_io`): also for
   EXITED ones loaded without a task, and for CREATED and RUNNING ones whose task was in
   an unknown state for the first of two lookups of `loadContainer` and not for the
   second. `StartContainer` and `Attach` dereference it; in the model a start of such a
   container ends the process (`StartPanics`). `NilIOOnlyUnread` shows that this is the
   only way to a CREATED or RUNNING container without IO.
2. The drawn state machine of containers lacks CREATED to EXITED (failed start) and
   CREATED to DELETED (`lifecycle_drawn`). `ContainerStateMachine` has both.
3. An update of the resources between the creation of the task and the end of its
   start is lost for the task, though the comment excludes a race with the start
   (`resources_start`). `RunsAsAsked` covers all other orders.
4. With a line limit of 1 to 15 the logger panics on long lines (`log_limit`):
   the code takes the buffer to be no larger than the limit, but `bufio` has none below
   16 bytes.

Smaller things the models had to allow for, each stated where it is modelled:

* `container.Delete` of the containerd client takes any error of its lookup of the task
  for no task, although its comment says "an error is returned if the container has
  running tasks". A task that a failed start left can so survive the removal of its
  container or of its failed sandbox. `RemovedLeavesNothing` and `NothingLeaks` say when.
* A task whose creation fails late (`NewTask` returns an error after it was created) is
  deleted by nobody until the next restart.
* An EXITED container has a live process when both its start and the clean-up of the start
  failed; `ExitedIsDead` leaves this case out.
* A `StopPodSandbox` that waits while another call removes the sandbox, whose exit is in
  back-off, is not woken: only the context of the call ends the wait.
* The diagram of sandbox states lacks READY to DELETED, the removal of a sandbox whose
  exit is not recorded yet.
* A failed creation that could not delete its container can block a later recovery by
  its name, and such a container without directories is never loaded again.
* A crash after `NewNetNS` and before containerd has the container leaks the namespace.
* A CNI file moved in from elsewhere is not noticed; after `stop` the loop spins.
* A step back of the clock during a sync drops fresh snapshot entries until the next one.
* Two overlapping log reopens leave one log file open.
* `ListContainerStats` without a filter lists nothing, though its comment says "all
  running containers".
* A web socket exec with a terminal and no stdin loses its output.
* A default mount below a supplied one (`/sys/fs/cgroup` below `/sys`) may be hidden by it.

## Proofs

| theorem | property |
|---|---|
| `ContainerLifecycleProofs!LifecycleInvariant` | `Inductive` |
| `…!LifecycleTypeOK` | `TypeOK`, part of `Inductive` |
| `…!LifecycleNoLostExit` | `NoLostExit` |
| `…!LifecycleExclusion` | `StartRemoveExclusion` |
| `…!LifecycleExitedIsDead` | `ExitedIsDead` |
| `…!LifecycleRemoved` | `RemovedLeavesNothing` |
| `…!LifecycleStopMeansDead` | `StopMeansDead` |
| `…!LifecycleNilIO` | `NilIOOnlyUnread` |
| `…!LifecycleExitRecordedOnce` | action property `ExitRecordedOnce` |
| `…!LifecycleNoSpuriousExit` | action property `NoSpuriousExit` |
| `…!LifecycleExitDurable` | action property `ExitDurable` |
| `…!LifecycleImplementsStateMachine` | refinement `ImplementsStateMachine` |
| `PodSandboxProofs!SandboxInvariant` | its inductive invariant |
| `…!SandboxTypeOK` | `TypeOK`, with the bound on `exitCh` |
| `…!SandboxNotReadyMeansDead` | `NotReadyMeansDead` |
| `…!SandboxExitNeverLost` | `ExitNeverLost` |
| `…!SandboxStopMeansStopped` | `StopMeansStopped` |
| `…!SandboxRemovedRunsNothing` | `RemovedSandboxRunsNothing` |
| `…!SandboxNothingLeaks` | `NothingLeaks` |
| `…!SandboxImplementsStateMachine` | refinement `ImplementsSandboxStateMachine` |
| `StoresProofs!NamesAreHeld` | `NamesHeld` |
| `…!BlockedOnlyByLeftovers` | `BlockedOnlyByLeftover` |
| `…!LevelsAreCounted` | `LevelsCounted` |
| `…!SnapshotsAreSwept` | `SnapshotsSwept` |
| `…!ImagesDoCatchUp` | `ImagesCatchUp` |
| `RequestsProofs!CreationIsUndone` | `CreationUndone` |
| `…!ListsAreRight` | `ListsRight` |
| `…!ExecIsRight` | `ExecRight` |
| `AsAskedProofs!RunAsAsked` | `RunsAsAsked` |
| `…!LogIsRight` | `LogRight` |
| `LoopsProofs!ConfIsLoaded` | `ConfLoaded` |
| `…!RequestsAreKept` | `RequestsKept` |
| `…!PairsDoMatch` | `PairsMatch` |
| `EventMonitorProofs!EventsAreQueued` | refinement `ImplementsEventQueue` |

They hold for any sets of threads, containers, ids, names and so on, any capacity of
`exitCh` and of the request cache, and any numbers of faults, timeouts, restarts and
OOM events. The assumptions are

* in the container and sandbox modules: the event loop is not one of the threads, the
  channel has room for at least one event, the bounds are naturals
  (`LifecycleAssumption`, `SandboxAssumption`);
* for names: `None` is no id and no name (`NoneAssumption`); for labels: finitely many
  objects, and `NoLevel` is no level; for images (`ImageConstants`): the event handler
  is not a caller, finitely many references, `NoID` is no image;
* for lists (`ListConstants`): a full id is the prefix of no other id (ids have one
  length), the empty string is no id, and an id is not of both a container and a
  sandbox;
* for updates (`LimitConstants`): "nobody", which marks the free lock, is no updater;
  for runtimes (`RuntimeConstants`): a configuration is a record of the fields that
  `config.go` has, and the two names the code itself writes are names of runtimes; for
  mounts (`MountConstants`): a path is a sequence of names;
* for the log (`LogConstants`): the smallest buffer of `bufio` has room for a byte, and
  a limit is none or not below that buffer. Below it the property is false: that is the
  run `log_limit`;
* for commands (`StreamsKnown`): a session asks for streams among stdin, stdout and
  stderr; for port forwards (`ForwardConstants`): the connections are numbered from 1;
  for the event monitor (`EventConstants`): the empty string is no id;
* everywhere: the bounds, times and sizes are naturals (`SnapshotConstants`,
  `CreateConstants`, `RequestConstants`, `ConfConstants`, `SessionConstants` say nothing
  else, but that a session has a terminal or not).

**Containers.** None of the properties is inductive alone. That an exit is not lost,
for instance, depends on the loop not consuming an event before the start is
recorded (`NotStartedYet`), which depends on nobody observing an exit of a CREATED
container (`Quiet`), which depends on start and removal excluding each other
(`Locks`) and on calls that still hold a removed container (`Handles`). `Consistent`
is `TypeOK` with eleven such parts, each explained where it is defined. The action
properties and the refinement need three more: `Recorded`, that the status file never
differs from the status in memory and recovery has not dropped an exit it read;
`Settled`, that the loop handles no exit of a container that is gone; `Listening`, that
the monitor of a stop listens only while its wait is open, so that its end is not
taken for an exit. `Inductive` is all of them together.

**What callers are shown.** The refinement mapping of `ContainerReported` is the state
reported last. While the plugin is down there is no state to look at, so the step from
a crash to the end of recovery needs to know what is left: `Remembered` ties the state
reported last to the status file, the task and containerd at every moment, also in the
middle of `loadContainer`. With `Inductive` it turns each step into a transition of
`ContainerStateMachine` or a stutter. `ShownAgrees` does the same for a sandbox, where
nothing but containerd survives a crash.

**Sandboxes.** `IInv` of `PodSandboxProofs` has six parts: reduced `Types`; `Control`,
where the goroutines can be, with `RunPodSandbox` alone until the sandbox is stored;
`Exits`, that NOTREADY means a dead task and that a READY sandbox has a reporter also
while the plugin is down; `Stops` and `Removes`, what a call has taken away by each
of its steps and nobody brings back; `Leaves`, what `RunPodSandbox` has not made yet
or has undone. `Leaves` has to speak about crashes: a crash after containerd has the
container is harmless because recovery loads the sandbox with all it has.

**Stores.** The names: to the inverse maps of the registrar `IInv` adds who owns a name
(`Owned`, `StoredHeld`), where a call has no container (`WithoutContainer`), and that
the containers of containerd have different names as long as none was left behind
(`NoneLeft`), also in the middle of a recovery. The labels: the count is the
cardinality of the set of stored users, which one object enters or leaves at a time.
The snapshots: in the middle of a sync exactly the entries already updated carry a
time not before its start (`Stamped`). The images: a reference that the store does not
have as containerd has it is one that an event, a call or recovery is still going to
look at (`Missing`, `RefsLeft`, `HandlerLeft`).

**Calls.** A creation: which things it has at each stage (`Acquired`), what the volumes
hold (`Volumed`), and what may be left over once it failed or was cut off
(`Leftover`). Resource updates: who has the lock (`UpdateLocked`), and how far the
limits of the task may be from those of the spec in the middle of a transaction
(`LimitsFollow`) or of a start (`TaskFollows`). Runtimes: a runtime that was handed
out is what some accepted configuration has for the pod (`Resolved`). Lists: what was
read so far was so at some moment of the call (`MomentsKept`, `ListedThen`), also the
ids that short ones stood for (`LookedUp`). For commands the invariant says what has
been answered (`RepliesSent`), which copiers are at work (`CopiersRight`) and what the
outcome may be (`OutcomeRight`) at each stage.

Mounts: the mounts already in the spec, followed by those still to be added, are at any
time all that are supplied, sorted by their parts, after the default ones that stay
(`Whole`), and the propagation of the root is the strongest one of those added
(`Strongest`). `Merging` and `Sorting` say which mounts result from the sources and in
which orders they may come. That no mount is hidden is then a fact about sorted
sequences (`LastIsThere`): of the mounts at or above a destination the last one is at it.

The log: what the log says, the line so far and the output still to be read make up, at
any time, the output with its line ends unified (`LogInv`). A turn of the loop reads a
piece, whose line end may have been cut off together with a carriage return, or left in
the buffer without its line feed. `ReadsRight` says that the piece and what it leaves
unread say the same as what was there before, for all the places where the buffer can
end; `CutRight` that cutting the line at the limit says the same.

**Loops.** `ConfLoaded` speaks of a syncer that has read all events; inductive is that
one with no event left but those it will ignore is up to date. Port forwards: the
streams a client has opened have different numbers below twice their count
(`Numbered`), every stream received is in a pair of its request id (`Received`,
`PairsHold`), and a request id names at most one pair of the map (`Mapped`). The
request cache: list and map have the same entries (`Listed`, `TokensListed`) and every
request that can be served is among them (`CachedListed`); the lemma that matters is
that removing one element by its position loses no other (`Without`).

The event monitor keeps an event in one of four places: the batch being retried, the
back-off queue of its object, and the two channels. `pending` of `EventQueue` is what
is of one source and one object in these places, one after the other. A step moves an
event from one place to the next and must not pass another one of the same source and
object: a batch is retried only while the queue of its object is empty, and a queue
holds events of its own object only (`QueueInv`).

**Induction.** Selecting from a sequence and joining sequences are recursive functions
of a length. That they distribute over concatenation (`FromConcat`, `JoinConcat`,
`SelectConcat`) are inductions, which are done by hand: a set of naturals that is not
empty has a least element (`LeastNatural`), because `<` is well-founded, so a set that
has 0 and with each number the next has all of them (`UpTo`), and a step can be
iterated (`Iteration`).

**The argument.** There is one lemma per handler. Steps with the same footprint share
an effect operator (a step of a stop only walks, a step of a removal only takes
things away, and so on). One lemma shows that each such step has this effect, another
that the effect preserves the invariant part by part. The modules are

| module | content |
|---|---|
| `ContainerLifecycleEvents` | facts about the status; exits, monitors, loop, environment and recovery preserve the parts of the invariant |
| `ContainerLifecycleProofs` | create, stop, start and removal preserve them; the inductive invariant, the action properties, the refinement: the theorems |
| `PodSandboxProofs` | the inductive invariant of a sandbox, every handler preserves it; the refinement; the theorems |
| `StoresProofs` | names, snapshots, images, labels |
| `RequestsProofs` | creation, lists, execution of commands |
| `AsAskedProofs` | resource updates, runtimes, mounts, log lines; facts about sequences |
| `LoopsProofs` | CNI syncer, port forward pairing, request cache |
| `EventMonitorProofs` | the event monitor |

A module about several components extends or instantiates them all; they share no
state.

**Only model-checked.** Liveness (`StopTerminates`, `ExitObserved`, `RemovalSucceeds`,
`EventsHandled`, `RunReturns`, `PairsReleased`, `ExecEnds`, `OutputServed`) is out of
the prover's reach.

## Not modelled

* Inside the modelled handlers: the contents of the OCI specification other than
  mounts, limits and runtime (capabilities, devices, seccomp, AppArmor, annotations),
  which translate data without control of their own; logging; the wording of errors.
* `task.Delete` returns or fails. That it may wait for ever for the container's IO,
  in the only event loop (the TODO at `events.go:319`), is not modelled.
* The file `<id>.del-status` to which a status file is renamed before it is deleted: it is
  outside the directory of the container, and nobody reads it.
* containerd answers "not found" only for a task or container that is not there.
* Durations, except in `EventMonitor`, `StreamServer` and `Snapshots`, which count
  ticks: elsewhere a timeout may fire at any time.
* Registry access of a pull (resolver, hosts, authentication, TLS, decryption), and TLS
  certificates of the streaming server: I/O and data.
* Terminal resizing, and the framing of SPDY and web socket streams.
* Queries that read a store once and convert what they find: image list and status,
  `ImageFsInfo`, statistics of one container, version.
* The bandwidth shaper (`server/bandwidth/linux.go`), which the plugin never calls.
* Generated code (`api.pb.go`), the Windows variants, the test doubles, the gRPC client
  of the integration tests and the `containerd` binary.
