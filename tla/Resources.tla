----------------------------- MODULE Resources -----------------------------
(***************************************************************************)
(* UpdateContainerResources (container_update_resources_unix.go) racing    *)
(* with StartContainer, the exit of the task and RemoveContainer, on one   *)
(* container.  The limits a container runs under are kept twice: in the    *)
(* spec containerd stores, which is read when the task is created, and in  *)
(* the cgroups of the task.  The update runs as one transaction of the     *)
(* status, that is with the status lock held; the start takes the lock     *)
(* only to set Starting and, at its end, to record that the container      *)
(* runs.  A limit is an opaque value; "" is the limit of the created spec. *)
(***************************************************************************)
EXTENDS Naturals

CONSTANTS
    Updaters,          \* concurrent UpdateContainerResources calls
    Limits,            \* the limits the calls ask for
    MaxUpdateFaults    \* bound on calls of containerd that fail

VARIABLES
    specLimit,         \* the limit in the spec containerd stores
    taskLimit,         \* the limit of the task; "none" when there is no task
    state,             \* the State() the status stands for
    starting,          \* Status.Starting
    removing,          \* Status.Removing
    lockedBy,          \* the call that holds the status lock, or "nobody"
    starter,           \* where the StartContainer call is
    upc,               \* where each update is
    oldLimit,          \* oldSpec of each update
    newLimit,          \* newSpec of each update
    updateFaults,
    apart              \* why spec and task may differ: "" or the first cause

resVars == <<specLimit, taskLimit, state, starting, removing, lockedBy, starter,
             upc, oldLimit, newLimit, updateFaults, apart>>

LimitTypeOK ==
    /\ specLimit \in Limits \cup {""}
    /\ taskLimit \in Limits \cup {"", "none"}
    /\ state \in {"CREATED", "RUNNING", "EXITED"}
    /\ starting \in BOOLEAN /\ removing \in BOOLEAN
    /\ lockedBy \in Updaters \cup {"nobody"}
    /\ starter \in {"idle", "starting", "created", "done"}
    /\ upc \in [Updaters -> {"idle", "spec", "task", "reset", "done"}]
    /\ oldLimit \in [Updaters -> Limits \cup {""}]
    /\ newLimit \in [Updaters -> Limits \cup {""}]
    /\ updateFaults \in 0..MaxUpdateFaults
    /\ apart \in {"", "start", "reset"}

LimitInit ==
    /\ specLimit = "" /\ taskLimit = "none"
    /\ state = "CREATED" /\ starting = FALSE /\ removing = FALSE
    /\ lockedBy = "nobody" /\ starter = "idle"
    /\ upc = [u \in Updaters |-> "idle"]
    /\ oldLimit = [u \in Updaters |-> ""]
    /\ newLimit = [u \in Updaters |-> ""]
    /\ updateFaults = 0 /\ apart = ""

UpdateFault == updateFaults < MaxUpdateFaults /\ updateFaults' = updateFaults + 1
NoFault == updateFaults' = updateFaults

----------------------------------------------------------------------------
(* The start, reduced to what the limits depend on. *)

setContainerStarting ==
    /\ starter = "idle" /\ lockedBy = "nobody"
    /\ state = "CREATED" /\ ~removing /\ ~starting
    /\ starting' = TRUE /\ starter' = "starting"
    /\ UNCHANGED <<specLimit, taskLimit, state, removing, lockedBy, upc, oldLimit,
                   newLimit, updateFaults, apart>>

(* NewTask: containerd creates the task from the spec stored now. *)
NewTask ==
    /\ starter = "starting"
    /\ taskLimit' = specLimit /\ starter' = "created"
    /\ UNCHANGED <<specLimit, state, starting, removing, lockedBy, upc, oldLimit,
                   newLimit, updateFaults, apart>>

(* The status update at the end of the start; Starting is reset with it. *)
StartedOrFailed ==
    /\ starter \in {"starting", "created"} /\ lockedBy = "nobody"
    /\ \/ /\ starter = "created" /\ NoFault
          /\ state' = "RUNNING" /\ UNCHANGED taskLimit
       \/ /\ UpdateFault
          /\ state' = "EXITED" /\ taskLimit' = "none"
    /\ starting' = FALSE /\ starter' = "done"
    /\ UNCHANGED <<specLimit, removing, lockedBy, upc, oldLimit, newLimit, apart>>

(* The task exits by itself; its cgroups go with it. *)
TaskExits ==
    /\ starter \in {"created", "done"} /\ taskLimit # "none"
    /\ taskLimit' = "none"
    /\ UNCHANGED <<specLimit, state, starting, removing, lockedBy, starter, upc,
                   oldLimit, newLimit, updateFaults, apart>>

handleContainerExit ==
    /\ state = "RUNNING" /\ taskLimit = "none" /\ lockedBy = "nobody"
    /\ state' = "EXITED"
    /\ UNCHANGED <<specLimit, taskLimit, starting, removing, lockedBy, starter, upc,
                   oldLimit, newLimit, updateFaults, apart>>

setContainerRemoving ==
    /\ lockedBy = "nobody" /\ state # "RUNNING" /\ ~starting /\ ~removing
    /\ removing' = TRUE
    /\ UNCHANGED <<specLimit, taskLimit, state, starting, lockedBy, starter, upc,
                   oldLimit, newLimit, updateFaults, apart>>

----------------------------------------------------------------------------
(* The update, one transaction of the status. *)

Leave(u) ==
    /\ upc' = [upc EXCEPT ![u] = "done"]
    /\ lockedBy' = "nobody"

(* updateOCILinuxResource copies the old spec, so that oldSpec is intact for
   the reset; reading the spec may fail. *)
UpdateContainerResources(u, l) ==
    /\ upc[u] = "idle" /\ lockedBy = "nobody"
    /\ \/ /\ removing /\ NoFault /\ Leave(u)
          /\ UNCHANGED <<oldLimit, newLimit>>
       \/ /\ ~removing /\ UpdateFault /\ Leave(u)
          /\ UNCHANGED <<oldLimit, newLimit>>
       \/ /\ ~removing /\ NoFault
          /\ upc' = [upc EXCEPT ![u] = "spec"] /\ lockedBy' = u
          /\ oldLimit' = [oldLimit EXCEPT ![u] = specLimit]
          /\ newLimit' = [newLimit EXCEPT ![u] = l]
    /\ UNCHANGED <<specLimit, taskLimit, state, starting, removing, starter, apart>>

(* updateContainerSpec, and the early return when the container is not running.
   A task that exists by then keeps the limit it was created with. *)
updateContainerSpec(u) ==
    /\ upc[u] = "spec"
    /\ \/ /\ UpdateFault /\ Leave(u)
          /\ UNCHANGED <<specLimit, apart>>
       \/ /\ NoFault
          /\ specLimit' = newLimit[u]
          /\ IF state # "RUNNING"
             THEN /\ Leave(u)
                  /\ apart' = IF starter = "created" THEN "start" ELSE apart
             ELSE /\ upc' = [upc EXCEPT ![u] = "task"]
                  /\ UNCHANGED <<lockedBy, apart>>
    /\ UNCHANGED <<taskLimit, state, starting, removing, starter, oldLimit, newLimit>>

(* task.Update; a task that has exited is no error. *)
TaskUpdate(u) ==
    /\ upc[u] = "task"
    /\ \/ /\ NoFault /\ Leave(u)
          /\ taskLimit' = IF taskLimit = "none" THEN "none" ELSE newLimit[u]
       \/ /\ UpdateFault
          /\ upc' = [upc EXCEPT ![u] = "reset"]
          /\ UNCHANGED <<taskLimit, lockedBy>>
    /\ UNCHANGED <<specLimit, state, starting, removing, starter, oldLimit, newLimit, apart>>

(* A bug: the spec is left as it is when the task refuses the limits. *)
ResetForgotten(u) ==
    /\ upc[u] = "reset" /\ NoFault /\ Leave(u)
    /\ UNCHANGED <<specLimit, taskLimit, state, starting, removing, starter, oldLimit,
                   newLimit, apart>>

(* The deferred reset of the spec; its own failure is only logged. *)
ResetSpec(u) ==
    /\ upc[u] = "reset"
    /\ \/ NoFault /\ specLimit' = oldLimit[u] /\ UNCHANGED apart
       \/ UpdateFault /\ apart' = "reset" /\ UNCHANGED specLimit
    /\ Leave(u)
    /\ UNCHANGED <<taskLimit, state, starting, removing, starter, oldLimit, newLimit>>

LimitNext ==
    \/ setContainerStarting \/ NewTask \/ StartedOrFailed
    \/ TaskExits \/ handleContainerExit \/ setContainerRemoving
    \/ \E u \in Updaters :
          \/ \E l \in Limits : UpdateContainerResources(u, l)
          \/ updateContainerSpec(u) \/ TaskUpdate(u) \/ ResetSpec(u)

LimitSpec == LimitInit /\ [][LimitNext]_resVars

----------------------------------------------------------------------------

Settled == lockedBy = "nobody" /\ ~starting /\ taskLimit # "none"

(* What the comment of UpdateContainerResources says of the transaction: with
   no call in progress, a task runs under the limits of the stored spec,
   whatever the order of updates and start.  A reset that failed is left out. *)
NoStartRace == Settled /\ apart # "reset" => taskLimit = specLimit

(* The same where no update ran between the creation of the task and the end
   of its start: failed updates of the task are undone in the spec, and the
   updates of several callers never leave the limits of one in the spec and
   those of another in the cgroups. *)
LimitsAgree == Settled /\ apart = "" => taskLimit = specLimit
============================================================================
