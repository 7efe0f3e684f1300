------------------------------ MODULE CNIConf -------------------------------
(***************************************************************************)
(* The CNI configuration syncer (cni_conf_syncer.go): a watch on the       *)
(* directory of network configurations, a loop that reloads the network    *)
(* plugin on its events, what Status (status.go) tells of the network, and *)
(* UpdateRuntimeConfig (update_runtime_config.go), which loads the plugin, *)
(* too, and generates a configuration in the directory.  Files are written *)
(* in several steps, replaced, moved in and deleted while the loop runs.   *)
(* The directory is reduced to its version and to whether the plugin can   *)
(* load that version; the watcher is external.                             *)
(***************************************************************************)
EXTENDS Naturals, Sequences

CONSTANTS
    MaxVersion,        \* bound on changes of the directory
    MaxConfFaults      \* bound on errors of the watcher

VARIABLES
    version, loadable,     \* the directory now
    confEvents,            \* events the loop has not read, oldest first
    watching,              \* "no", "yes" or "closed": the watch on the directory
    networks,              \* the version the plugin has loaded, 0 if none
    lastSyncStatus,        \* "ok" or "error"
    confLoop,              \* "new", "loop" or "returned": progress of the syncer
    updating,              \* "no", "load", "open", "write" or "wrote": an
                           \* UpdateRuntimeConfig call
    unseen,                \* history: a change since the last load came without an
                           \* event that the loop acts on
    loadedByUpdate,        \* history: the last load was one of UpdateRuntimeConfig
    confFaults

confVars == <<version, loadable, confEvents, watching, networks, lastSyncStatus,
              confLoop, updating, unseen, loadedByUpdate, confFaults>>

Ops == {"Create", "Write", "Rename", "Remove", "Chmod"}

ConfTypeOK ==
    /\ version \in 0..MaxVersion /\ loadable \in BOOLEAN
    /\ confEvents \in Seq(Ops) /\ watching \in {"no", "yes", "closed"}
    /\ networks \in 0..MaxVersion /\ lastSyncStatus \in {"ok", "error"}
    /\ confLoop \in {"new", "loop", "returned"} /\ unseen \in BOOLEAN
    /\ updating \in {"no", "load", "open", "write", "wrote"} /\ loadedByUpdate \in BOOLEAN
    /\ confFaults \in 0..MaxConfFaults

ConfInit ==
    /\ version = 0 /\ loadable = FALSE /\ confEvents = <<>> /\ watching = "no"
    /\ networks = 0 /\ lastSyncStatus = "ok"
    /\ confLoop = "new" /\ updating = "no" /\ unseen = FALSE /\ loadedByUpdate = FALSE
    /\ confFaults = 0

----------------------------------------------------------------------------
(* netPlugin.Load starts from a clean slate and may find nothing it can use. *)
Load ==
    /\ networks' = IF loadable THEN version ELSE 0
    /\ unseen' = FALSE

updateLastStatus(err) == lastSyncStatus' = (IF err THEN "error" ELSE "ok") /\ loadedByUpdate' = FALSE

(* A bug: the directory is loaded before it is watched. *)
LoadThenWatch ==
    \/ /\ confLoop = "new" /\ watching = "no" /\ networks = 0 /\ lastSyncStatus = "ok"
       /\ Load /\ updateLastStatus(~loadable)
       /\ UNCHANGED <<version, loadable, confEvents, watching, confLoop, updating, confFaults>>
    \/ /\ confLoop = "new" /\ watching = "no"
       /\ watching' = "yes" /\ confLoop' = "loop"
       /\ UNCHANGED <<version, loadable, confEvents, networks, lastSyncStatus, updating, unseen,
                      loadedByUpdate, confFaults>>

(* The watch is set up before the first load, a step of its own. *)
newCNINetConfSyncer ==
    \/ /\ confLoop = "new" /\ watching = "no"
       /\ watching' = "yes"
       /\ UNCHANGED <<version, loadable, confEvents, networks, lastSyncStatus, confLoop,
                      updating, unseen, loadedByUpdate, confFaults>>
    \/ /\ confLoop = "new" /\ watching = "yes"
       /\ Load /\ updateLastStatus(~loadable)
       /\ confLoop' = "loop"
       /\ UNCHANGED <<version, loadable, confEvents, watching, updating, confFaults>>

(* One turn of the loop.  After stop the channels are closed: the loop reads
   empty events, which it does not ignore, and loads on every turn. *)
syncLoopEvent ==
    /\ confLoop = "loop"
    /\ confEvents # <<>> \/ watching = "closed"
    /\ IF confEvents # <<>> /\ Head(confEvents) \in {"Chmod", "Create"}
       THEN UNCHANGED <<networks, lastSyncStatus, unseen, loadedByUpdate>>
       ELSE Load /\ updateLastStatus(~loadable)
    /\ confEvents' = IF confEvents = <<>> THEN <<>> ELSE Tail(confEvents)
    /\ UNCHANGED <<version, loadable, watching, confLoop, updating, confFaults>>

(* The loop ends with an error of the watcher. *)
syncLoopError ==
    /\ confLoop = "loop" /\ watching = "yes"
    /\ confFaults < MaxConfFaults /\ confFaults' = confFaults + 1
    /\ confLoop' = "returned"
    /\ UNCHANGED <<version, loadable, confEvents, watching, networks, lastSyncStatus, updating,
                   unseen, loadedByUpdate>>

stop ==
    /\ watching = "yes" /\ confLoop # "new"
    /\ watching' = "closed" /\ confEvents' = <<>>
    /\ unseen' = (unseen \/ confEvents # <<>>)
    /\ UNCHANGED <<version, loadable, networks, lastSyncStatus, confLoop, updating,
                   loadedByUpdate, confFaults>>

----------------------------------------------------------------------------
(* The directory: a change and the events the kernel reports for it.  A file
   moved in from elsewhere is reported as created; a file written in place is
   created empty and then written; a rename within the directory is reported
   for the old name first. *)

WatcherReports == {<<"Create", "Write">>, <<"Write">>, <<"Rename", "Create">>, <<"Remove">>, <<"Create">>}

Changed(ops, ok) ==
    /\ version < MaxVersion /\ version' = version + 1
    /\ loadable' = ok
    /\ confEvents' = IF watching = "yes" THEN confEvents \o ops ELSE confEvents
    /\ unseen' = (unseen \/ ops = <<"Create">> \/ watching = "closed")

Change(ops, ok) ==
    /\ Changed(ops, ok)
    /\ UNCHANGED <<watching, networks, lastSyncStatus, confLoop, updating, loadedByUpdate,
                   confFaults>>

Chmod ==
    /\ watching = "yes" /\ confEvents = <<>>
    /\ confEvents' = Append(confEvents, "Chmod")
    /\ UNCHANGED <<version, loadable, watching, networks, lastSyncStatus, confLoop,
                   updating, unseen, loadedByUpdate, confFaults>>

----------------------------------------------------------------------------
(* UpdateRuntimeConfig. *)

(* Without a CIDR, with one that cannot be parsed, without a template, or with a
   network that is ready the call changes nothing. *)
UpdateRuntimeConfig ==
    /\ confLoop # "new" /\ updating = "no" /\ networks = 0
    /\ updating' = "load"
    /\ UNCHANGED <<version, loadable, confEvents, watching, networks, lastSyncStatus, confLoop,
                   unseen, loadedByUpdate, confFaults>>

(* The call's own Load, which the syncer's last status does not follow. *)
UpdateLoad ==
    /\ updating = "load" /\ Load /\ loadedByUpdate' = TRUE
    /\ \/ updating' = IF loadable THEN "no" ELSE "open"
       \/ ~loadable /\ updating' = "no"   \* the template or the directory fails
    /\ UNCHANGED <<version, loadable, confEvents, watching, lastSyncStatus, confLoop, confFaults>>

(* OpenFile creates the file, or keeps what an earlier one has: a file that is
   empty may come before one that can be loaded. *)
UpdateOpen ==
    /\ updating = "open" /\ updating' = "write"
    /\ \/ \E ok \in {FALSE, loadable} : Changed(<<"Create">>, ok)
       \/ UNCHANGED <<version, loadable, confEvents, unseen>>
    /\ UNCHANGED <<watching, networks, lastSyncStatus, confLoop, loadedByUpdate, confFaults>>

(* The template is executed into the file, in several writes; it may fail in
   between, and the rest of a longer earlier file stays. *)
UpdateWrite(ok) ==
    /\ updating \in {"write", "wrote"} /\ updating' = IF updating = "write" THEN "wrote" ELSE "no"
    /\ Changed(<<"Write">>, ok)
    /\ UNCHANGED <<watching, networks, lastSyncStatus, confLoop, loadedByUpdate, confFaults>>

UpdateFails ==
    /\ updating \in {"open", "write", "wrote"} /\ updating' = "no"
    /\ UNCHANGED <<version, loadable, confEvents, watching, networks, lastSyncStatus, confLoop,
                   unseen, loadedByUpdate, confFaults>>

ConfNext ==
    \/ newCNINetConfSyncer \/ syncLoopEvent \/ syncLoopError \/ stop \/ Chmod
    \/ \E ops \in WatcherReports, ok \in BOOLEAN : Change(ops, ok)
    \/ UpdateRuntimeConfig \/ UpdateLoad \/ UpdateOpen \/ UpdateFails
    \/ \E ok \in BOOLEAN : UpdateWrite(ok)
    \/ confLoop = "returned" /\ UNCHANGED confVars

ConfSpec == ConfInit /\ [][ConfNext]_confVars

----------------------------------------------------------------------------

(* What Status tells: the network condition, and the status of the last load. *)
Status == [networkReady |-> networks # 0, lastCNILoadStatus |-> lastSyncStatus]

(* Once the loop has read the events there are, the plugin has the directory as
   it is now, and Status tells whether that could be loaded: no change between
   the watch, the first load and the loop is missed, nor one UpdateRuntimeConfig
   makes while the loop loads, and a load of UpdateRuntimeConfig never puts an
   older directory over a newer one.  Files moved in from elsewhere or only
   created, which the loop ignores, and changes after stop are left out; a load
   of UpdateRuntimeConfig may leave the status of an earlier load. *)
ConfLoaded ==
    /\ ConfTypeOK
    /\ confLoop = "loop" /\ confEvents = <<>> /\ ~unseen =>
           /\ networks = IF loadable THEN version ELSE 0
           /\ Status.networkReady = loadable
           /\ loadedByUpdate \/ Status.lastCNILoadStatus = IF loadable THEN "ok" ELSE "error"
============================================================================
