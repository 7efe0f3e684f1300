------------------------------ MODULE Creation ------------------------------
(***************************************************************************)
(* One CreateContainer call, from the directories of the container to its  *)
(* entry in the store (server/container_create.go), with the options that  *)
(* make its root file system and fill the volumes of the image             *)
(* (containerd/opts/container.go).  Every step may fail; the deferred      *)
(* calls then undo the earlier ones, last first, and may fail as well.     *)
(* The process may end at any point; recovery (server/restart.go) finds    *)
(* what is left.  The name and the SELinux level of the container are in   *)
(* NameIndex and in Labels.                                                *)
(***************************************************************************)
EXTENDS Naturals, Sequences

CONSTANTS
    Volumes,                              \* volumes an image may declare
    MaxCreateFaults, MaxCreateRestarts    \* bounds

VARIABLES
    held,            \* what there is of the container, see Resources
    creating,        \* what CreateContainer does next, see Stages
    unpacked,        \* the image is unpacked in the snapshotter
    imageVolumes,    \* volumeMounts: the volumes of this image that CRI does not mount
    inRootfs,        \* the volumes that are directories in the root file system
    rootfsFiles,     \* "intact" or "deleted": the files of the snapshot
    hostDir,         \* per volume, its directory below the root directory
    tempDir,         \* "none", "empty" or "mounted": the directory of WithVolumes
    volumeErr,       \* the named result of WithVolumes is an error
    notUndone,       \* history: what a deferred call failed to undo
    createFaults, createRestarts

createVars == <<held, creating, unpacked, imageVolumes, inRootfs, rootfsFiles, hostDir, tempDir,
                volumeErr, notUndone, createFaults, createRestarts>>

Resources == {"rootDir", "volatileDir", "io", "snapshot", "container", "checkpoint", "stored"}
Stages == {"image", "rootDir", "volatileDir", "spec", "io", "snapshot", "unpack", "retry", "mounts",
           "mount", "copy", "unmount", "removeTemp", "container", "checkpoint", "store",
           "created", "undo", "failed", "recover", "recovered"}
Failing == Stages \ {"removeTemp", "unmount", "created", "undo", "failed", "recover", "recovered"}

CreateTypeOK ==
    /\ held \subseteq Resources /\ creating \in Stages /\ unpacked \in BOOLEAN
    /\ inRootfs \subseteq imageVolumes /\ imageVolumes \subseteq Volumes
    /\ rootfsFiles \in {"intact", "deleted"}
    /\ hostDir \in [Volumes -> {"absent", "empty", "part", "copied"}]
    /\ tempDir \in {"none", "empty", "mounted"} /\ volumeErr \in BOOLEAN
    /\ notUndone \subseteq Resources
    /\ createFaults \in 0..MaxCreateFaults /\ createRestarts \in 0..MaxCreateRestarts

CreateInit ==
    /\ held = {} /\ creating = "image" /\ unpacked \in BOOLEAN
    /\ imageVolumes \in SUBSET Volumes /\ inRootfs \in SUBSET imageVolumes
    /\ rootfsFiles = "intact" /\ hostDir = [v \in Volumes |-> "absent"] /\ tempDir = "none"
    /\ volumeErr = FALSE /\ notUndone = {} /\ createFaults = 0 /\ createRestarts = 0

CreateFault == createFaults < MaxCreateFaults /\ createFaults' = createFaults + 1
Fixed == UNCHANGED <<imageVolumes, inRootfs, createRestarts>>
volumeVars == <<rootfsFiles, hostDir, tempDir, volumeErr>>

(* CreateContainer goes from one step to the next, and has r then. *)
Acquire(from, r, to) ==
    /\ creating = from /\ creating' = to /\ held' = held \cup r
    /\ UNCHANGED <<notUndone, createFaults>> /\ Fixed

----------------------------------------------------------------------------
(* The image and the sandbox, the directories, the spec and the streams. *)

resolveImage ==
    /\ Acquire("image", {}, "rootDir")
    /\ UNCHANGED <<unpacked, volumeVars>>

MkdirAll ==
    /\ \/ Acquire("rootDir", {"rootDir"}, "volatileDir")
       \/ Acquire("volatileDir", {"volatileDir"}, "spec")
    /\ UNCHANGED <<unpacked, volumeVars>>

(* The mounts of the spec: the directory of a volume is created (WithMounts). *)
containerSpec ==
    /\ Acquire("spec", {}, "io")
    /\ hostDir' = [v \in Volumes |-> IF v \in imageVolumes THEN "empty" ELSE "absent"]
    /\ UNCHANGED <<unpacked, rootfsFiles, tempDir, volumeErr>>

NewContainerIO ==
    /\ Acquire("io", {"io"}, "snapshot")
    /\ UNCHANGED <<unpacked, volumeVars>>

----------------------------------------------------------------------------
(* client.NewContainer: its options, then the record. *)

AfterSnapshot == IF imageVolumes = {} THEN "container" ELSE "mounts"

(* If the parent of the snapshot is not found the image is unpacked, once. *)
WithNewSnapshot ==
    \/ /\ unpacked /\ creating \in {"snapshot", "retry"}
       /\ Acquire(creating, {"snapshot"}, AfterSnapshot) /\ UNCHANGED <<unpacked, volumeVars>>
    \/ /\ ~unpacked /\ Acquire("snapshot", {}, "unpack") /\ UNCHANGED <<unpacked, volumeVars>>
    \/ /\ Acquire("unpack", {}, "retry") /\ unpacked' = TRUE /\ UNCHANGED volumeVars

(* The snapshot is mounted in a temporary directory. *)
WithVolumesMount ==
    /\ \/ Acquire("mounts", {}, "mount") /\ tempDir' = "empty"
       \/ Acquire("mount", {}, "copy") /\ tempDir' = "mounted"
    /\ UNCHANGED <<unpacked, rootfsFiles, hostDir, volumeErr>>

(* One volume after another: one that is not in the image stays empty, the
   directory of another one must be empty and gets a copy. *)
copyExistingContents ==
    /\ \/ \E v \in inRootfs :
             /\ Acquire("copy", {}, "copy") /\ hostDir[v] = "empty"
             /\ hostDir' = [hostDir EXCEPT ![v] = "copied"]
       \/ /\ Acquire("copy", {}, "unmount")
          /\ UNCHANGED hostDir /\ \A v \in inRootfs : hostDir[v] = "copied"
    /\ UNCHANGED <<unpacked, rootfsFiles, tempDir, volumeErr>>

(* The deferred Unmount; its error counts if there is no other. *)
Unmount ==
    /\ creating = "unmount" /\ creating' = "removeTemp"
    /\ \/ CreateFault /\ volumeErr' = TRUE /\ UNCHANGED tempDir
       \/ tempDir' = "empty" /\ UNCHANGED <<volumeErr, createFaults>>
    /\ UNCHANGED <<held, unpacked, rootfsFiles, hostDir, notUndone>> /\ Fixed

(* A bug: the deferred call removes what is in the directory, too. *)
RemoveAllTempDir ==
    /\ creating = "removeTemp" /\ creating' = IF volumeErr THEN "undo" ELSE "container"
    /\ tempDir' = IF tempDir = "mounted" THEN "mounted" ELSE "none"
    /\ rootfsFiles' = IF tempDir = "mounted" THEN "deleted" ELSE rootfsFiles
    /\ UNCHANGED <<held, unpacked, hostDir, volumeErr, notUndone, createFaults>> /\ Fixed

(* The deferred os.Remove, whose error is ignored: a directory that is still
   mounted, or that cannot be removed, is left. *)
RemoveTempDir ==
    /\ creating = "removeTemp" /\ creating' = IF volumeErr THEN "undo" ELSE "container"
    /\ \/ tempDir = "empty" /\ tempDir' = "none" /\ UNCHANGED createFaults
       \/ tempDir = "empty" /\ CreateFault /\ UNCHANGED tempDir
       \/ tempDir = "mounted" /\ UNCHANGED <<tempDir, createFaults>>
    /\ UNCHANGED <<held, unpacked, rootfsFiles, hostDir, volumeErr, notUndone>> /\ Fixed

NewContainer ==
    /\ Acquire("container", {"container"}, "checkpoint")
    /\ UNCHANGED <<unpacked, volumeVars>>

(* containerstore.NewContainer writes the status; containerStore.Add is the last step. *)
StoreContainer ==
    /\ \/ Acquire("checkpoint", {"checkpoint"}, "store")
       \/ Acquire("store", {"stored"}, "created")
    /\ UNCHANGED <<unpacked, volumeVars>>

----------------------------------------------------------------------------
(* A step fails.  A copy may be left in part; WithVolumes runs its own deferred
   calls first, from the one it has come to. *)
CreateFails ==
    /\ creating \in Failing /\ CreateFault
    /\ creating' = CASE creating = "copy" -> "unmount"
                     [] creating = "mount" -> "removeTemp"
                     [] OTHER -> "undo"
    /\ volumeErr' = (volumeErr \/ creating \in {"mount", "copy"})
    /\ \/ UNCHANGED hostDir
       \/ /\ creating = "copy"
          /\ \E v \in inRootfs : hostDir[v] = "empty" /\ hostDir' = [hostDir EXCEPT ![v] = "part"]
    /\ UNCHANGED <<held, unpacked, rootfsFiles, tempDir, notUndone>> /\ Fixed

(* A snapshot without a container goes with the lease of NewContainer (external). *)
LeaseDone ==
    /\ creating \in {"undo", "recover"} /\ "snapshot" \in held /\ "container" \notin held
    /\ held' = held \ {"snapshot"}
    /\ UNCHANGED <<creating, unpacked, volumeVars, notUndone, createFaults>> /\ Fixed

(* The deferred calls in the order they run. *)
UndoOrder == <<"checkpoint", "container", "io", "volatileDir", "rootDir">>
ToUndo == {i \in DOMAIN UndoOrder : UndoOrder[i] \in held \ notUndone}

(* What goes with r: the files in the root directory, the snapshot of the container. *)
Without(r) ==
    held \ (CASE r = "rootDir" -> {"rootDir", "checkpoint"}
              [] r = "container" -> {"container", "snapshot"}
              [] OTHER -> {r})

(* A deferred call; an error is only logged.  Deleting a container may fail
   with its snapshot already gone. *)
Undo ==
    /\ creating = "undo"
    /\ "snapshot" \in held => "container" \in held
    /\ \E i \in ToUndo :
          /\ \A j \in ToUndo : i <= j
          /\ LET r == UndoOrder[i]
             IN  \/ /\ held' = Without(r) /\ UNCHANGED <<notUndone, createFaults>>
                    /\ hostDir' = IF r = "rootDir" THEN [v \in Volumes |-> "absent"] ELSE hostDir
                 \/ /\ CreateFault /\ notUndone' = notUndone \cup {r} /\ UNCHANGED hostDir
                    /\ held' \in {held, IF r = "container" THEN held \ {"snapshot"} ELSE held}
    /\ UNCHANGED <<creating, unpacked, rootfsFiles, tempDir, volumeErr>> /\ Fixed

Undone ==
    /\ creating = "undo" /\ ToUndo = {} /\ creating' = "failed"
    /\ "snapshot" \in held => "container" \in held
    /\ UNCHANGED <<held, unpacked, volumeVars, notUndone, createFaults>> /\ Fixed

----------------------------------------------------------------------------

CreateRestart ==
    /\ createRestarts < MaxCreateRestarts /\ createRestarts' = createRestarts + 1
    /\ creating' = "recover" /\ held' = held \ {"io", "stored"}
    /\ UNCHANGED <<unpacked, imageVolumes, inRootfs, volumeVars, notUndone, createFaults>>

(* recover: a container is loaded, without a status if there is none, and the
   status is written anew, which needs the root directory; then the directories
   of an id that has no container are removed, with best effort. *)
recoverCreated ==
    /\ creating = "recover" /\ creating' = "recovered"
    /\ "snapshot" \in held => "container" \in held
    /\ \/ /\ "container" \in held
          /\ held' = IF "rootDir" \in held THEN held \cup {"checkpoint", "stored"} ELSE held
          /\ UNCHANGED <<hostDir, notUndone, createFaults>>
       \/ /\ "container" \notin held
          /\ \/ /\ held' = {} /\ hostDir' = [v \in Volumes |-> "absent"]
                /\ UNCHANGED <<notUndone, createFaults>>
             \/ /\ CreateFault /\ notUndone' = notUndone \cup held
                /\ UNCHANGED <<held, hostDir>>
    /\ UNCHANGED <<unpacked, rootfsFiles, tempDir, volumeErr>> /\ Fixed

CreateNext ==
    \/ resolveImage \/ MkdirAll \/ containerSpec \/ NewContainerIO \/ WithNewSnapshot
    \/ WithVolumesMount \/ copyExistingContents \/ Unmount \/ RemoveTempDir \/ NewContainer \/ StoreContainer
    \/ CreateFails \/ LeaseDone \/ Undo \/ Undone \/ CreateRestart \/ recoverCreated

CreateSpec == CreateInit /\ [][CreateNext]_createVars

----------------------------------------------------------------------------

(* A created container has all it needs, and its volumes have what the image has
   there, however often a step failed and was retried.  A call that failed, and
   recovery after a crash at any point, leave nothing but what could not be
   undone.  After recovery a container of containerd is in the store, unless a
   failing call could not delete it but did remove its directory: nothing will
   load or remove it then.  The files of a snapshot are never deleted through
   the mount that fills the volumes, and that mount is left only if unmounting
   failed or the process ended. *)
CreationUndone ==
    /\ CreateTypeOK
    /\ rootfsFiles = "intact"
    /\ creating = "created" =>
          /\ held = Resources
          /\ \A v \in imageVolumes : hostDir[v] = IF v \in inRootfs THEN "copied" ELSE "empty"
          /\ tempDir # "mounted"
    /\ creating = "failed" =>
          /\ held \subseteq notUndone \cup {"snapshot", "checkpoint"}
          /\ "snapshot" \in held => "container" \in notUndone
          /\ "checkpoint" \in held => "rootDir" \in notUndone
          /\ tempDir = "mounted" => volumeErr
    /\ creating = "recovered" =>
          /\ "container" \notin held => held \subseteq notUndone
          /\ "container" \in held /\ "stored" \notin held => "container" \in notUndone
          /\ "stored" \in held => {"container", "rootDir", "checkpoint"} \subseteq held
============================================================================
