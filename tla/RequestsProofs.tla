-------------------------- MODULE RequestsProofs ---------------------------
(***************************************************************************)
(* Proofs about what single calls do, for any number of objects, of calls  *)
(* beside them, faults and restarts: the steps of CreateContainer and      *)
(* their undoing (Creation), the lists (Lists), and the execution of a     *)
(* command (Session).                                                      *)
(***************************************************************************)
EXTENDS Creation, Lists, Session, Integers, Sequences, FiniteSets, TLAPS

-----------------------------------------------------------------------------
(* The creation of a container *)

CreateConstants == MaxCreateFaults \in Nat /\ MaxCreateRestarts \in Nat

\* The stages of a call that has not failed, and those it comes to with each thing in hand.
Begun == Stages \ {"undo", "failed", "recover", "recovered"}
WithRootDir == Begun \ {"image", "rootDir"}
WithVolatileDir == WithRootDir \ {"volatileDir"}
WithIO == WithVolatileDir \ {"spec", "io"}
WithSnapshot == WithIO \ {"snapshot", "unpack", "retry"}
WithContainer == {"checkpoint", "store", "created"}
Filled == {"container", "checkpoint", "store", "created"}

\* A call that has not failed has exactly what its stage says.
Acquired ==
    creating \in Begun =>
        /\ notUndone = {}
        /\ "rootDir" \in held <=> creating \in WithRootDir
        /\ "volatileDir" \in held <=> creating \in WithVolatileDir
        /\ "io" \in held <=> creating \in WithIO
        /\ "snapshot" \in held <=> creating \in WithSnapshot
        /\ "container" \in held <=> creating \in WithContainer
        /\ "checkpoint" \in held <=> creating \in {"store", "created"}
        /\ "stored" \in held <=> creating = "created"

\* The directory of volume v has what the image has there.
Copied(v) == hostDir[v] = IF v \in inRootfs THEN "copied" ELSE "empty"

\* The volumes are filled, and the mount is gone, before the record of the container is created.
Volumed ==
    /\ rootfsFiles = "intact"
    /\ creating \in Begun \ {"image", "rootDir", "volatileDir", "spec", "unmount", "removeTemp"} =>
          \A v \in imageVolumes : hostDir[v] = "empty" \/ (hostDir[v] = "copied" /\ v \in inRootfs)
    /\ creating \in Filled \/ (creating \in {"unmount", "removeTemp"} /\ ~volumeErr) =>
          \A v \in imageVolumes : Copied(v)
    /\ creating \in Filled \cup {"undo", "failed"} /\ tempDir = "mounted" => volumeErr
    /\ creating \in Begun \ {"unmount", "removeTemp"} => ~volumeErr
    /\ creating \in Begun \ (Filled \cup {"copy", "unmount", "removeTemp"}) => tempDir # "mounted"
    /\ creating = "removeTemp" /\ tempDir = "mounted" => volumeErr

\* What is left of a call that failed or was cut off: the status file is in the root directory, and
\* the container outlives that directory only if it could not be deleted.
Leftover ==
    /\ creating \in {"undo", "failed", "recover"} => "stored" \notin held
    /\ "checkpoint" \in held => "rootDir" \in held
    /\ "container" \in held /\ "rootDir" \notin held => "container" \in notUndone

CreationInv == CreateTypeOK /\ Acquired /\ Volumed /\ Leftover /\ CreationUndone

\* What CreationUndone says of a call that has not failed follows from the rest.
LEMMA CreatedRight ==
    CreateTypeOK /\ Acquired /\ Volumed /\ creating \in Begun => CreationUndone
<1> SUFFICES ASSUME CreateTypeOK, Acquired, Volumed, creating \in Begun PROVE CreationUndone
  BY Zenon
<1>1. creating = "created" => held = Resources
  <2> SUFFICES ASSUME creating = "created" PROVE held = Resources
    BY Zenon
  <2>1. \A r \in Resources : r \in held
    BY Zenon DEF Acquired, Begun, WithRootDir, WithVolatileDir, WithIO, WithSnapshot, WithContainer, Stages, Resources
  <2> QED BY <2>1, Zenon DEF CreateTypeOK
<1>2. rootfsFiles = "intact" /\ (creating = "created" => tempDir # "mounted" /\ \A v \in imageVolumes : Copied(v))
  BY Zenon DEF Volumed, Filled, Begun, Stages
<1>3. creating \notin {"failed", "recovered"}
  BY Zenon DEF Begun
<1> QED BY <1>1, <1>2, <1>3, Zenon DEF CreationUndone, Copied

\* The same in the next state.
LEMMA CreatedRightNext ==
    (CreateTypeOK /\ Acquired /\ Volumed /\ creating \in Begun => CreationUndone)'
BY CreatedRight, PTL

\* The steps of a call that goes on, but for the volumes.
LEMMA AcquireSteps ==
    ASSUME CreationInv,
           \/ resolveImage \/ MkdirAll \/ NewContainerIO \/ WithNewSnapshot
           \/ NewContainer \/ StoreContainer
    PROVE  CreationInv'
<1> USE DEF Acquire, Fixed, volumeVars
<1>1. /\ UNCHANGED <<imageVolumes, inRootfs, rootfsFiles, hostDir, tempDir, volumeErr, notUndone,
                     createFaults, createRestarts>>
      /\ creating \in Begun /\ creating' \in Begun
      /\ unpacked' \in {unpacked, TRUE}
  BY Zenon DEF resolveImage, MkdirAll, NewContainerIO, WithNewSnapshot, NewContainer,
         StoreContainer, AfterSnapshot, Begun, Stages
<1>2. CreateTypeOK'
  BY <1>1, Zenon DEF CreationInv, CreateTypeOK, resolveImage, MkdirAll, NewContainerIO, WithNewSnapshot,
         NewContainer, StoreContainer, Begun, Resources
<1>3. Acquired'
  BY <1>1, SMTT(60)
  DEF CreationInv, Acquired, resolveImage, MkdirAll, NewContainerIO, WithNewSnapshot, NewContainer,
      StoreContainer, AfterSnapshot, Begun, WithRootDir, WithVolatileDir, WithIO, WithSnapshot, WithContainer,
      Stages
<1>4. Volumed'
  BY <1>1
  DEF CreationInv, Volumed, Copied, resolveImage, MkdirAll, NewContainerIO, WithNewSnapshot, NewContainer,
      StoreContainer, AfterSnapshot, Begun, Filled, Stages
<1>5. Leftover'
  BY <1>1, <1>3, Zenon DEF Leftover, Acquired, Begun, WithRootDir, WithVolatileDir, WithContainer, Stages
<1>6. CreationUndone'
  BY <1>1, <1>2, <1>3, <1>4, CreatedRightNext, Zenon
<1> QED BY <1>2, <1>3, <1>4, <1>5, <1>6, Zenon DEF CreationInv

\* The steps that make the directories of the volumes and fill them.
LEMMA VolumeSteps ==
    ASSUME CreationInv,
           containerSpec \/ WithVolumesMount \/ copyExistingContents
    PROVE  CreationInv'
<1> USE DEF Acquire, Fixed, volumeVars
<1>1. /\ UNCHANGED <<held, unpacked, imageVolumes, inRootfs, rootfsFiles, volumeErr, notUndone,
                     createFaults, createRestarts>>
      /\ creating \in Begun /\ creating' \in Begun
  BY Zenon DEF containerSpec, WithVolumesMount, copyExistingContents, Begun, Stages
<1>2. CreateTypeOK'
  <2>1. /\ hostDir' \in [Volumes -> {"absent", "empty", "part", "copied"}]
        /\ tempDir' \in {"none", "empty", "mounted"}
    BY Zenon DEF CreationInv, CreateTypeOK, containerSpec, WithVolumesMount, copyExistingContents
  <2> QED BY <1>1, <2>1, Zenon DEF CreationInv, CreateTypeOK, Begun
<1>3. Acquired'
  BY <1>1
  DEF CreationInv, Acquired, containerSpec, WithVolumesMount, copyExistingContents, Begun, WithRootDir,
      WithVolatileDir, WithIO, WithSnapshot, WithContainer, Stages
<1>4. Volumed'
  <2>1. CASE containerSpec
    BY <1>1, <2>1 DEF CreationInv, Volumed, CreateTypeOK, containerSpec, Begun, Filled, Stages
  <2>2. CASE WithVolumesMount
    BY <1>1, <2>2 DEF CreationInv, Volumed, WithVolumesMount, Begun, Filled, Stages
  <2>3. CASE copyExistingContents
    BY <1>1, <2>3 DEF CreationInv, Volumed, Copied, CreateTypeOK, copyExistingContents, Begun, Filled, Stages
  <2> QED BY <2>1, <2>2, <2>3, Zenon
<1>5. Leftover'
  BY <1>1, <1>3, Zenon DEF Leftover, Acquired, Begun, WithRootDir, WithVolatileDir, WithContainer, Stages
<1>6. CreationUndone'
  BY <1>1, <1>2, <1>3, <1>4, CreatedRightNext
<1> QED BY <1>2, <1>3, <1>4, <1>5, <1>6, Zenon DEF CreationInv

\* The deferred calls of WithVolumes, which go on or begin to undo the rest, and a step that fails.
LEMMA FailingSteps ==
    ASSUME CreateConstants, CreationInv, Unmount \/ RemoveTempDir \/ CreateFails
    PROVE  CreationInv'
<1> USE DEF Fixed
<1>1. /\ UNCHANGED <<held, unpacked, imageVolumes, inRootfs, rootfsFiles, notUndone, createRestarts>>
      /\ creating \in Begun \ {"created"} /\ creating' \in (Begun \ {"created"}) \cup {"undo"}
  BY Zenon DEF Unmount, RemoveTempDir, CreateFails, Failing, Begun, Stages
<1>2. CreateTypeOK'
  <2>1. /\ hostDir' \in [Volumes -> {"absent", "empty", "part", "copied"}]
        /\ tempDir' \in {"none", "empty", "mounted"}
    BY Zenon DEF CreationInv, CreateTypeOK, Unmount, RemoveTempDir, CreateFails
  <2>2. createFaults' \in 0 .. MaxCreateFaults
    BY DEF CreateConstants, CreationInv, CreateTypeOK, Unmount, RemoveTempDir, CreateFails, CreateFault
  <2>3. volumeErr' \in BOOLEAN
    BY Zenon DEF CreationInv, CreateTypeOK, Unmount, RemoveTempDir, CreateFails
  <2> QED BY <1>1, <2>1, <2>2, <2>3, Zenon DEF CreationInv, CreateTypeOK, Begun, Stages
<1>3. Acquired'
  BY <1>1
  DEF CreationInv, Acquired, Unmount, RemoveTempDir, CreateFails, Failing, Begun, WithRootDir,
      WithVolatileDir, WithIO, WithSnapshot, WithContainer, Stages
<1>4. Volumed'
  <2>1. CASE Unmount
    BY <1>1, <2>1, Zenon DEF CreationInv, Volumed, Copied, Unmount, Begun, Filled, Stages
  <2>2. CASE RemoveTempDir
    BY <1>1, <2>2, Zenon DEF CreationInv, Volumed, Copied, RemoveTempDir, Begun, Filled, Stages
  <2>3. CASE CreateFails
    BY <1>1, <2>3, Zenon DEF CreationInv, Volumed, Copied, CreateFails, Failing, Begun, Filled, Stages
  <2> QED BY <2>1, <2>2, <2>3, Zenon
<1>5. Leftover'
  BY <1>1, Zenon DEF CreationInv, Leftover, Acquired, Begun, WithRootDir, WithVolatileDir, WithContainer, Stages
<1>6. CreationUndone'
  <2>1. CASE creating' \in Begun
    BY <1>2, <1>3, <1>4, <2>1, CreatedRightNext, Zenon
  <2>2. CASE creating' = "undo"
    BY <1>2, <1>4, <2>2, Zenon DEF Volumed, CreationUndone
  <2> QED BY <1>1, <2>1, <2>2, Zenon
<1> QED BY <1>2, <1>3, <1>4, <1>5, <1>6, Zenon DEF CreationInv

\* The deferred calls have all run if none is left, in the order they run.
LEMMA NoneToUndo ==
    ASSUME ToUndo = {}
    PROVE  \A r \in {"checkpoint", "container", "io", "volatileDir", "rootDir"} : r \in held => r \in notUndone
BY DEF ToUndo, UndoOrder

\* The root directory is the last thing that is removed.
LEMMA RootDirLast ==
    ASSUME NEW i \in ToUndo, \A j \in ToUndo : i <= j, UndoOrder[i] = "rootDir"
    PROVE  "container" \in held => "container" \in notUndone
BY DEF ToUndo, UndoOrder

\* The deferred calls of CreateContainer keep the invariant, those that fail as well.
LEMMA UndoSteps ==
    ASSUME CreateConstants, CreationInv, LeaseDone \/ Undo \/ Undone
    PROVE  CreationInv'
<1> USE DEF Fixed, volumeVars
<1>1. /\ UNCHANGED <<unpacked, imageVolumes, inRootfs, rootfsFiles, tempDir, volumeErr, createRestarts>>
      /\ creating \in {"undo", "recover"} /\ creating' \in {creating, "failed"}
      /\ held' \subseteq held /\ notUndone \subseteq notUndone'
      /\ creating' = "failed" => creating = "undo"
  BY Zenon DEF LeaseDone, Undo, Undone, Without
<1>2. CreateTypeOK'
  <2>1. hostDir' \in [Volumes -> {"absent", "empty", "part", "copied"}]
    BY Zenon DEF CreationInv, CreateTypeOK, LeaseDone, Undo, Undone
  <2>2. createFaults' \in 0 .. MaxCreateFaults
    BY DEF CreateConstants, CreationInv, CreateTypeOK, LeaseDone, Undo, Undone, CreateFault
  <2>3. notUndone' \subseteq Resources
    BY DEF CreationInv, CreateTypeOK, LeaseDone, Undo, Undone, ToUndo
  <2> QED BY <1>1, <2>1, <2>2, <2>3, Zenon DEF CreationInv, CreateTypeOK, Stages
<1>3. Acquired'
  BY <1>1, Zenon DEF Acquired, Begun
<1>4. Volumed'
  BY <1>1, Zenon DEF CreationInv, Volumed, Begun, Filled
<1>5. Leftover'
  <2>1. creating' \in {"undo", "failed", "recover"} => "stored" \notin held'
    BY <1>1, Zenon DEF CreationInv, Leftover
  <2>2. CASE "rootDir" \in held /\ "rootDir" \notin held'
    <3>1. PICK i \in ToUndo : /\ \A j \in ToUndo : i <= j
                              /\ held' = Without(UndoOrder[i]) /\ notUndone' = notUndone
      BY <2>2, Zenon DEF LeaseDone, Undo, Undone
    <3>2. UndoOrder[i] = "rootDir"
      BY <2>2, <3>1, Zenon DEF Without
    <3> QED BY <2>1, <3>1, <3>2, RootDirLast DEF Without, Leftover
  <2>3. CASE "rootDir" \in held => "rootDir" \in held'
    BY <1>1, <2>1, <2>3, Zenon DEF CreationInv, Leftover
  <2> QED BY <2>2, <2>3, Zenon
<1>6. CreationUndone'
  <2>1. CASE LeaseDone \/ Undo
    BY <1>1, <1>2, <1>4, <2>1, Zenon DEF LeaseDone, Undo, Volumed, CreationUndone
  <2>2. CASE Undone
    <3>1. /\ held' = held /\ notUndone' = notUndone /\ creating' = "failed"
          /\ "snapshot" \in held => "container" \in held
          /\ \A r \in {"checkpoint", "container", "io", "volatileDir", "rootDir"} : r \in held => r \in notUndone
      BY <2>2, NoneToUndo, Zenon DEF Undone
    <3>2. "stored" \notin held' /\ held' \subseteq Resources /\ ("checkpoint" \in held => "rootDir" \in held)
      BY <1>1, <1>2, <1>5, <3>1, Zenon DEF Leftover, CreateTypeOK
    <3> QED BY <1>2, <1>4, <3>1, <3>2, Zenon DEF Volumed, CreationUndone, Resources
  <2> QED BY <2>1, <2>2, Zenon
<1> QED BY <1>2, <1>3, <1>4, <1>5, <1>6, Zenon DEF CreationInv

\* A crash and the recovery after it keep the invariant.
LEMMA RecoverySteps ==
    ASSUME CreateConstants, CreationInv, CreateRestart \/ recoverCreated
    PROVE  CreationInv'
<1> USE DEF Fixed, volumeVars
<1>1. /\ UNCHANGED <<unpacked, imageVolumes, inRootfs, rootfsFiles, tempDir, volumeErr>>
      /\ creating' \in {"recover", "recovered"} /\ notUndone \subseteq notUndone'
  BY Zenon DEF CreateRestart, recoverCreated
<1>2. CreateTypeOK'
  <2>1. hostDir' \in [Volumes -> {"absent", "empty", "part", "copied"}]
    BY Zenon DEF CreationInv, CreateTypeOK, CreateRestart, recoverCreated
  <2>2. createFaults' \in 0 .. MaxCreateFaults /\ createRestarts' \in 0 .. MaxCreateRestarts
    BY DEF CreateConstants, CreationInv, CreateTypeOK, CreateRestart, recoverCreated, CreateFault
  <2>3. held' \subseteq Resources /\ notUndone' \subseteq Resources
    BY Zenon DEF CreationInv, CreateTypeOK, CreateRestart, recoverCreated, Resources
  <2> QED BY <1>1, <2>1, <2>2, <2>3, Zenon DEF CreationInv, CreateTypeOK, Stages
<1>3. Acquired' /\ Volumed'
  BY <1>1, Zenon DEF CreationInv, Acquired, Volumed, Begun, Filled
<1>4. Leftover'
  BY <1>1, Zenon DEF CreationInv, Leftover, CreateRestart, recoverCreated
<1>5. CreationUndone'
  <2>1. CASE CreateRestart
    BY <1>2, <1>3, <2>1, Zenon DEF CreateRestart, Volumed, CreationUndone
  <2>2. CASE recoverCreated
    <3>1. "stored" \notin held /\ ("container" \in held /\ "rootDir" \notin held => "container" \in notUndone)
      BY <2>2, Zenon DEF CreationInv, Leftover, recoverCreated
    <3> QED BY <1>2, <1>3, <2>2, <3>1, Zenon DEF recoverCreated, Volumed, CreationUndone
  <2> QED BY <2>1, <2>2, Zenon
<1> QED BY <1>2, <1>3, <1>4, <1>5, Zenon DEF CreationInv

\* A creation that fails at any step, or is cut off by the end of the process, leaves nothing but
\* what could not be undone, and one that succeeds has all it needs (createContainer and its
\* deferred calls, WithVolumes, recover).
THEOREM CreationIsUndone ==
    ASSUME CreateConstants
    PROVE  CreateSpec => []CreationUndone
<1>1. CreateInit => CreationInv
  <2> SUFFICES ASSUME CreateInit PROVE CreationInv
    BY Zenon
  <2>1. CreateTypeOK
    <3>1. hostDir \in [Volumes -> {"absent", "empty", "part", "copied"}]
      BY Zenon DEF CreateInit
    <3>2. createFaults \in 0 .. MaxCreateFaults /\ createRestarts \in 0 .. MaxCreateRestarts
      BY DEF CreateInit, CreateConstants
    <3>3. /\ unpacked \in BOOLEAN /\ volumeErr \in BOOLEAN /\ inRootfs \subseteq imageVolumes
          /\ imageVolumes \subseteq Volumes
      BY Zenon DEF CreateInit
    <3> QED BY <3>1, <3>2, <3>3, Zenon DEF CreateInit, CreateTypeOK, Stages, Resources
  <2>2. Acquired /\ Volumed /\ Leftover /\ creating \in Begun
    BY Zenon DEF CreateInit, Acquired, Volumed, Leftover, Begun, WithRootDir, WithVolatileDir, WithIO, WithSnapshot,
           WithContainer, Filled, Stages
  <2> QED BY <2>1, <2>2, CreatedRight, Zenon DEF CreationInv
<1>2. CreationInv /\ [CreateNext]_(createVars) => CreationInv'
  <2> SUFFICES ASSUME CreationInv, [CreateNext]_(createVars) PROVE CreationInv'
    BY Zenon
  <2>1. CASE UNCHANGED createVars
    BY <2>1
    DEF createVars, CreationInv, CreateTypeOK, Acquired, Volumed, Copied, Leftover, CreationUndone
  <2>2. CASE CreateNext
    BY <2>2, AcquireSteps, VolumeSteps, FailingSteps, UndoSteps, RecoverySteps, Zenon DEF CreateNext
  <2> QED BY <2>1, <2>2, Zenon
<1>3. CreationInv => CreationUndone
  BY Zenon DEF CreationInv
<1> QED BY <1>1, <1>2, <1>3, PTL DEF CreateSpec

-----------------------------------------------------------------------------

(* Lists *)

(* Ids have all the same length, so that one is the prefix of itself alone, and the empty string
   is no id; containers and sandboxes have different ids. *)
ListConstants ==
    /\ \A o \in Objects : IdsWithPrefix[o] = {o}
    /\ NotSet \notin Objects /\ Containers \cap Sandboxes = {}
    /\ MaxChanges \in Nat

(* The stores now are one of the moments; an object that was stored at some moment was once
   stored in the state it is in now, or was in when it was removed. *)
MomentsKept ==
    /\ Moment(inStore, statuses) \in moments
    /\ \A m \in moments : \A o \in m.stored : \E n \in moments : o \in n.stored /\ n.status[o] = statuses[o]

(* What a call that reads statuses has listed was stored at one moment. *)
ListedThen ==
    call # "ListContainerStats" =>
        /\ listing \notin {"normalize", "metrics", "failed"}
        /\ \A o \in DOMAIN listed : \E m \in moments : o \in m.stored /\ Shown(o, m) = listed[o]
        /\ listing = "list" => DOMAIN listed = {}
        /\ listing \in {"status", "sandbox", "id", "filter"} =>
              \E m \in moments : unread \cup DOMAIN listed = m.stored \cap Of(call)
        /\ listing \in {"sandbox", "id", "filter"} => unread = {}

(* The ids of the filter were looked up at some moment. *)
LookedUp ==
    /\ listing \in {"normalize", "filter"} =>
          \E m \in moments : byId = Lookup(filter.id, Of(call), m.stored)
    /\ (listing = "filter" /\ call # "ListPodSandbox") \/ (listing = "id" /\ call = "ListContainers") =>
          \E m \in moments : bySandbox = Lookup(filter.sandbox, Sandboxes, m.stored)
    /\ filter = NoFilter => listing \notin {"sandbox", "id", "normalize", "filter"}

(* What is said of an object that is in the answer, and of one that has to be. *)
Asked(o) ==
    /\ \E m \in moments : Denotes(filter.id, Of(call), o, m)
    /\ filter.labels \subseteq LabelsOf[o]
    /\ call # "ListPodSandbox" =>
          \/ filter.sandbox = SandboxOf[o]
          \/ \E m \in moments : Denotes(filter.sandbox, Sandboxes, SandboxOf[o], m)

Steady(o) == \A m \in moments : o \in m.stored /\ Wanted(o, m)

(* The containers whose metrics are asked for. *)
MetricsAsked ==
    /\ call = "ListContainerStats" => listing \notin {"list", "status", "sandbox"}
    /\ call = "ListContainerStats" /\ listing = "metrics" =>
          /\ filter = NoFilter => unread = {}
          /\ \A o \in unread : (\E m \in moments : o \in m.stored) /\ Asked(o)
          /\ filter # NoFilter => \A o \in Of(call) : Steady(o) => o \in unread

ListInv == ListTypeOK /\ MomentsKept /\ ListedThen /\ LookedUp /\ MetricsAsked /\ ListsRight

(* What a key is looked up as: itself, or the one object that has it as a prefix. *)
Finds(key, objects, in, result, o) ==
    /\ result = NotSet <=> key = NotSet
    /\ key # NotSet /\ IdsWithPrefix[key] \cap objects \cap in = {o} => result = o
    /\ key # NotSet /\ result = o => key = o \/ IdsWithPrefix[key] \cap objects \cap in = {o}

\* What Lookup makes of a key (Store.Get: the id, or the one id with that prefix).
LEMMA LookupFinds ==
    ASSUME ListConstants, NEW key, NEW objects, objects \subseteq Objects, NEW in, NEW o
    PROVE  Finds(key, objects, in, Lookup(key, objects, in), o)
<1> DEFINE result == Lookup(key, objects, in)
<1> SUFFICES /\ result = NotSet <=> key = NotSet
             /\ key # NotSet /\ IdsWithPrefix[key] \cap objects \cap in = {o} => result = o
             /\ key # NotSet /\ result = o => key = o \/ IdsWithPrefix[key] \cap objects \cap in = {o}
  BY Zenon DEF Finds
<1> DEFINE found == IdsWithPrefix[key] \cap objects \cap in
<1>1. CASE key = NotSet
  <2>1. Lookup(key, objects, in) = key
    BY <1>1, Zenon DEF Lookup
  <2> HIDE DEF result
  <2> QED BY <1>1, <2>1, Zenon DEF result
<1>2. CASE key # NotSet
  <2> DEFINE got == IF key = NotSet THEN {} ELSE IdsWithPrefix[key] \cap objects \cap in
  <2>0. got = found
    BY <1>2, Zenon
  <2>1. Lookup(key, objects, in) = IF \E x \in got : got = {x} THEN CHOOSE x \in got : TRUE ELSE key
    BY Zenon DEF Lookup
  <2>2. NotSet \notin found
    BY Zenon DEF ListConstants
  <2> HIDE DEF found, got
  <2>3. \A x : got = {x} => result = x
    BY <2>1, Zenon
  <2>4. \A x : result = x => key = x \/ got = {x}
    BY <2>1, <2>3, Zenon
  <2> QED BY <1>2, <2>0, <2>2, <2>3, <2>4, Zenon DEF found
<1> QED BY <1>1, <1>2, Zenon

(* The stores change beside the call. *)
LEMMA ChangeStep ==
    ASSUME ListInv, NEW objects \in SUBSET Objects, NEW s \in [Objects -> States],
           Change(objects, s),
           \A m \in moments : \A o \in m.stored : o \in objects \/ s[o] = statuses[o]
    PROVE  ListInv'
<1> DEFINE now == Moment(objects, s)
<1>1. /\ UNCHANGED <<call, filter, listing, unread, listed, byId, bySandbox>>
      /\ inStore' = objects /\ statuses' = s /\ moments' = moments \cup {now}
      /\ listing' \notin {"returned", "failed"}
  BY Zenon DEF Change
<1>2. now.stored = objects /\ now.status = s
  BY Zenon DEF Moment
<1>3. ListTypeOK'
  BY <1>1, Zenon DEF ListInv, ListTypeOK
<1>4. MomentsKept'
  <2>1. Moment(inStore', statuses') \in moments'
    BY <1>1, Zenon
  <2>2. ASSUME NEW m \in moments', NEW o \in m.stored
        PROVE  \E n \in moments' : o \in n.stored /\ n.status[o] = statuses'[o]
    <3>1. CASE o \in objects
      BY <1>1, <1>2, <3>1, Zenon
    <3>2. CASE o \notin objects
      <4>1. m \in moments /\ s[o] = statuses[o]
        BY <1>1, <1>2, <3>2, Zenon
      <4> QED BY <1>1, <4>1, Zenon DEF ListInv, MomentsKept
    <3> QED BY <3>1, <3>2, Zenon
  <2> QED BY <2>1, <2>2, Zenon DEF MomentsKept, Moment
<1> HIDE DEF now
<1>5. ListedThen'
  BY <1>1, Zenon DEF ListInv, ListedThen, Of, Shown, toCRISandbox
<1>6. LookedUp'
  <2>1. Of(call)' = Of(call) /\ NoFilter' = NoFilter
    BY <1>1, Zenon DEF Of, NoFilter
  <2> QED BY <1>1, <2>1, Zenon DEF ListInv, LookedUp
<1>7. MetricsAsked'
  <2>1. \A o : Asked(o) => Asked(o)'
    BY <1>1, Zenon DEF Asked, Denotes, Of
  <2>2. \A o : Steady(o)' => Steady(o)
    BY <1>1, Zenon DEF Steady, Wanted, Denotes, Of, Shown, toCRISandbox, NoFilter
  <2> QED BY <1>1, <2>1, <2>2, Zenon DEF ListInv, MetricsAsked, Of, NoFilter
<1>8. ListsRight'
  BY <1>1, <1>3, Zenon DEF ListsRight
<1> QED BY <1>3, <1>4, <1>5, <1>6, <1>7, <1>8 DEF ListInv

\* Creations, starts, exits and removals beside the call.
LEMMA StoreSteps ==
    ASSUME ListInv, NEW o \in Objects, Created(o) \/ Started(o) \/ Stopped(o) \/ Removed(o)
    PROVE  ListInv'
<1>1. inStore \subseteq Objects /\ statuses \in [Objects -> States]
  BY Zenon DEF ListInv, ListTypeOK
<1>2. ASSUME NEW v \in States, Change(inStore, [statuses EXCEPT ![o] = v]), o \in inStore
      PROVE  ListInv'
  <2> DEFINE changed == [statuses EXCEPT ![o] = v]
  <2>1. changed \in [Objects -> States]
    BY <1>1, Zenon
  <2>2. \A p : p \in inStore \/ changed[p] = statuses[p]
    BY <1>1, <1>2
  <2>3. inStore \in SUBSET Objects /\ Change(inStore, changed)
    BY <1>1, <1>2, Zenon
  <2> HIDE DEF changed
  <2> QED BY <2>1, <2>2, <2>3, ChangeStep, ZenonT(60)
<1>3. CASE Created(o)
  <2> DEFINE v == IF o \in Containers THEN "CREATED" ELSE "Ready"
         changed == [statuses EXCEPT ![o] = v]
         more == inStore \cup {o}
  <2>1. New(o) /\ Change(more, changed)
    BY <1>3, Zenon DEF Created
  <2>2. v \in States
    BY Zenon DEF States
  <2> HIDE DEF v
  <2>3. changed \in [Objects -> States] /\ more \in SUBSET Objects
    BY <1>1, <2>2, Zenon
  <2>4. \A m \in moments : \A p \in m.stored : changed[p] = statuses[p]
    BY <1>1, <2>1 DEF New
  <2> HIDE DEF changed, more
  <2>5. \A m \in moments : \A p \in m.stored : p \in more \/ changed[p] = statuses[p]
    BY <2>4, Zenon
  <2>6. Change(more, changed) /\ more \in SUBSET Objects /\ changed \in [Objects -> States]
    BY <2>1, <2>3, Zenon
  <2> QED BY <2>5, <2>6, ChangeStep, Zenon
<1>4. CASE Started(o)
  BY <1>2, <1>4, Zenon DEF Started, States
<1>5. CASE Stopped(o)
  BY <1>2, <1>5, Zenon DEF Stopped, States
<1>6. CASE Removed(o)
  <2>1. Change(inStore \ {o}, statuses) /\ inStore \ {o} \in SUBSET Objects
    BY <1>1, <1>6, Zenon DEF Removed
  <2> QED BY <1>1, <2>1, ChangeStep
<1> QED BY <1>3, <1>4, <1>5, <1>6

(* The call lists, reads and looks up. *)
LEMMA ReadSteps ==
    ASSUME ListInv,
           \/ List \/ LookupSandbox \/ LookupId \/ NormalizeSandbox
           \/ \E o \in Objects : ReadStatus(o)
    PROVE  ListInv'
<1> USE DEF Outside
<1>1. /\ UNCHANGED <<inStore, statuses, call, filter, moments>>
      /\ listing' \notin {"metrics", "returned"}
      /\ inStore \subseteq Objects
  BY Zenon DEF ListInv, ListTypeOK, List, LookupSandbox, LookupId, NormalizeSandbox, ReadStatus
<1>2. MomentsKept'
  BY <1>1, Zenon DEF ListInv, MomentsKept, Moment
<1>3. Moment(inStore, statuses) \in moments
  BY Zenon DEF ListInv, MomentsKept
<1>4. Moment(inStore, statuses).stored = inStore /\ Moment(inStore, statuses).status = statuses
  BY Zenon DEF Moment
<1>5. ListTypeOK' => ListsRight'
  BY <1>1, Zenon DEF ListsRight
<1>6. CASE List
  <2>1. /\ listing = "list" /\ listing' = "status" /\ unread' = inStore \cap Of(call) /\ listed' = listed
    BY <1>6, Zenon DEF List
  <2>2. ListedThen'
    BY <1>1, <1>3, <1>4, <2>1 DEF ListInv, ListedThen, Of, Shown, toCRISandbox
  <2>3. ListTypeOK' /\ LookedUp' /\ MetricsAsked'
    BY <1>1, <2>1, Zenon DEF ListInv, ListTypeOK, LookedUp, MetricsAsked, Of, NoFilter
  <2> QED BY <1>2, <1>5, <2>2, <2>3 DEF ListInv
<1>7. ASSUME NEW o \in Objects, ReadStatus(o) PROVE ListInv'
  <2> DEFINE v == IF o \in Sandboxes THEN toCRISandbox(statuses[o]) ELSE statuses[o]
  <2>1. /\ listing = "status" /\ listing' = listing /\ o \in unread /\ unread' = unread \ {o}
        /\ DOMAIN listed' = DOMAIN listed \cup {o}
        /\ \A p \in DOMAIN listed : p # o => listed'[p] = listed[p]
        /\ listed'[o] = v
    BY <1>7, Zenon DEF ReadStatus
  <2>2. call # "ListContainerStats"
    BY <2>1, Zenon DEF ListInv, MetricsAsked
  <2>3. unread' \cup DOMAIN listed' = unread \cup DOMAIN listed
    BY <2>1, Zenon
  <2>4. \E n \in moments : o \in n.stored /\ n.status[o] = statuses[o]
    BY <2>1, <2>2 DEF ListInv, ListedThen, MomentsKept
  <2>5. \E n \in moments : o \in n.stored /\ Shown(o, n) = listed'[o]
    BY <2>1, <2>4, Zenon DEF Shown
  <2>6. \A p \in DOMAIN listed' : \E m \in moments : p \in m.stored /\ Shown(p, m) = listed'[p]
    BY <2>1, <2>2, <2>5, Zenon DEF ListInv, ListedThen
  <2>7. ListedThen'
    BY <1>1, <2>1, <2>2, <2>3, <2>6, SMTT(60) DEF ListInv, ListedThen, Of, Shown, toCRISandbox
  <2>8. ListTypeOK' /\ LookedUp' /\ MetricsAsked'
    BY <1>1, <2>1 DEF ListInv, ListTypeOK, LookedUp, MetricsAsked, Of, NoFilter
  <2> QED BY <1>2, <1>5, <2>7, <2>8 DEF ListInv
<1>8. CASE LookupSandbox \/ LookupId \/ NormalizeSandbox
  <2>1. unread' = unread /\ listed' = listed /\ listing \in {"sandbox", "id", "normalize"}
    BY <1>8, Zenon DEF LookupSandbox, LookupId, NormalizeSandbox
  <2>2. listing' \in {"id", "normalize", "filter"}
        /\ (listing' = "normalize" <=> listing = "id" /\ call = "ListContainerStats")
    BY <1>8, Zenon DEF LookupSandbox, LookupId, NormalizeSandbox
  <2>3. ListTypeOK'
    BY <1>1, <2>1, <2>2 DEF ListInv, ListTypeOK, Of
  <2>4. ListedThen'
    BY <1>1, <2>1, <2>2 DEF ListInv, ListedThen, Of, Shown, toCRISandbox
  <2>5. LookedUp'
    BY <1>1, <1>3, <1>4, <1>8, Zenon DEF ListInv, LookedUp, LookupSandbox, LookupId, NormalizeSandbox, Of, NoFilter,
        ListTypeOK, Calls, ListedThen, MetricsAsked
  <2>6. MetricsAsked'
    BY <1>1, <2>1, <2>2 DEF ListInv, MetricsAsked
  <2> QED BY <1>2, <1>5, <2>3, <2>4, <2>5, <2>6 DEF ListInv
<1> QED BY <1>6, <1>7, <1>8

(* An object that was stored and matches the ids that were looked up is what the filter asks
   for; one that the filter asks for all the time matches. *)
LEMMA MatchesRight ==
    ASSUME ListConstants, ListInv, listing = "filter", NEW o \in Of(call), NEW s,
           NEW m0 \in moments, o \in m0.stored
    PROVE  /\ Matches(o, s) => Asked(o) /\ (call # "ListContainerStats" /\ filter.state # NotSet => s = filter.state)
           /\ /\ Steady(o)
              /\ call # "ListContainerStats" => \E m \in moments : Shown(o, m) = s
              => Matches(o, s)
<1>1. /\ Of(call) \subseteq Objects /\ Sandboxes \subseteq Objects
      /\ o \in Objects /\ filter # NoFilter
  BY Zenon DEF Of, Objects, ListInv, LookedUp
<1>2. PICK m1 \in moments : byId = Lookup(filter.id, Of(call), m1.stored)
  BY Zenon DEF ListInv, LookedUp
<1> DEFINE idsThen == IdsWithPrefix[filter.id] \cap Of(call) \cap m1.stored
<1>0. /\ byId = NotSet <=> filter.id = NotSet
      /\ filter.id # NotSet /\ idsThen = {o} => byId = o
      /\ filter.id # NotSet /\ byId = o => filter.id = o \/ idsThen = {o}
  <2>1. Finds(filter.id, Of(call), m1.stored, byId, o)
    BY <1>1, <1>2, LookupFinds, Zenon
  <2> QED BY <2>1, Zenon DEF Finds
<1> HIDE DEF idsThen
<1>3. ASSUME byId # NotSet => byId = o PROVE \E m \in moments : Denotes(filter.id, Of(call), o, m)
  <2>1. CASE filter.id = NotSet
    BY <2>1, Zenon DEF Denotes
  <2>2. CASE filter.id # NotSet
    <3>1. filter.id = o \/ idsThen = {o}
      BY <1>0, <1>3, <2>2
    <3>2. CASE filter.id = o
      <4>1. IdsWithPrefix[filter.id] \cap Of(call) \cap m0.stored = {o}
        BY <1>1, <3>2 DEF ListConstants
      <4> QED BY <4>1, Zenon DEF Denotes
    <3> QED BY <3>1, <3>2, Zenon DEF Denotes, idsThen
  <2> QED BY <2>1, <2>2
<1>4. ASSUME call # "ListPodSandbox", bySandbox # NotSet => bySandbox = SandboxOf[o]
      PROVE  \/ filter.sandbox = SandboxOf[o]
             \/ \E m \in moments : Denotes(filter.sandbox, Sandboxes, SandboxOf[o], m)
  <2>1. PICK m2 \in moments : bySandbox = Lookup(filter.sandbox, Sandboxes, m2.stored)
    BY <1>4, Zenon DEF ListInv, LookedUp
  <2>2. CASE filter.sandbox = NotSet
    BY <2>2, Zenon DEF Denotes
  <2>3. CASE filter.sandbox # NotSet
    <3>1. /\ bySandbox = NotSet <=> filter.sandbox = NotSet
          /\ filter.sandbox # NotSet /\ bySandbox = SandboxOf[o] =>
                \/ filter.sandbox = SandboxOf[o]
                \/ IdsWithPrefix[filter.sandbox] \cap Sandboxes \cap m2.stored = {SandboxOf[o]}
      <4>1. Finds(filter.sandbox, Sandboxes, m2.stored, bySandbox, SandboxOf[o])
        BY <1>1, <2>1, LookupFinds, Zenon
      <4> QED BY <4>1, Zenon DEF Finds
    <3> QED BY <1>4, <2>3, <3>1 DEF Denotes
  <2> QED BY <2>2, <2>3, Zenon
<1>5. ASSUME Steady(o) PROVE byId # NotSet => byId = o
  <2>1. Denotes(filter.id, Of(call), o, m1)
    BY <1>1, <1>5, Zenon DEF Steady, Wanted
  <2> QED BY <1>0, <2>1 DEF Denotes, idsThen
<1>6. ASSUME Steady(o), call # "ListPodSandbox" PROVE bySandbox # NotSet => bySandbox = SandboxOf[o]
  <2>1. PICK m2 \in moments : bySandbox = Lookup(filter.sandbox, Sandboxes, m2.stored)
    BY <1>6, Zenon DEF ListInv, LookedUp
  <2>2. Denotes(filter.sandbox, Sandboxes, SandboxOf[o], m2)
    BY <1>1, <1>6, Zenon DEF Steady, Wanted
  <2>3. /\ bySandbox = NotSet <=> filter.sandbox = NotSet
        /\ filter.sandbox # NotSet /\ IdsWithPrefix[filter.sandbox] \cap Sandboxes \cap m2.stored = {SandboxOf[o]} =>
              bySandbox = SandboxOf[o]
    <3>1. Finds(filter.sandbox, Sandboxes, m2.stored, bySandbox, SandboxOf[o])
      BY <1>1, <2>1, LookupFinds, Zenon
    <3> QED BY <3>1, Zenon DEF Finds
  <2> QED BY <2>2, <2>3, Zenon DEF Denotes
<1>7. Matches(o, s) => Asked(o) /\ (call # "ListContainerStats" /\ filter.state # NotSet => s = filter.state)
  BY <1>3, <1>4, Zenon DEF Matches, matchLabelSelector, Asked
<1>8. ASSUME Steady(o), call # "ListContainerStats" => \E m \in moments : Shown(o, m) = s
      PROVE  Matches(o, s)
  <2>1. filter.labels \subseteq LabelsOf[o]
    BY <1>1, <1>8 DEF Steady, Wanted
  <2>2. call # "ListContainerStats" /\ filter.state # NotSet => filter.state = s
    BY <1>1, <1>8, Zenon DEF Steady, Wanted
  <2> QED BY <1>5, <1>6, <1>8, <2>1, <2>2, Zenon DEF Matches, matchLabelSelector
<1> QED BY <1>7, <1>8

(* ListsRight, in the terms of the lemmas. *)
Answer ==
    listing = "returned" =>
        /\ \A o \in DOMAIN listed :
              /\ \E m \in moments : o \in m.stored /\ (call = "ListContainerStats" \/ Shown(o, m) = listed[o])
              /\ filter # NoFilter =>
                    /\ Asked(o)
                    /\ call # "ListContainerStats" /\ filter.state # NotSet => listed[o] = filter.state
        /\ \/ call = "ListContainerStats" /\ filter = NoFilter
           \/ \A o \in Of(call) : Steady(o) => o \in DOMAIN listed

\* The invariant's account of the answer implies the property.
LEMMA Answered == ListTypeOK /\ Answer => ListsRight
BY Zenon DEF Answer, ListsRight, Asked, Steady

\* The same in the next state.
LEMMA AnsweredNext == (ListTypeOK /\ Answer => ListsRight)'
BY Answered, PTL

\* The steps that make the answer: filtering, and the metrics of containerd.
LEMMA AnswerSteps ==
    ASSUME ListConstants, ListInv,
           StatusesRead \/ filterCRI \/ buildTaskMetricsRequest \/ toCRIContainerStats \/ MetricsFail
    PROVE  ListInv'
<1> USE DEF Outside
<1>1. UNCHANGED <<inStore, statuses, call, filter, moments, byId, bySandbox>>
  BY Zenon DEF StatusesRead, filterCRI, buildTaskMetricsRequest, toCRIContainerStats, MetricsFail
<1>2. MomentsKept'
  BY <1>1, Zenon DEF ListInv, MomentsKept, Moment
<1>3. /\ \A o : Asked(o)' <=> Asked(o)
      /\ \A o : Steady(o)' <=> Steady(o)
      /\ \A o, m : Shown(o, m)' = Shown(o, m)
      /\ Of(call)' = Of(call) /\ NoFilter' = NoFilter /\ NotSet' = NotSet
  <2>1. \A o, m : Shown(o, m)' = Shown(o, m)
    BY Zenon DEF Shown, toCRISandbox
  <2>2. \A o : Asked(o)' <=> Asked(o)
    BY <1>1, Zenon DEF Asked, Denotes, Of
  <2>3. \A o : Steady(o)' <=> Steady(o)
    BY <1>1, Zenon DEF Steady, Wanted, Denotes, Of, Shown, toCRISandbox, NoFilter, NotSet
  <2> QED BY <1>1, <2>1, <2>2, <2>3 DEF Of, NoFilter, NotSet
<1>4. inStore \subseteq Objects /\ call \in Calls /\ Moment(inStore, statuses) \in moments
  BY Zenon DEF ListInv, ListTypeOK, MomentsKept
<1>5. CASE StatusesRead
  <2>1. /\ listing = "status" /\ unread = {} /\ unread' = unread /\ listed' = listed
        /\ listing' = IF filter = NoFilter THEN "returned"
                      ELSE IF call = "ListPodSandbox" THEN "id" ELSE "sandbox"
        /\ call # "ListContainerStats"
    BY <1>5, Zenon DEF StatusesRead, ListInv, MetricsAsked
  <2>2. ListTypeOK' /\ ListedThen' /\ LookedUp' /\ MetricsAsked'
    BY <1>1, <1>3, <2>1, Zenon DEF ListInv, ListTypeOK, ListedThen, LookedUp, MetricsAsked
  <2>3. CASE listing' = "returned"
    <3>1. filter = NoFilter
      BY <2>1, <2>3
    <3>2. \A o \in DOMAIN listed : \E m \in moments : o \in m.stored /\ Shown(o, m) = listed[o]
      BY <2>1, Zenon DEF ListInv, ListedThen
    <3>3. PICK m \in moments : DOMAIN listed = m.stored \cap Of(call)
      BY <2>1, Zenon DEF ListInv, ListedThen
    <3>4. \A o \in Of(call) : Steady(o) => o \in DOMAIN listed
      BY <3>3, Zenon DEF Steady
    <3>5. Answer'
      BY <1>1, <1>3, <2>1, <3>1, <3>2, <3>4 DEF Answer
    <3> QED BY <1>2, <2>2, <3>5, AnsweredNext DEF ListInv
  <2>4. CASE listing' # "returned"
    <3>1. Answer'
      BY <2>4, Zenon DEF Answer
    <3> QED BY <1>2, <2>2, <3>1, AnsweredNext DEF ListInv
  <2> QED BY <2>3, <2>4
<1>6. CASE filterCRI
  <2>1. /\ listing = "filter" /\ call # "ListContainerStats" /\ listing' = "returned" /\ unread' = unread
        /\ DOMAIN listed' = {p \in DOMAIN listed : Matches(p, listed[p])}
        /\ \A o \in DOMAIN listed' : listed'[o] = listed[o]
    BY <1>6, Zenon DEF filterCRI
  <2>2. \A o \in DOMAIN listed : \E m \in moments : o \in m.stored /\ Shown(o, m) = listed[o]
    BY <2>1, Zenon DEF ListInv, ListedThen
  <2>3. PICK m \in moments : DOMAIN listed = m.stored \cap Of(call)
    BY <2>1, Zenon DEF ListInv, ListedThen
  <2>4. ASSUME NEW o \in DOMAIN listed'
        PROVE  Asked(o) /\ (filter.state # NotSet => listed'[o] = filter.state)
    <3>1. o \in Of(call) /\ o \in m.stored /\ Matches(o, listed[o]) /\ listed'[o] = listed[o]
      BY <2>1, <2>3, Zenon
    <3> QED BY <2>1, <3>1, MatchesRight
  <2>5. ASSUME NEW o \in Of(call), Steady(o) PROVE o \in DOMAIN listed'
    <3>1. o \in DOMAIN listed /\ o \in m.stored
      BY <2>3, <2>5 DEF Steady
    <3>2. \E n \in moments : Shown(o, n) = listed[o]
      BY <2>2, <3>1, Zenon
    <3>3. Matches(o, listed[o])
      BY <2>1, <2>5, <3>1, <3>2, MatchesRight, SMTT(60)
    <3> QED BY <2>1, <3>1, <3>3
  <2>6. ListTypeOK' /\ ListedThen' /\ LookedUp' /\ MetricsAsked'
    BY <1>1, <1>3, <2>1, <2>2 DEF ListInv, ListTypeOK, ListedThen, LookedUp, MetricsAsked
  <2>7. Answer'
    BY <1>1, <1>3, <2>1, <2>2, <2>4, <2>5 DEF Answer
  <2> QED BY <1>2, <2>6, <2>7, AnsweredNext DEF ListInv
<1>7. CASE buildTaskMetricsRequest
  <2>1. /\ listing = "filter" /\ call = "ListContainerStats" /\ listing' = "metrics" /\ listed' = listed
        /\ unread' = {o \in inStore \cap Containers : Matches(o, NotSet)}
    BY <1>7, Zenon DEF buildTaskMetricsRequest
  <2>2. Of(call) = Containers /\ filter # NoFilter
    BY <2>1, Zenon DEF Of, ListInv, LookedUp
  <2>3. Moment(inStore, statuses).stored = inStore
    BY Zenon DEF Moment
  <2>4. ASSUME NEW o \in unread' PROVE (\E m \in moments : o \in m.stored) /\ Asked(o)
    <3>1. o \in Of(call) /\ o \in Moment(inStore, statuses).stored /\ Matches(o, NotSet)
      BY <2>1, <2>2, <2>3
    <3> QED BY <1>4, <2>1, <3>1, MatchesRight
  <2>5. ASSUME NEW o \in Of(call), Steady(o) PROVE o \in unread'
    <3>1. o \in Moment(inStore, statuses).stored
      BY <1>4, <2>5 DEF Steady
    <3>2. Matches(o, NotSet)
      BY <1>4, <2>1, <2>5, <3>1, MatchesRight, Zenon
    <3> QED BY <2>1, <2>2, <2>3, <3>1, <3>2
  <2>6. ListTypeOK' /\ ListedThen' /\ LookedUp'
    BY <1>1, <1>3, <2>1, <2>2, Zenon DEF ListInv, ListTypeOK, ListedThen, LookedUp
  <2>7. MetricsAsked'
    BY <1>1, <1>3, <2>1, <2>2, <2>4, <2>5 DEF MetricsAsked
  <2>8. Answer'
    BY <2>1, Zenon DEF Answer
  <2> QED BY <1>2, <2>6, <2>7, <2>8, AnsweredNext DEF ListInv
<1>8. CASE toCRIContainerStats
  <2>1. /\ listing = "metrics" /\ call = "ListContainerStats" /\ listing' = "returned" /\ unread' = {}
        /\ DOMAIN listed' = unread
    BY <1>4, <1>8 DEF toCRIContainerStats, ListInv, ListedThen
  <2>2. ListTypeOK' /\ ListedThen' /\ LookedUp' /\ MetricsAsked'
    BY <1>1, <1>3, <2>1, Zenon DEF ListInv, ListTypeOK, ListedThen, LookedUp, MetricsAsked
  <2>3. Answer'
    BY <1>1, <1>3, <2>1 DEF Answer, ListInv, MetricsAsked
  <2> QED BY <1>2, <2>2, <2>3, AnsweredNext, Zenon DEF ListInv
<1>9. CASE MetricsFail
  <2>1. /\ listing = "metrics" /\ call = "ListContainerStats" /\ listing' = "failed"
        /\ unread' = unread /\ listed' = listed
    BY <1>9, ZenonT(60) DEF MetricsFail, ListInv, ListedThen
  <2>2. ListTypeOK' /\ ListedThen' /\ LookedUp' /\ MetricsAsked'
    BY <1>1, <1>3, <2>1 DEF ListInv, ListTypeOK, ListedThen, LookedUp, MetricsAsked
  <2>3. Answer'
    BY <2>1, Zenon DEF Answer
  <2> QED BY <1>2, <2>2, <2>3, AnsweredNext, Zenon DEF ListInv
<1> QED BY <1>5, <1>6, <1>7, <1>8, <1>9

(* However the stores change during a call, what it returns was there, in the state that is
   reported, and it misses nothing that did not change (ListContainers, ListPodSandbox,
   ListContainerStats). *)
THEOREM ListsAreRight ==
    ASSUME ListConstants
    PROVE  ListSpec => []ListsRight
<1>1. ListInit => ListInv
  <2> SUFFICES ASSUME ListInit PROVE ListInv
    BY Zenon
  <2>1. /\ listing \in {"list", "metrics", "id"} /\ unread = {} /\ DOMAIN listed = {} /\ call \in Calls
        /\ moments = {Moment(inStore, statuses)} /\ inStore \subseteq Objects
        /\ listing = "list" <=> call # "ListContainerStats"
        /\ listing = "metrics" <=> call = "ListContainerStats" /\ filter = NoFilter
    BY DEF ListInit
  <2>2. Moment(inStore, statuses).stored = inStore /\ Moment(inStore, statuses).status = statuses
    BY Zenon DEF Moment
  <2>3. statuses \in [Objects -> States]
    BY Zenon DEF ListInit, States
  <2>4. ListTypeOK
    BY <2>1, <2>3, Zenon DEF ListInit, ListTypeOK
  <2>5. MomentsKept
    BY <2>1, <2>2, Zenon DEF MomentsKept
  <2>6. ListedThen /\ LookedUp /\ MetricsAsked
    BY <2>1, Zenon DEF ListedThen, LookedUp, MetricsAsked
  <2>7. ListsRight
    BY <2>1, <2>4, Zenon DEF ListsRight
  <2> QED BY <2>4, <2>5, <2>6, <2>7 DEF ListInv
<1>2. ListInv /\ [ListNext]_(listVars) => ListInv'
  <2> SUFFICES ASSUME ListInv, [ListNext]_(listVars) PROVE ListInv'
    BY Zenon
  <2>1. CASE UNCHANGED listVars
    <3>1. UNCHANGED <<inStore, statuses, call, filter, listing, unread, listed, byId, bySandbox, moments>>
      BY <2>1, Zenon DEF listVars
    <3>2. ListTypeOK'
      BY <3>1, Zenon DEF ListInv, ListTypeOK, Of, NoFilter, NotSet
    <3>3. MomentsKept' /\ LookedUp'
      <4>1. MomentsKept'
        BY <3>1, Zenon DEF ListInv, MomentsKept, Moment
      <4>2. Of(call)' = Of(call) /\ NoFilter' = NoFilter
        BY <3>1, Zenon DEF Of, NoFilter
      <4> QED BY <3>1, <4>1, <4>2, Zenon DEF ListInv, LookedUp
    <3>4. ListedThen'
      BY <3>1, Zenon DEF ListInv, ListedThen, Of, Shown, toCRISandbox
    <3>5. MetricsAsked'
      BY <3>1, ZenonT(60) DEF ListInv, MetricsAsked, Asked, Steady, Of, Shown, toCRISandbox, Denotes, Wanted,
                         NoFilter, NotSet
    <3>6. ListsRight'
      BY <3>1, <3>2 DEF ListInv, ListsRight, Of, Shown, toCRISandbox, Denotes, Wanted, NoFilter
    <3> QED BY <3>2, <3>3, <3>4, <3>5, <3>6 DEF ListInv
  <2>2. CASE ListNext
    BY <2>2, StoreSteps, ReadSteps, AnswerSteps, Zenon DEF ListNext
  <2> QED BY <2>1, <2>2, Zenon
<1>3. ListInv => ListsRight
  BY Zenon DEF ListInv
<1> QED BY <1>1, <1>2, <1>3, PTL DEF ListSpec

-----------------------------------------------------------------------------

(* The execution of a command *)

\* The streams a client may ask for.
StreamsKnown == \A r \in Sessions : r.streams \subseteq {"stdin", "stdout", "stderr"}

Early == {"waiting", "timedout", "lookup", "created"}
Ending == {"delete", "status", "closed"}

\* All that was written to an output is copied, and nothing more can be written to it.
Drained(o) == ~outOpen[o] /\ copied[o] = produced[o]

\* The command is executed only once the reply of every stream was sent.
RepliesSent ==
    /\ request \in Sessions /\ DOMAIN connecting = v4Types
    /\ request.kind = "spdy" /\ session \notin {"waiting", "timedout"}
       => \A t \in ExpectedStreams : connecting[t] = "counted"

\* A copier ends only when its output is drained, the client is gone or the pipe was closed.
CopiersRight ==
    /\ copied \in [Outputs -> Nat] /\ produced \in [Outputs -> Nat]
    /\ DOMAIN copier = Outputs /\ DOMAIN outOpen = Outputs
    /\ session \in Early => \A o \in Outputs : copier[o] = "none"
    /\ \A o \in Outputs :
          /\ copier[o] \in {"none", "copying", "done"}
          /\ copier[o] = "none" => Drained(o)
          /\ copier[o] = "done" => Drained(o) \/ gone \/ pipeClosed

\* A code is returned after the exit, when the copiers have ended, and told unchanged.
OutcomeRight ==
    /\ process = "exited" => exitCode \in Codes
    /\ session = "drain" => process = "exited"
    /\ session \in Ending => outcome # "none"
    /\ outcome \in Codes =>
          /\ session \in Ending /\ outcome = exitCode /\ process \notin {"created", "running"}
          /\ \A o \in Outputs : copier[o] # "copying"
    /\ told # "none" => session = "closed"
    /\ told \in Codes => told = outcome
    /\ session = "closed" /\ request.version = 4 /\ request.kind # "ExecSync" => told # "none" \/ gone

ExecInv == RepliesSent /\ CopiersRight /\ OutcomeRight

\* The steps that connect the streams leave the command alone.
LEMMA ConnectStep ==
    ASSUME ExecInv, ConnStep, (gone => gone'),
           session' = session \/ (session = "waiting" /\ session' \in {"timedout", "lookup"})
    PROVE  CopiersRight' /\ OutcomeRight'
<1>1. UNCHANGED <<request, outcome, told, process, exitCode, outOpen, produced, copier, copied, pipeClosed>>
  BY Zenon DEF ConnStep, proc, execIO
<1>2. CopiersRight'
  BY <1>1, Zenon DEF ExecInv, CopiersRight, Drained, Early
<1>3. OutcomeRight'
  BY <1>1, Zenon DEF ExecInv, OutcomeRight, Ending
<1> QED BY <1>2, <1>3, Zenon

\* Once the command may run, no stream goes back to a state before its reply.
LEMMA StreamStep ==
    ASSUME StreamsKnown, ExecInv, ConnStep, NEW t \in v4Types, NEW step,
           connecting[t] # "counted" \/ session = "waiting",
           connecting' = [connecting EXCEPT ![t] = step],
           \/ session' = session
           \/ session' = "lookup" /\ \A u \in ExpectedStreams : connecting'[u] = "counted"
    PROVE  RepliesSent'
<1>1. request' = request /\ ExpectedStreams' = ExpectedStreams
  BY Zenon DEF ConnStep, ExpectedStreams, supportsTerminalResizing
<1>2. ExpectedStreams \subseteq v4Types
  BY Zenon DEF StreamsKnown, ExecInv, RepliesSent, ExpectedStreams, v4Types
<1>3. CASE session' = session
  BY <1>1, <1>2, <1>3, Zenon DEF ExecInv, RepliesSent
<1>4. CASE session' = "lookup" /\ \A u \in ExpectedStreams : connecting'[u] = "counted"
  BY <1>1, <1>4, Zenon DEF ExecInv, RepliesSent
<1> QED BY <1>3, <1>4, Zenon

\* The streams of a session are opened, replied to and counted, or time out.
LEMMA Connects ==
    ASSUME StreamsKnown, ExecInv,
           \/ SessionExpired \/ ClientGone
           \/ \E t \in v4Types :
                 \/ ClientOpens(t) \/ ReplySent(t) \/ waitStreamReply(t)
                 \/ v4waitForStreams(t) \/ v3waitForStreams(t)
                 \/ v2waitForStreams(t) \/ v1waitForStreams(t)
    PROVE  ExecInv'
<1>1. CASE SessionExpired \/ ClientGone
  <2>1. /\ ConnStep /\ connecting' = connecting /\ (gone => gone')
        /\ session' = session \/ (session = "waiting" /\ session' = "timedout")
    BY <1>1 DEF SessionExpired, ClientGone
  <2>2. RepliesSent'
    BY <2>1, Zenon DEF ExecInv, RepliesSent, ConnStep, ExpectedStreams, supportsTerminalResizing
  <2> QED BY <2>1, <2>2, ConnectStep, Zenon DEF ExecInv
<1>2. ASSUME NEW t \in v4Types, ClientOpens(t) \/ ReplySent(t)
      PROVE  ExecInv'
  BY <1>2, ConnectStep, StreamStep DEF ClientOpens, ReplySent, ExecInv
<1>3. ASSUME NEW t \in v4Types, NEW known, waitForStreams(t, known)
      PROVE  ExecInv'
  BY <1>3, ConnectStep, StreamStep, Zenon DEF waitForStreams, ExecInv
<1>4. ASSUME NEW t \in v4Types, waitStreamReply(t)
      PROVE  ExecInv'
  BY <1>4, ConnectStep, StreamStep, Zenon DEF waitStreamReply, ExecInv
<1> QED BY <1>1, <1>2, <1>3, <1>4, Zenon
    DEF v4waitForStreams, v3waitForStreams, v2waitForStreams, v1waitForStreams

\* The other steps leave the streams of the connection alone, and do not go back to them.
LEMMA RepliesKept ==
    ASSUME ExecInv, UNCHANGED <<request, connecting>>,
           session' = session \/ session \notin {"waiting", "timedout"}
    PROVE  RepliesSent'
BY Zenon DEF ExecInv, RepliesSent, ExpectedStreams, supportsTerminalResizing

\* execInContainer and the steps of execInternal.
LEMMA Executes ==
    ASSUME ExecInv,
           \/ execInContainer \/ StartAndAttach \/ SelectExit \/ SelectTimeout
           \/ Drain \/ DeleteKills \/ Delete
    PROVE  ExecInv'
<1>1. /\ UNCHANGED <<request, connecting, told, gone, produced, copied, pipeClosed>>
      /\ session \in {"lookup", "created", "select", "drain", "killing", "delete"}
  BY Zenon DEF execInContainer, StartAndAttach, SelectExit, SelectTimeout, Drain, DeleteKills,
      Delete, ExecStep, conn, proc, execIO
<1>2. RepliesSent'
  BY <1>1, RepliesKept, Zenon
<1>3. ASSUME UNCHANGED <<copier, outOpen>>, session' \notin Early \/ session \in Early
      PROVE  CopiersRight'
  BY <1>1, <1>3, Zenon DEF ExecInv, CopiersRight, Drained
<1>4. CASE execInContainer
  <2>1. UNCHANGED <<exitCode, copier, outOpen>> /\ session = "lookup"
    BY <1>4, Zenon DEF execInContainer, execIO
  <2>2. OutcomeRight'
    BY <1>1, <1>4, <2>1, Zenon DEF execInContainer, ExecInv, OutcomeRight, Ending, Codes
  <2> QED BY <1>2, <1>3, <2>1, <2>2, Zenon DEF ExecInv, Early
<1>5. CASE StartAndAttach
  <2>1. exitCode' = exitCode /\ session = "created" /\ \A o \in Outputs : copier[o] = "none"
    BY <1>5, Zenon DEF StartAndAttach, ExecInv, CopiersRight, Early
  <2>2. CASE session' = "delete" /\ outcome' = "error" /\ UNCHANGED <<process, outOpen, copier>>
    <3>1. OutcomeRight'
      BY <1>1, <2>1, <2>2, Zenon DEF ExecInv, OutcomeRight, Ending, Codes
    <3> QED BY <1>2, <1>3, <2>1, <2>2, <3>1, Zenon DEF ExecInv, Early
  <2>3. CASE session' = "select" /\ process' = "running" /\ outcome' = outcome
    <3> DEFINE piped == IF request.tty THEN {"stdout"} ELSE Outputs
    <3>1. /\ outOpen' = [o \in Outputs |-> o \in piped]
          /\ copier' = [o \in Outputs |-> IF o \in piped THEN "copying" ELSE "none"]
      BY <1>5, <2>3, Zenon DEF StartAndAttach
    <3> HIDE DEF piped
    <3>2. \A o \in Outputs : /\ copier'[o] \in {"none", "copying"}
                             /\ copier'[o] = "none" => ~outOpen'[o] /\ copied[o] = produced[o]
      BY <2>1, <3>1, Zenon DEF ExecInv, CopiersRight, Drained
    <3>3. DOMAIN copier' = Outputs /\ DOMAIN outOpen' = Outputs
      BY <3>1, Zenon
    <3>4. CopiersRight'
      BY <1>1, <2>3, <3>2, <3>3, Zenon DEF ExecInv, CopiersRight, Drained, Early
    <3>5. OutcomeRight'
      BY <1>1, <2>1, <2>3, Zenon DEF ExecInv, OutcomeRight, Ending
    <3> QED BY <1>2, <3>4, <3>5, Zenon DEF ExecInv
  <2> QED BY <1>5, <2>2, <2>3, Zenon DEF StartAndAttach
<1>6. CASE SelectExit \/ SelectTimeout \/ DeleteKills \/ Delete
  <2>1. UNCHANGED <<copier, outOpen>> /\ session' \notin Early
    BY <1>6, Zenon DEF SelectExit, SelectTimeout, DeleteKills, Delete, proc, execIO, Early
  <2>2. OutcomeRight'
    <3> USE <1>1, <2>1 DEF ExecInv, OutcomeRight, Ending, Codes
    <3>1. CASE SelectExit
      BY <3>1, Zenon DEF SelectExit, proc
    <3>2. CASE SelectTimeout
      BY <3>2, Zenon DEF SelectTimeout
    <3>3. CASE DeleteKills
      BY <3>3, Zenon DEF DeleteKills
    <3>4. CASE Delete
      BY <3>4, Zenon DEF Delete
    <3> QED BY <1>6, <3>1, <3>2, <3>3, <3>4, Zenon
  <2> QED BY <1>2, <1>3, <2>1, <2>2, Zenon DEF ExecInv
<1>7. CASE Drain
  <2>1. /\ UNCHANGED <<copier, outOpen, process, exitCode>>
        /\ session \in {"drain", "killing"} /\ session' = "delete"
        /\ \A o \in Outputs : copier[o] # "copying"
        /\ outcome' = IF session = "drain" THEN exitCode ELSE "timeout"
    BY <1>7, Zenon DEF Drain, attachDone, proc, execIO
  <2>2. OutcomeRight'
    BY <1>1, <2>1, Zenon DEF ExecInv, OutcomeRight, Ending, Codes
  <2> QED BY <1>2, <1>3, <2>1, <2>2, Zenon DEF ExecInv, Early
<1> QED BY <1>4, <1>5, <1>6, <1>7, Zenon

\* writeStatus tells the outcome or an error, and version 4 tells one of them to whom is there.
LEMMA Closes ==
    ASSUME ExecInv, ServeExec \/ ExecSync
    PROVE  ExecInv'
<1>1. /\ UNCHANGED <<request, connecting, gone, outcome, process, exitCode, outOpen, produced,
                     copier, copied, pipeClosed>>
      /\ session = "status" /\ session' = "closed"
  BY Zenon DEF ServeExec, ExecSync, proc, execIO
<1>2. RepliesSent'
  BY <1>1, RepliesKept, Zenon
<1>3. CopiersRight'
  BY <1>1, Zenon DEF ExecInv, CopiersRight, Drained, Early
<1>4. told' \in Codes => told' = outcome
  BY Zenon DEF ServeExec, ExecSync, writeStatus, ExecInv, OutcomeRight, Codes
<1>5. request.version = 4 /\ request.kind # "ExecSync" => told' # "none" \/ gone
  BY <1>1, Zenon DEF ServeExec, ExecSync, writeStatus, ExecInv, OutcomeRight, Ending
<1>6. OutcomeRight'
  BY <1>1, <1>4, <1>5, Zenon DEF ExecInv, OutcomeRight, Ending
<1> QED BY <1>2, <1>3, <1>6, Zenon DEF ExecInv

\* The process, its descendants and the goroutines of ExecIO.Attach.
LEMMA Copying ==
    ASSUME ExecInv,
           \/ \E o \in Outputs :
                 Writes(o) \/ OutputEnds(o) \/ Copies(o) \/ attachOutput(o)
           \/ \E c \in Codes : Exits(c)
           \/ StdinEnds
    PROVE  ExecInv'
<1>1. UNCHANGED <<request, session, outcome, connecting, told, gone>>
  BY Zenon DEF Writes, OutputEnds, Copies, attachOutput, Exits, StdinEnds, ProcStep,
      CopyStep, conn
<1>2. RepliesSent'
  BY <1>1, RepliesKept, Zenon
<1>3. ASSUME UNCHANGED <<process, exitCode>>,
             \A o \in Outputs : copier'[o] = "copying" => copier[o] = "copying"
      PROVE  OutcomeRight'
  BY <1>1, <1>3, Zenon DEF ExecInv, OutcomeRight
<1>4. ASSUME NEW c \in Codes, Exits(c)
      PROVE  ExecInv'
  <2>1. UNCHANGED <<outOpen, produced, copier, copied, pipeClosed>>
    BY <1>4, Zenon DEF Exits, ProcStep, execIO
  <2>2. process = "running" /\ process' = "exited" /\ exitCode' = c
    BY <1>4, Zenon DEF Exits
  <2>3. CopiersRight'
    BY <1>1, <2>1, Zenon DEF ExecInv, CopiersRight, Drained
  <2>4. OutcomeRight'
    BY <1>1, <2>1, <2>2, Zenon DEF ExecInv, OutcomeRight
  <2> QED BY <1>2, <2>3, <2>4, Zenon DEF ExecInv
<1>5. CASE StdinEnds
  <2>1. UNCHANGED <<outOpen, produced, copier, copied, process, exitCode>> /\ (pipeClosed => pipeClosed')
    BY <1>5, Zenon DEF StdinEnds, CopyStep, proc
  <2>2. CopiersRight'
    BY <1>1, <2>1, Zenon DEF ExecInv, CopiersRight, Drained
  <2> QED BY <1>2, <1>3, <2>1, <2>2, Zenon DEF ExecInv
<1>6. ASSUME NEW o \in Outputs, Writes(o) \/ OutputEnds(o)
      PROVE  ExecInv'
  <2>1. /\ UNCHANGED <<copier, copied, pipeClosed, process, exitCode>> /\ outOpen[o]
        /\ \/ produced' = [produced EXCEPT ![o] = 1] /\ outOpen' = outOpen
           \/ outOpen' = [outOpen EXCEPT ![o] = FALSE] /\ produced' = produced
    BY <1>6, Zenon DEF Writes, OutputEnds, ProcStep, execIO
  <2>2. CopiersRight'
    BY <1>1, <2>1 DEF ExecInv, CopiersRight, Drained
  <2> QED BY <1>2, <1>3, <2>1, <2>2, Zenon DEF ExecInv
<1>7. ASSUME NEW o \in Outputs, Copies(o) \/ attachOutput(o)
      PROVE  ExecInv'
  <2>1. /\ UNCHANGED <<outOpen, produced, pipeClosed, process, exitCode>> /\ copier[o] = "copying"
        /\ \/ copied' \in [Outputs -> Nat] /\ copier' = copier
              /\ \A p \in Outputs : p # o => copied'[p] = copied[p]
           \/ /\ copied' = copied /\ copier' = [copier EXCEPT ![o] = "done"]
              /\ Drained(o) \/ pipeClosed \/ gone
    <3>1. CASE Copies(o)
      BY <3>1 DEF Copies, CopyStep, proc, ExecInv, CopiersRight
    <3>2. CASE attachOutput(o)
      BY <3>2, Zenon DEF attachOutput, CopyStep, proc, Drained
    <3> QED BY <1>7, <3>1, <3>2, Zenon
  <2>2. CopiersRight'
    BY <1>1, <2>1, Zenon DEF ExecInv, CopiersRight, Drained
  <2>3. \A p \in Outputs : copier'[p] = "copying" => copier[p] = "copying"
    BY <2>1, Zenon DEF ExecInv, CopiersRight
  <2> QED BY <1>2, <1>3, <2>1, <2>2, <2>3, Zenon DEF ExecInv
<1> QED BY <1>4, <1>5, <1>6, <1>7, Zenon

\* The types need the bound on faults, and that a request has a terminal or not.
SessionConstants == MaxSessionFaults \in Nat /\ \A r \in Sessions : r.tty \in BOOLEAN

SessionNumbers ==
    /\ produced \in [Outputs -> 0 .. 1] /\ copied \in [Outputs -> 0 .. 1]
    /\ \A o \in Outputs : copied[o] <= produced[o]
    /\ sessionFaults \in 0 .. MaxSessionFaults
SessionWords ==
    /\ request \in Sessions
    /\ connecting \in [v4Types -> {"none", "offered", "accepted", "replied", "counted"}]
    /\ session \in {"waiting", "timedout", "lookup", "created", "select", "drain", "killing",
                    "delete", "status", "closed"}
    /\ outcome \in Codes \cup {"error", "timeout", "none"}
    /\ told \in Codes \cup {"error", "none"}
    /\ process \in {"none", "created", "running", "exited", "deleted"}
    /\ exitCode \in Codes \cup {"none"}
    /\ copier \in [Outputs -> {"none", "copying", "done"}]
    /\ stdin \in {"none", "copying", "done"}
SessionFlags ==
    /\ outOpen \in [Outputs -> BOOLEAN]
    /\ pipeClosed \in BOOLEAN /\ stdinClosed \in BOOLEAN /\ gone \in BOOLEAN

\* Every step keeps the types of the counters.
LEMMA SessionNumbersKept ==
    ASSUME SessionConstants, SessionNumbers, [SessionNext]_sessionVars
    PROVE  SessionNumbers'
<1>1. sessionFaults' = sessionFaults \/ SessionFault
  BY Zenon DEF sessionVars, SessionNext, Server, SessionEnded, v4waitForStreams, v3waitForStreams, v2waitForStreams,
     v1waitForStreams, ClientOpens, ReplySent, waitStreamReply, waitForStreams, SessionExpired,
     ClientGone, execInContainer, StartAndAttach, SelectExit, SelectTimeout, Drain, DeleteKills, Delete,
     ServeExec, ExecSync, Writes, OutputEnds, Exits, Copies, attachOutput, StdinEnds, ConnStep,
     ProcStep, CopyStep, NoSessionFault
<1>2. \/ UNCHANGED <<produced, copied>>
      \/ \E o \in Outputs : produced' = [produced EXCEPT ![o] = 1] /\ copied' = copied
      \/ \E o \in Outputs : /\ copied[o] < produced[o] /\ copied' = [copied EXCEPT ![o] = @ + 1]
                             /\ produced' = produced
  BY ZenonT(60) DEF sessionVars, SessionNext, Server, SessionEnded, v4waitForStreams, v3waitForStreams, v2waitForStreams,
     v1waitForStreams, ClientOpens, ReplySent, waitStreamReply, waitForStreams, SessionExpired,
     ClientGone, execInContainer, StartAndAttach, SelectExit, SelectTimeout, Drain, DeleteKills, Delete,
     ServeExec, ExecSync, Writes, OutputEnds, Exits, Copies, attachOutput, StdinEnds, ConnStep,
     ProcStep, CopyStep, ExecStep, proc, execIO
<1>3. sessionFaults' \in 0 .. MaxSessionFaults
  BY <1>1 DEF SessionNumbers, SessionConstants, SessionFault
<1> QED BY <1>2, <1>3 DEF SessionNumbers

\* Every step keeps the types of the control state.
LEMMA SessionWordsKept ==
    ASSUME SessionConstants, SessionWords, [SessionNext]_sessionVars
    PROVE  SessionWords'
<1> USE DEF SessionWords, Codes
<1>1. ASSUME NEW t \in v4Types, NEW known,
             ClientOpens(t) \/ ReplySent(t) \/ waitStreamReply(t) \/ waitForStreams(t, known)
      PROVE  SessionWords'
  BY <1>1 DEF ClientOpens, ReplySent, waitStreamReply, waitForStreams, ConnStep, proc, execIO
<1>2. CASE SessionExpired \/ ClientGone
  BY <1>2 DEF SessionExpired, ClientGone, ConnStep, proc, execIO
<1>3. CASE execInContainer
  BY <1>3 DEF execInContainer, ExecStep, conn, execIO
<1>4. CASE StartAndAttach
  BY <1>4 DEF StartAndAttach, ExecStep, conn
<1>5. CASE SelectExit \/ SelectTimeout
  BY <1>5 DEF SelectExit, SelectTimeout, ExecStep, conn, proc, execIO, Codes
<1>6. CASE Drain \/ DeleteKills \/ Delete
  BY <1>6 DEF Drain, DeleteKills, Delete, ExecStep, conn, proc, execIO, Codes
<1>7. CASE ServeExec \/ ExecSync
  BY <1>7 DEF ServeExec, ExecSync, writeStatus, proc, execIO
<1>8. ASSUME NEW o \in Outputs, Writes(o) \/ OutputEnds(o) PROVE SessionWords'
  BY <1>8 DEF Writes, OutputEnds, ProcStep, conn, execIO
<1>9. ASSUME NEW c \in Codes, Exits(c) PROVE SessionWords'
  BY <1>9, SMTT(60) DEF Exits, ProcStep, conn, execIO
<1>10. ASSUME NEW o \in Outputs, Copies(o) \/ attachOutput(o) PROVE SessionWords'
  BY <1>10 DEF Copies, attachOutput, CopyStep, conn, proc
<1>11. CASE StdinEnds
  BY <1>11 DEF StdinEnds, CopyStep, conn, proc, SessionConstants
<1>12. CASE UNCHANGED sessionVars
  BY <1>12 DEF sessionVars, conn, proc, execIO
<1> QED BY <1>1, <1>2, <1>3, <1>4, <1>5, <1>6, <1>7, <1>8, <1>9, <1>10, <1>11, <1>12, ZenonT(60)
    DEF SessionNext, Server, SessionEnded, v4waitForStreams, v3waitForStreams, v2waitForStreams,
        v1waitForStreams

\* Every step keeps the types of the flags.
LEMMA SessionFlagsKept ==
    ASSUME SessionConstants, request \in Sessions, SessionFlags, [SessionNext]_sessionVars
    PROVE  SessionFlags'
<1> USE DEF SessionFlags
<1>1. ASSUME NEW t \in v4Types, NEW known,
             ClientOpens(t) \/ ReplySent(t) \/ waitStreamReply(t) \/ waitForStreams(t, known)
      PROVE  SessionFlags'
  BY <1>1, Zenon DEF ClientOpens, ReplySent, waitStreamReply, waitForStreams, ConnStep, proc, execIO
<1>2. CASE SessionExpired \/ ClientGone
  BY <1>2, Zenon DEF SessionExpired, ClientGone, ConnStep, proc, execIO
<1>3. CASE execInContainer
  BY <1>3, Zenon DEF execInContainer, ExecStep, conn, execIO
<1>4. CASE StartAndAttach
  <2> DEFINE piped == IF request.tty THEN {"stdout"} ELSE Outputs
  <2>1. outOpen' = outOpen \/ outOpen' = [o \in Outputs |-> o \in piped]
    BY <1>4, Zenon DEF StartAndAttach
  <2>2. UNCHANGED <<pipeClosed, stdinClosed, gone>>
    BY <1>4, Zenon DEF StartAndAttach, ExecStep
  <2> HIDE DEF piped
  <2>3. [o \in Outputs |-> o \in piped] \in [Outputs -> BOOLEAN]
    OBVIOUS
  <2> QED BY <2>1, <2>2, <2>3, Zenon
<1>5. CASE SelectExit \/ SelectTimeout
  BY <1>5, Zenon DEF SelectExit, SelectTimeout, ExecStep, conn, proc, execIO, Codes
<1>6. CASE Drain \/ DeleteKills \/ Delete
  BY <1>6, Zenon DEF Drain, DeleteKills, Delete, ExecStep, conn, proc, execIO, Codes
<1>7. CASE ServeExec \/ ExecSync
  BY <1>7, Zenon DEF ServeExec, ExecSync, writeStatus, proc, execIO
<1>8. ASSUME NEW o \in Outputs, Writes(o) \/ OutputEnds(o) PROVE SessionFlags'
  BY <1>8, Zenon DEF Writes, OutputEnds, ProcStep, conn, execIO
<1>9. ASSUME NEW c \in Codes, Exits(c) PROVE SessionFlags'
  BY <1>9, Zenon DEF Exits, ProcStep, conn, execIO
<1>10. ASSUME NEW o \in Outputs, Copies(o) \/ attachOutput(o) PROVE SessionFlags'
  BY <1>10, Zenon DEF Copies, attachOutput, CopyStep, conn, proc
<1>11. CASE StdinEnds
  BY <1>11, Zenon DEF StdinEnds, CopyStep, conn, proc, SessionConstants
<1>12. CASE UNCHANGED sessionVars
  BY <1>12, Zenon DEF sessionVars, conn, proc, execIO
<1> QED BY <1>1, <1>2, <1>3, <1>4, <1>5, <1>6, <1>7, <1>8, <1>9, <1>10, <1>11, <1>12, Zenon
    DEF SessionNext, Server, SessionEnded, v4waitForStreams, v3waitForStreams, v2waitForStreams,
        v1waitForStreams

\* An exit code that execInContainer returns, or that ServeExec tells a client, is the code of the
\* process, after its output was copied and the streams were replied to, for any requests and
\* any number of failing steps.
THEOREM ExecIsRight ==
    ASSUME StreamsKnown, SessionConstants
    PROVE  SessionSpec => []ExecRight
<1>1. SessionInit => ExecInv
  <2> SUFFICES ASSUME SessionInit PROVE ExecInv
    BY Zenon
  <2>1. RepliesSent
    BY Zenon DEF SessionInit, RepliesSent
  <2>2. CopiersRight
    BY Zenon DEF SessionInit, CopiersRight, Drained
  <2>3. OutcomeRight
    BY Zenon DEF SessionInit, OutcomeRight, Ending, Codes
  <2> QED BY <2>1, <2>2, <2>3, Zenon DEF ExecInv
<1>2. ExecInv /\ [SessionNext]_(sessionVars) => ExecInv'
  <2> SUFFICES ASSUME ExecInv, [SessionNext]_(sessionVars) PROVE ExecInv'
    BY Zenon
  <2>1. CASE UNCHANGED sessionVars
    <3>1. UNCHANGED <<request, connecting, session, outcome, told, process, exitCode, outOpen,
                      produced, copier, copied, pipeClosed, gone>>
      BY <2>1, Zenon DEF sessionVars, conn, proc, execIO
    <3> QED BY <3>1 DEF ExecInv, RepliesSent, ExpectedStreams, supportsTerminalResizing, CopiersRight,
            Drained, OutcomeRight
  <2> QED BY <2>1, Connects, Executes, Closes, Copying, Zenon DEF SessionNext, Server, SessionEnded
<1>3. SessionInit => SessionNumbers /\ SessionWords /\ SessionFlags
  <2>1. SessionInit => SessionNumbers
    BY DEF SessionInit, SessionNumbers, SessionConstants
  <2>2. SessionInit => SessionWords
    BY DEF SessionInit, SessionWords
  <2> QED BY <2>1, <2>2, Zenon DEF SessionInit, SessionFlags
<1>4. SessionNumbers /\ SessionWords /\ SessionFlags /\ [SessionNext]_sessionVars
      => SessionNumbers' /\ SessionWords' /\ SessionFlags'
  <2>1. SessionWords => request \in Sessions
    BY Zenon DEF SessionWords
  <2> QED BY <2>1, SessionNumbersKept, SessionWordsKept, SessionFlagsKept, Zenon
<1>5. ExecInv /\ SessionNumbers /\ SessionWords /\ SessionFlags => ExecRight
  <2> SUFFICES ASSUME ExecInv, SessionNumbers, SessionWords, SessionFlags PROVE ExecRight
    BY Zenon
  <2>0. SessionTypeOK
    BY Zenon DEF SessionNumbers, SessionWords, SessionFlags, SessionTypeOK
  <2> SUFFICES ASSUME session = "closed" PROVE ExecRight
    BY <2>0, Zenon DEF ExecRight
  <2>1. outcome \in Codes => outcome = exitCode /\ (gone \/ pipeClosed \/ copied = produced)
    <3>1. outcome \in Codes /\ ~gone /\ ~pipeClosed => \A o \in Outputs : copied[o] = produced[o]
      BY Zenon DEF ExecInv, OutcomeRight, CopiersRight, Drained
    <3>2. (\A o \in Outputs : copied[o] = produced[o]) => copied = produced
      BY DEF ExecInv, CopiersRight
    <3> QED BY <3>1, <3>2, Zenon DEF ExecInv, OutcomeRight
  <2> QED BY <2>0, <2>1, Zenon DEF ExecInv, RepliesSent, OutcomeRight, ExecRight
<1> QED BY <1>1, <1>2, <1>3, <1>4, <1>5, PTL DEF SessionSpec


=============================================================================
