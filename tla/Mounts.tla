------------------------------- MODULE Mounts -------------------------------
(***************************************************************************)
(* The mounts of a new container: those CRI asks for, the volumes of the   *)
(* image and the system files are merged and sorted, put after the default *)
(* ones of the spec, and added one by one (containerd/opts/spec_unix.go,   *)
(* spec.go, server/container_create.go and container_create_unix.go).      *)
(* They are mounted in the order of the spec, so a later one hides what is *)
(* mounted below its destination.  A destination is a cleaned path, as the *)
(* sequence of its elements.                                               *)
(***************************************************************************)
EXTENDS Naturals, Sequences, FiniteSets, Joining

CONSTANTS
    CRIPaths, VolumePaths,   \* destinations of CRI mounts, and of volumes of the image
    SystemFiles,             \* destinations of the system files, a sequence
    DefaultMounts,           \* destinations of the default spec, a sequence
    MaxCRIMounts             \* bound on the mounts CRI asks for

VARIABLES
    criMounts, volumes,      \* the request and the image, fixed at the start
    host,                    \* "shared", "master" or "private": the mounts of the host
    mounts,                  \* supplied mounts that are still to be added
    specMounts,              \* Mounts of the spec
    rootfs,                  \* RootfsPropagation of the spec: "", "rslave" or "rshared"
    making                   \* "new", "adding", "done" or "failed"

mountVars == <<criMounts, volumes, host, mounts, specMounts, rootfs, making>>

Propagations == {"private", "bidirectional", "host_to_container"}
Mount(from, dst, propagation) == [from |-> from, dst |-> dst, propagation |-> propagation]
Plain(from, paths) == [i \in DOMAIN paths |-> Mount(from, paths[i], "private")]
CRIMount == {Mount("cri", d, p) : d \in CRIPaths, p \in Propagations}
Paths(ms) == {ms[i].dst : i \in DOMAIN ms}

etcHostname == <<"etc", "hostname">>
dev == <<"dev">>
run == <<"run">>
cgroup == <<"sys", "fs", "cgroup">>

MountTypeOK ==
    /\ host \in {"shared", "master", "private"} /\ rootfs \in {"", "rslave", "rshared"}
    /\ making \in {"new", "adding", "done", "failed"}
    /\ \A i \in DOMAIN mounts : mounts[i].from \in {"cri", "system", "volume"}

MountInit ==
    /\ \E n \in 0..MaxCRIMounts : criMounts \in [1..n -> CRIMount]
    /\ \E n \in 0..Cardinality(VolumePaths) :
          volumes \in {vs \in [1..n -> VolumePaths] : \A i, j \in 1..n : vs[i] = vs[j] => i = j}
    /\ host \in {"shared", "master", "private"}
    /\ mounts = <<>> /\ specMounts = Plain("default", DefaultMounts) /\ rootfs = ""
    /\ making = "new"

----------------------------------------------------------------------------

isInCRIMounts(dst) == dst \in Paths(criMounts)

(* The volumes of the image, except those CRI mounts something at. *)
volumeMounts ==
    Plain("volume", Select(volumes, {i \in DOMAIN volumes : ~isInCRIMounts(volumes[i])}))

(* The files of the sandbox, likewise; a sandbox of an old version has no hostname file. *)
containerMounts(hasHostname) ==
    Plain("system", Select(SystemFiles, {i \in DOMAIN SystemFiles :
        ~isInCRIMounts(SystemFiles[i]) /\ (SystemFiles[i] = etcHostname => hasHostname)}))

WithoutRunMount(ms) == Select(ms, {i \in DOMAIN ms : ms[i].dst # run})

(* CRI mounts, then those of the extra mounts that have another destination. *)
mergeMounts(extra) ==
    criMounts \o Select(extra, {i \in DOMAIN extra : ~isInCRIMounts(extra[i].dst)})

(* The separators in a cleaned path; the root has one as well. *)
parts(dst) == IF dst = <<>> THEN 1 ELSE Len(dst)

(* What sort.Sort leaves: the order of mounts with as many parts is not fixed. *)
orderedMounts(ms) ==
    LET D == DOMAIN ms
        orders == {p \in [D -> D] : \A i \in D : \E j \in D : p[j] = i}
    IN  {s \in {[i \in D |-> ms[p[i]]] : p \in orders} :
            \A i, j \in D : i < j => parts(s[i].dst) <= parts(s[j].dst)}

(* The path p is d or above it. *)
AtOrAbove(p, d) == Len(p) <= Len(d) /\ \A i \in 1..Len(p) : p[i] = d[i]

(* The default mounts that no supplied mount replaces. *)
keptDefaults(defaults, supplied) ==
    Select(defaults, {i \in DOMAIN defaults :
        /\ defaults[i].dst \notin supplied
        /\ ~(dev \in supplied /\ AtOrAbove(dev, defaults[i].dst) /\ defaults[i].dst # dev)})

(* WithMounts up to its loop. *)
WithMounts ==
    /\ making = "new" /\ making' = "adding"
    /\ \E hasHostname \in BOOLEAN :
          LET merged == mergeMounts(containerMounts(hasHostname) \o volumeMounts)
              defaults == Append(WithoutRunMount(specMounts), Mount("default", cgroup, "private"))
          IN  /\ mounts' \in orderedMounts(merged)
              /\ specMounts' = keptDefaults(defaults, Paths(merged))
    /\ UNCHANGED <<criMounts, volumes, host, rootfs>>

ensureShared == host = "shared"
ensureSharedOrSlave == host \in {"shared", "master"}

(* The propagation of the source, and the one of the root after adding a mount. *)
Propagates(m) ==
    /\ m.propagation = "bidirectional" => ensureShared
    /\ m.propagation = "host_to_container" => ensureSharedOrSlave

RootfsPropagation(m) ==
    IF m.propagation = "bidirectional" THEN "rshared"
    ELSE IF m.propagation = "host_to_container" /\ rootfs # "rshared" THEN "rslave"
    ELSE rootfs

(* One turn of the loop. *)
AddMount ==
    /\ making = "adding" /\ mounts # <<>>
    /\ LET m == Head(mounts)
       IN  /\ Propagates(m)
           /\ specMounts' = Append(specMounts, m) /\ rootfs' = RootfsPropagation(m)
           /\ mounts' = Tail(mounts)
    /\ UNCHANGED <<criMounts, volumes, host, making>>

(* The source cannot be made or resolved, is not shared, or cannot be relabelled. *)
AddMountFails ==
    /\ making = "adding" /\ mounts # <<>>
    /\ making' = "failed"
    /\ UNCHANGED <<criMounts, volumes, host, mounts, specMounts, rootfs>>

MountsAdded ==
    /\ making = "adding" /\ mounts = <<>> /\ making' = "done"
    /\ UNCHANGED <<criMounts, volumes, host, mounts, specMounts, rootfs>>

MountNext == WithMounts \/ AddMount \/ AddMountFails \/ MountsAdded

MountSpec == MountInit /\ [][MountNext]_mountVars

----------------------------------------------------------------------------

(* The i-th mount is what a container sees at a destination: the last one at or above it. *)
SeenAt(i, dst) ==
    /\ AtOrAbove(specMounts[i].dst, dst)
    /\ \A j \in DOMAIN specMounts : AtOrAbove(specMounts[j].dst, dst) => j <= i

Asks(propagation) == \E i \in DOMAIN criMounts : criMounts[i].propagation = propagation

(* In the spec WithMounts makes there is a mount at every destination that CRI
   asks for, the image declares or a system file has.  None is hidden by one
   above it, but by one at the root, which has as many parts as those next to
   it; at a destination CRI asks for the container sees a CRI mount, and
   elsewhere the system files and volumes.  Under a /dev that is supplied there
   is no default mount, and a default mount is left out only for a supplied one
   at its destination or for /dev.  And, in whatever order the mounts come, the
   propagation of the root is the strongest one that is asked for, which the
   host's mounts allow. *)
MountsRight ==
    making = "done" =>
        LET asked == Paths(criMounts)
            supplied == {specMounts[i].dst : i \in {j \in DOMAIN specMounts :
                                                      specMounts[j].from # "default"}}
        IN  /\ asked \subseteq supplied
            /\ \A i \in DOMAIN volumes : volumes[i] \in supplied
            /\ \A i \in DOMAIN SystemFiles :
                  SystemFiles[i] # etcHostname => SystemFiles[i] \in supplied
            /\ \A d \in supplied : (<<>> \in supplied => Len(d) # 1) =>
                  \E i \in DOMAIN specMounts :
                     /\ SeenAt(i, d) /\ specMounts[i].dst = d
                     /\ specMounts[i].from \in IF d \in asked THEN {"cri"} ELSE {"system", "volume"}
            /\ \A d \in ({DefaultMounts[i] : i \in DOMAIN DefaultMounts} \ {run}) \cup {cgroup} :
                  (\E i \in DOMAIN specMounts : specMounts[i] = Mount("default", d, "private"))
                    <=> ~(d \in supplied \/ (dev \in supplied /\ AtOrAbove(dev, d)))
            /\ rootfs = IF Asks("bidirectional") THEN "rshared"
                        ELSE IF Asks("host_to_container") THEN "rslave" ELSE ""
            /\ Asks("bidirectional") => host = "shared"
            /\ Asks("host_to_container") => host # "private"
=============================================================================
