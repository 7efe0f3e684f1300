------------------------------ MODULE MCStores ------------------------------
(***************************************************************************)
(* Small instances of the stores, checked side by side: the name index,    *)
(* the image store, the snapshot store, the label store, the resources of  *)
(* a container, the requests of the streaming server, the logger, the      *)
(* mounts and the runtime of a container, and the calls that list.  They   *)
(* share no state; a behaviour is one of one component, fixed at the start *)
(* by the variable component.                                              *)
(***************************************************************************)
EXTENDS NameIndex, Images, Snapshots, StreamServer, LogLines, AsAsked, Creation, Lists, TLC

CONSTANTS w1, w2, x1, x2, i1, i2, i3    \* model values

VARIABLES component, levels, mcsList, creation, level, labelRestarts

\* Values that are interchangeable in every component (goroutines that serve calls, containers,
\* snapshots, tokens), names and contents, and ids and levels.
Workers == {w1, w2}
Pair == {x1, x2}
Triple == {i1, i2, i3}

\* The manifest of one image has a digest, that of the other is of schema 1.
MCRepoDigest == x1 :> "digest" @@ x2 :> ""

INSTANCE Labels WITH
        Sandboxes <- Pair, Containers <- Workers, Levels <- Triple, MaxLabelRestarts <- 1

\* What a container writes, and the tokens of requests.
MCBytes == {"x", "\r", "\n"}
MCTokens == {w1, w2, i1}

\* Destinations: the root, /dev and /etc lie above files the system mounts, one of which is also
\* asked for by CRI and declared as a volume by the image.
hostname == <<"etc", "hostname">>
devShm == <<"dev", "shm">>
MCCRIPaths == {<<>>, <<"dev">>, <<"etc">>, hostname}
MCVolumePaths == {hostname}
MCSystemFiles == <<hostname, devShm>>
MCDefaultMounts == <<<<"dev">>, devShm, <<"sys">>, <<"run">>>>

\* Configurations with and without the deprecated runtimes and options.
MCConfigs ==
    {c \in [runtimes : {"runc" :> r @@ "untrusted" :> u @@ "default" :> "absent" :
                          r \in {"v1", "v2"}, u \in {"v2", "absent"}},
            untrustedRuntime : {"absent", "v1"}, defaultRuntime : {"absent", "v2"},
            defaultName : {"", "runc", "default"},
            noPivot : BOOLEAN, withEngine : {{}, {"runc"}}] : ~c.noPivot \/ c.withEngine = {}}

\* Two containers in two sandboxes; each kind has a short id that stands for both.
MCSandboxOf == "c1" :> "s1" @@ "c2" :> "s2"
MCLabelsOf == "c1" :> {"l"} @@ "s1" :> {"l"} @@ "c2" :> {} @@ "s2" :> {}
MCPrefixes == [o \in {"c1", "c2", "s1", "s2"} |-> {o}] @@ "c" :> {"c1", "c2"} @@ "s" :> {"s1", "s2"}
Filter(i, s, st, ls) == [id |-> i, sandbox |-> s, state |-> st, labels |-> ls]
MCFilters == {Filter("c", "", "", {}), Filter("s", "", "", {}), Filter("", "s", "RUNNING", {}),
              Filter("", "", "Ready", {"l"}), Filter("c1", "s1", "", {})}

Components == {"names", "images", "snapshots", "labels", "resources", "requests", "log",
               "mounts", "runtimes", "lists", "creation"}

\* The components that do not run are in one initial state.
MCInit ==
    /\ component \in Components
    /\ component # "names" => nameOf = [i \in Ids |-> x1] /\ id = [t \in Threads |-> i1]
    /\ component # "images" => ctrImages = [r \in Refs |-> NoImage]
    /\ component # "log" => maxLen = 0 /\ input = <<>>
    /\ component # "mounts" => criMounts = <<>> /\ volumes = <<>> /\ host = "shared"
    /\ component # "runtimes" => config = CHOOSE c \in MCConfigs : TRUE
    /\ component # "runtimes" => pod = CHOOSE p \in Pods : TRUE
    /\ component # "creation" => unpacked = TRUE /\ imageVolumes = {}
    /\ component # "lists" =>
          /\ call = "ListContainers" /\ filter = NoFilter /\ inStore = {}
          /\ statuses = [o \in Objects |-> IF o \in {"c1", "c2"} THEN "RUNNING" ELSE "Ready"]
    /\ Init /\ ImageInit /\ SnapshotInit /\ LabelInit /\ LimitInit /\ StreamInit /\ LogInit
    /\ MountInit /\ RuntimeInit /\ ListInit /\ CreateInit

labelState == <<levels, mcsList, creation, level, labelRestarts>>
allVars == <<component, vars, imageVars, snapVars, labelState, resVars, streamVars, logVars,
             mountVars, runtimeVars, listVars, createVars>>

Others(c) ==
    /\ component = c /\ UNCHANGED component
    /\ c # "names" => UNCHANGED vars
    /\ c # "images" => UNCHANGED imageVars
    /\ c # "snapshots" => UNCHANGED snapVars
    /\ c # "labels" => UNCHANGED labelState
    /\ c # "resources" => UNCHANGED resVars
    /\ c # "requests" => UNCHANGED streamVars
    /\ c # "log" => UNCHANGED logVars
    /\ c # "mounts" => UNCHANGED mountVars
    /\ c # "runtimes" => UNCHANGED runtimeVars
    /\ c # "lists" => UNCHANGED listVars
    /\ c # "creation" => UNCHANGED createVars

\* The image store and the sync of the snapshots meet one mishap each: a failing operation, a
\* restart or a step back of the clock.
MaxMishaps == 1

MCNext ==
    \/ Others("names") /\ Next
    \/ Others("images") /\ ImageNext /\ imageFaults' + imageRestarts' <= MaxMishaps
    \/ Others("snapshots") /\ SnapshotNext /\ snapshotFaults' + stepsBack' <= MaxMishaps
    \/ Others("labels") /\ LabelNext
    \/ Others("resources") /\ LimitNext
    \/ Others("requests") /\ StreamNext
    \/ Others("log") /\ LogNext
    \/ Others("mounts") /\ MountNext
    \/ Others("runtimes") /\ RuntimeNext
    \/ Others("lists") /\ ListNext
    \/ Others("creation") /\ CreateNext

MCSpec == MCInit /\ [][MCNext]_allVars

Symmetry == Permutations(Workers)
=============================================================================
