------------------------------- MODULE Labels -------------------------------
(***************************************************************************)
(* The counted SELinux levels: the label store (store/label/label.go),     *)
(* which the sandbox store and the container store share, the creations    *)
(* and removals that go through it, and recovery.  A label is reduced to   *)
(* its level.  The library's table of levels in use is external.           *)
(***************************************************************************)
EXTENDS Naturals, FiniteSets

CONSTANTS
    Sandboxes, Containers,    \* ids, each used once
    Levels,                   \* MCS levels
    MaxLabelRestarts          \* bound on restarts

VARIABLES
    levels,        \* Store.levels: how many stored objects use a level
    mcsList,       \* selinux: the levels in use (external)
    creation,      \* where the creation of each id is
    level,         \* ProcessLabel: the level of each id
    labelRestarts

labelVars == <<levels, mcsList, creation, level, labelRestarts>>

Labelled == Sandboxes \cup Containers
NoLevel == ""

LabelTypeOK ==
    /\ levels \in [Levels -> Nat] /\ mcsList \subseteq Levels
    /\ creation \in [Labelled -> {"new", "labelled", "stored", "gone"}]
    /\ level \in [Labelled -> Levels \cup {NoLevel}]
    /\ labelRestarts \in 0..MaxLabelRestarts

LabelInit ==
    /\ levels = [l \in Levels |-> 0] /\ mcsList = {}
    /\ creation = [o \in Labelled |-> "new"]
    /\ level = [o \in Labelled |-> NoLevel]
    /\ labelRestarts = 0

Stored == {o \in Labelled : creation[o] = "stored"}
Enter(o, stage) == creation' = [creation EXCEPT ![o] = stage]

----------------------------------------------------------------------------
(* Store.Reserve and Store.Release; the empty level is not counted. *)

ReserveLevel(l) ==
    IF l = NoLevel THEN UNCHANGED <<levels, mcsList>>
    ELSE /\ mcsList' = IF levels[l] = 0 THEN mcsList \cup {l} ELSE mcsList
         /\ levels' = [levels EXCEPT ![l] = @ + 1]

(* A bug: the first user to go takes the level with it. *)
ReleaseAll(l) ==
    IF l = NoLevel \/ levels[l] = 0 THEN UNCHANGED <<levels, mcsList>>
    ELSE /\ mcsList' = mcsList \ {l}
         /\ levels' = [levels EXCEPT ![l] = 0]

Release(l) ==
    IF l = NoLevel \/ levels[l] = 0 THEN UNCHANGED <<levels, mcsList>>
    ELSE /\ mcsList' = IF levels[l] = 1 THEN mcsList \ {l} ELSE mcsList
         /\ levels' = [levels EXCEPT ![l] = @ - 1]

(* label.InitLabels of the library: a level nobody uses is taken and, when the
   options name another one, given back for that one. *)
InitLabels(o, option) ==
    \E fresh \in Levels \ mcsList :
        LET l == IF option = NoLevel THEN fresh ELSE option
        IN  /\ mcsList' = mcsList \cup {l}
            /\ level' = [level EXCEPT ![o] = l]

----------------------------------------------------------------------------
(* RunPodSandbox and CreateContainer up to the spec.  A container without
   options of its own takes the level of its sandbox, if that is still stored. *)

RunInitLabels(s, option) ==
    /\ creation[s] = "new" /\ InitLabels(s, option) /\ Enter(s, "labelled")
    /\ UNCHANGED <<levels, labelRestarts>>

CreateInitLabels(c, s, option) ==
    /\ creation[c] = "new" /\ creation[s] \in {"stored", "gone"}
    /\ InitLabels(c, IF option = NoLevel /\ s \in Stored THEN level[s] ELSE option)
    /\ Enter(c, "labelled")
    /\ UNCHANGED <<levels, labelRestarts>>

(* The deferred release of a creation that fails later goes to the library, not
   through the store.  The label of a privileged container is blank by then. *)
CreationFails(o, privileged) ==
    /\ creation[o] = "labelled" /\ Enter(o, "gone")
    /\ privileged => o \in Containers
    /\ mcsList' = IF privileged THEN mcsList ELSE mcsList \ {level[o]}
    /\ UNCHANGED <<levels, level, labelRestarts>>

(* Add and Delete of the sandbox store and of the container store. *)
StoreAdd(o) ==
    /\ creation[o] = "labelled" /\ ReserveLevel(level[o]) /\ Enter(o, "stored")
    /\ UNCHANGED <<level, labelRestarts>>

StoreDelete(o) ==
    /\ o \in Stored /\ Release(level[o]) /\ Enter(o, "gone")
    /\ UNCHANGED <<level, labelRestarts>>

(* The process ends, and with it both tables and the creations under way; the
   next one adds every sandbox and container containerd has, among them those
   whose creation had just not come to StoreAdd (recover). *)
LabelRestart ==
    /\ labelRestarts < MaxLabelRestarts /\ labelRestarts' = labelRestarts + 1
    /\ \E found \in SUBSET {o \in Labelled : creation[o] = "labelled"} :
          LET added == Stored \cup found
          IN  /\ creation' = [o \in Labelled |-> IF o \in added THEN "stored"
                                               ELSE IF creation[o] = "new" THEN "new" ELSE "gone"]
              /\ levels' = [l \in Levels |-> Cardinality({o \in added : level[o] = l})]
              /\ mcsList' = {level[o] : o \in added} \ {NoLevel}
    /\ UNCHANGED level

LabelNext ==
    \/ LabelRestart
    \/ \E option \in Levels \cup {NoLevel} :
          \/ \E s \in Sandboxes : RunInitLabels(s, option)
          \/ \E c \in Containers, s \in Sandboxes : CreateInitLabels(c, s, option)
    \/ \E o \in Labelled :
          \/ StoreAdd(o) \/ StoreDelete(o)
          \/ \E privileged \in BOOLEAN : CreationFails(o, privileged)

LabelSpec == LabelInit /\ [][LabelNext]_labelVars

----------------------------------------------------------------------------

(* The count of a level is the number of stored sandboxes and containers that
   have it, through creations that fail, removals in any order and restarts:
   a level is given back with its last user, never before and never later. *)
LevelsCounted ==
    /\ LabelTypeOK
    /\ \A l \in Levels : levels[l] = Cardinality({o \in Stored : level[o] = l})
============================================================================
