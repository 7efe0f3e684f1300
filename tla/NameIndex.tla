----------------------------- MODULE NameIndex ------------------------------
(***************************************************************************)
(* The name index (pkg/registrar) with the calls that use it: the creation *)
(* and removal of several sandboxes or containers whose names may collide, *)
(* and recovery, which rebuilds the index from containerd (restart.go).    *)
(* Sandboxes and containers use one index each, in the same way.           *)
(***************************************************************************)
EXTENDS Naturals

CONSTANTS Threads,       \* goroutines that serve calls
          Ids,           \* ids, each generated at most once (util.GenerateID)
          Names,         \* makeSandboxName or makeContainerName of the metadata
          None,
          MaxFaults,     \* bound on failing operations
          MaxRestarts    \* bound on restarts

ASSUME NoneAssumption == None \notin Ids \cup Names

VARIABLES nameToKey, keyToName,   \* Registrar
          nameOf,                 \* the name in the metadata of an id
          used,                   \* ids generated
          ctrd,                   \* ids with a containerd container
          stored,                 \* ids in the sandbox or container store
          phase,                  \* "up", "loading" or "failed": the progress of Run
          toLoad,                 \* containers recover has still to load
          pc, id,                 \* progress and argument of each goroutine
          leftover,               \* history: ids whose container was left behind, see below
          nameFaults, nameRestarts

index == <<nameToKey, keyToName>>
threads == <<pc, id>>
bounds == <<nameFaults, nameRestarts>>
vars == <<index, nameOf, used, ctrd, stored, phase, toLoad, threads, leftover, bounds>>

Steps == {"idle", "newContainer", "storeAdd", "undoContainer", "undoName",
          "rmContainer", "rmStore", "rmName"}

Init ==
    /\ nameToKey = [n \in Names |-> None] /\ keyToName = [i \in Ids |-> None]
    /\ nameOf \in [Ids -> Names] /\ used = {} /\ ctrd = {} /\ stored = {}
    /\ phase = "up" /\ toLoad = {}
    /\ pc = [t \in Threads |-> "idle"] /\ id \in [Threads -> Ids]
    /\ leftover = {} /\ nameFaults = 0 /\ nameRestarts = 0

-----------------------------------------------------------------------------
(* Registrar *)

\* Whether Reserve returns without an error.
Reservable(n, k) ==
    IF nameToKey[n] # None THEN nameToKey[n] = k ELSE keyToName[k] \in {None, n}

Reserve(n, k) ==
    IF nameToKey[n] = None /\ keyToName[k] = None
      THEN /\ nameToKey' = [nameToKey EXCEPT ![n] = k]
           /\ keyToName' = [keyToName EXCEPT ![k] = n]
      ELSE UNCHANGED index

ReleaseByName(n) ==
    IF nameToKey[n] # None
      THEN /\ nameToKey' = [nameToKey EXCEPT ![n] = None]
           /\ keyToName' = [keyToName EXCEPT ![nameToKey[n]] = None]
      ELSE UNCHANGED index

ReleaseByKey(k) ==
    IF keyToName[k] # None
      THEN /\ nameToKey' = [nameToKey EXCEPT ![keyToName[k]] = None]
           /\ keyToName' = [keyToName EXCEPT ![k] = None]
      ELSE UNCHANGED index

-----------------------------------------------------------------------------
(* RunPodSandbox and CreateContainer, as far as names are concerned *)

At(t, step) == phase = "up" /\ pc[t] = step
Goto(t, step) == pc' = [pc EXCEPT ![t] = step]
Fault == nameFaults < MaxFaults /\ nameFaults' = nameFaults + 1 /\ UNCHANGED nameRestarts
Fine == UNCHANGED bounds

CreateReserve(t) ==
    /\ At(t, "idle")
    /\ \E i \in Ids \ used :
          /\ used' = used \cup {i} /\ id' = [id EXCEPT ![t] = i]
          /\ \/ Reservable(nameOf[i], i) /\ Reserve(nameOf[i], i) /\ Goto(t, "newContainer")
             \/ ~Reservable(nameOf[i], i) /\ UNCHANGED <<index, pc>>
    /\ Fine /\ UNCHANGED <<nameOf, ctrd, stored, phase, toLoad, leftover>>

CreateNewContainer(t) ==
    /\ At(t, "newContainer")
    /\ \/ Fine /\ ctrd' = ctrd \cup {id[t]} /\ Goto(t, "storeAdd")
       \/ Fault /\ UNCHANGED ctrd /\ Goto(t, "undoName")
    /\ UNCHANGED <<index, nameOf, used, stored, phase, toLoad, id, leftover>>

CreateStoreAdd(t) ==
    /\ At(t, "storeAdd")
    /\ \/ Fine /\ stored' = stored \cup {id[t]} /\ Goto(t, "idle")
       \/ Fault /\ UNCHANGED stored /\ Goto(t, "undoContainer")
    /\ UNCHANGED <<index, nameOf, used, ctrd, phase, toLoad, id, leftover>>

\* The deferred Delete of the container: its error is only logged.
CreateUndoContainer(t) ==
    /\ At(t, "undoContainer") /\ Goto(t, "undoName")
    /\ \/ Fine /\ ctrd' = ctrd \ {id[t]} /\ UNCHANGED leftover
       \/ Fault /\ UNCHANGED ctrd /\ leftover' = leftover \cup {id[t]}
    /\ UNCHANGED <<index, nameOf, used, stored, phase, toLoad, id>>

CreateUndoName(t) ==
    /\ At(t, "undoName") /\ Goto(t, "idle") /\ ReleaseByName(nameOf[id[t]])
    /\ Fine /\ UNCHANGED <<nameOf, used, ctrd, stored, phase, toLoad, id, leftover>>

-----------------------------------------------------------------------------
(* RemovePodSandbox and RemoveContainer; two removals of one id may overlap *)

RemoveGet(t) ==
    /\ At(t, "idle") /\ Goto(t, "rmContainer")
    /\ \E i \in stored : id' = [id EXCEPT ![t] = i]
    /\ Fine /\ UNCHANGED <<index, nameOf, used, ctrd, stored, phase, toLoad, leftover>>

\* Mutant: an error of Delete is logged and the removal goes on.
RemoveContainerLogs(t) ==
    /\ At(t, "rmContainer") /\ Goto(t, "rmStore")
    /\ (Fine /\ ctrd' = ctrd \ {id[t]}) \/ (Fault /\ UNCHANGED ctrd)
    /\ UNCHANGED <<index, nameOf, used, stored, phase, toLoad, id, leftover>>

\* A container that is not found counts as deleted.
RemoveContainer(t) ==
    /\ At(t, "rmContainer")
    /\ \/ Fine /\ ctrd' = ctrd \ {id[t]} /\ Goto(t, "rmStore")
       \/ Fault /\ UNCHANGED ctrd /\ Goto(t, "idle")
    /\ UNCHANGED <<index, nameOf, used, stored, phase, toLoad, id, leftover>>

RemoveStore(t) ==
    /\ At(t, "rmStore") /\ Goto(t, "rmName") /\ stored' = stored \ {id[t]}
    /\ Fine /\ UNCHANGED <<index, nameOf, used, ctrd, phase, toLoad, id, leftover>>

\* Mutant: the name is released whoever holds it.
RemoveNameByName(t) ==
    /\ At(t, "rmName") /\ Goto(t, "idle") /\ ReleaseByName(nameOf[id[t]])
    /\ Fine /\ UNCHANGED <<nameOf, used, ctrd, stored, phase, toLoad, id, leftover>>

RemoveName(t) ==
    /\ At(t, "rmName") /\ Goto(t, "idle") /\ ReleaseByKey(id[t])
    /\ Fine /\ UNCHANGED <<nameOf, used, ctrd, stored, phase, toLoad, id, leftover>>

-----------------------------------------------------------------------------
(* Restart and recover *)

\* The process ends at any point; a plugin whose recovery failed ends at once (cri.go).
Restart ==
    /\ nameRestarts < MaxRestarts /\ nameRestarts' = nameRestarts + 1
    /\ nameToKey' = [n \in Names |-> None] /\ keyToName' = [i \in Ids |-> None]
    /\ stored' = {} /\ pc' = [t \in Threads |-> "idle"]
    /\ phase' = "loading" /\ toLoad' = ctrd
    /\ UNCHANGED <<nameOf, used, ctrd, id, leftover, nameFaults>>

\* A container that cannot be loaded is skipped; a name that cannot be reserved is an error
\* that ends recovery.
recover ==
    /\ phase = "loading"
    /\ \E i \in toLoad :
          /\ toLoad' = toLoad \ {i}
          /\ \/ /\ Fine /\ stored' = stored \cup {i} /\ Reserve(nameOf[i], i)
                /\ phase' = IF Reservable(nameOf[i], i) THEN "loading" ELSE "failed"
                /\ UNCHANGED leftover
             \/ /\ Fault /\ leftover' = leftover \cup {i}
                /\ UNCHANGED <<index, stored, phase>>
    /\ UNCHANGED <<nameOf, used, ctrd, threads>>

Initialized ==
    /\ phase = "loading" /\ toLoad = {} /\ phase' = "up"
    /\ Fine /\ UNCHANGED <<index, nameOf, used, ctrd, stored, toLoad, threads, leftover>>

-----------------------------------------------------------------------------

Create(t) ==
    \/ CreateReserve(t) \/ CreateNewContainer(t) \/ CreateStoreAdd(t)
    \/ CreateUndoContainer(t) \/ CreateUndoName(t)
Remove(t) == RemoveGet(t) \/ RemoveContainer(t) \/ RemoveStore(t) \/ RemoveName(t)

Next == (\E t \in Threads : Create(t) \/ Remove(t)) \/ Restart \/ recover \/ Initialized

Spec == Init /\ [][Next]_vars

TypeOK ==
    /\ nameToKey \in [Names -> Ids \cup {None}] /\ keyToName \in [Ids -> Names \cup {None}]
    /\ nameOf \in [Ids -> Names]
    /\ used \subseteq Ids /\ ctrd \subseteq Ids /\ stored \subseteq Ids /\ toLoad \subseteq Ids
    /\ leftover \subseteq Ids
    /\ phase \in {"up", "loading", "failed"}
    /\ pc \in [Threads -> Steps] /\ id \in [Threads -> Ids]

\* The two maps of the index are inverse of each other, and while the plugin serves calls
\* every stored sandbox or container holds its own name: no interleaving of creations, of
\* their cleanup and of duplicate removals takes a name away from its owner or gives it to two.
NamesHeld ==
    /\ \A n \in Names, k \in Ids : nameToKey[n] = k <=> keyToName[k] = n
    /\ phase = "up" => \A i \in stored : keyToName[i] = nameOf[i]

\* Recovery fails on a name (restart.go:70, 90) only if some container was left in containerd
\* with a name that the index did not hold: its deferred Delete had failed, or an earlier
\* recovery had skipped it.  No crash between two steps of a call is enough.
BlockedOnlyByLeftover == phase = "failed" => leftover # {}

=============================================================================
