--------------------------- MODULE StoresProofs ----------------------------
(***************************************************************************)
(* Proofs about the stores, for any number of objects, goroutines, faults  *)
(* and restarts: the names of sandboxes and containers (NameIndex), the    *)
(* snapshots (Snapshots), the images (Images) and the labels of containers *)
(* (Labels).                                                               *)
(***************************************************************************)
EXTENDS NameIndex, Snapshots, Images, Integers, Sequences, FiniteSets, TLAPS

-----------------------------------------------------------------------------
(* The name index *)

Creating == {"newContainer", "storeAdd", "undoContainer", "undoName"}

\* The two maps of the index are inverse of each other, and a key has the name of its metadata.
Inverses ==
    /\ \A n \in Names, k \in Ids : nameToKey[n] = k <=> keyToName[k] = n
    /\ \A k \in Ids : keyToName[k] # None => keyToName[k] = nameOf[k] /\ k \in used

\* Calls run only while the plugin is up; a creation has its id to itself and holds its name.
Owned ==
    /\ phase # "up" => \A t \in Threads : pc[t] = "idle"
    /\ \A t \in Threads : pc[t] # "idle" => id[t] \in used
    /\ \A t \in Threads : pc[t] \in Creating =>
          /\ keyToName[id[t]] = nameOf[id[t]] /\ id[t] \notin stored
          /\ \A u \in Threads : u # t /\ pc[u] # "idle" => id[u] # id[t]
    /\ \A t \in Threads : pc[t] = "rmName" => id[t] \notin stored

\* What is stored holds its name, until recovery has failed.
StoredHeld ==
    /\ stored \subseteq used /\ ctrd \subseteq used /\ toLoad \subseteq ctrd
    /\ phase = "up" => toLoad = {}
    /\ phase # "failed" => \A i \in stored : keyToName[i] = nameOf[i]

\* Where a call has not created its container yet, or has deleted it.
WithoutContainer ==
    /\ \A t \in Threads : pc[t] \in {"newContainer", "rmStore", "rmName"} => id[t] \notin ctrd
    /\ leftover = {} => \A t \in Threads : pc[t] = "undoName" => id[t] \notin ctrd

\* As long as no container was left behind, those of containerd have different names, and hold
\* them in the index, except for those recovery has still to load.
NoneLeft ==
    leftover = {} =>
        /\ phase # "failed"
        /\ \A i, j \in ctrd : nameOf[i] = nameOf[j] => i = j
        /\ \A i \in ctrd : phase = "up" \/ i \notin toLoad => keyToName[i] = nameOf[i]
        /\ phase = "loading" => \A i \in Ids : keyToName[i] # None => i \in ctrd \ toLoad

IInv == TypeOK /\ Inverses /\ Owned /\ StoredHeld /\ WithoutContainer /\ NoneLeft

-----------------------------------------------------------------------------
(* The index *)

\* Reserve of a key that holds no name gives it its own name, if nobody has that name (registrar.go).
LEMMA Reserving ==
    ASSUME TypeOK, Inverses, NEW k \in Ids, keyToName[k] = None, Reservable(nameOf[k], k),
           Reserve(nameOf[k], k), nameOf' = nameOf, used' = used \cup {k}
    PROVE  /\ Inverses'
           /\ nameToKey' \in [Names -> Ids \cup {None}]
           /\ keyToName' = [keyToName EXCEPT ![k] = nameOf[k]]
<1> USE NoneAssumption
<1>1. nameOf[k] \in Names /\ nameToKey[nameOf[k]] = None
  BY Zenon DEF TypeOK, Inverses, Reservable
<1>2. /\ nameToKey' = [nameToKey EXCEPT ![nameOf[k]] = k]
      /\ keyToName' = [keyToName EXCEPT ![k] = nameOf[k]]
  BY <1>1, Zenon DEF Reserve
<1> QED BY <1>1, <1>2 DEF TypeOK, Inverses

\* Both releases of the index free the name of one key and touch no other (registrar.go).
LEMMA Releasing ==
    ASSUME TypeOK, Inverses, NEW k \in Ids,
           \/ ReleaseByKey(k)
           \/ keyToName[k] = nameOf[k] /\ ReleaseByName(nameOf[k]),
           nameOf' = nameOf, used' = used
    PROVE  /\ Inverses'
           /\ nameToKey' \in [Names -> Ids \cup {None}]
           /\ keyToName' = [keyToName EXCEPT ![k] = None]
<1> USE NoneAssumption
<1>1. CASE keyToName[k] = None
  <2>1. UNCHANGED index
    BY <1>1, Zenon DEF ReleaseByKey, TypeOK
  <2> QED BY <1>1, <2>1 DEF TypeOK, Inverses, index
<1>2. CASE keyToName[k] # None
  <2>1. keyToName[k] = nameOf[k] /\ nameOf[k] \in Names /\ nameToKey[nameOf[k]] = k
    BY <1>2, Zenon DEF TypeOK, Inverses
  <2>2. /\ nameToKey' = [nameToKey EXCEPT ![nameOf[k]] = None]
        /\ keyToName' = [keyToName EXCEPT ![k] = None]
    BY <1>2, <2>1, Zenon DEF ReleaseByKey, ReleaseByName
  <2> QED BY <2>1, <2>2 DEF TypeOK, Inverses
<1> QED BY <1>1, <1>2, Zenon

-----------------------------------------------------------------------------
(* The steps of a creation *)

\* ReserveName for a new id, whether the name is free or not (sandbox_run.go, container_create.go).
LEMMA CreateReserveStep ==
    ASSUME IInv, NEW t \in Threads, CreateReserve(t)
    PROVE  IInv'
<1> USE NoneAssumption DEF IInv
<1>1. PICK i \in Ids \ used :
         /\ used' = used \cup {i} /\ id' = [id EXCEPT ![t] = i]
         /\ \/ Reservable(nameOf[i], i) /\ Reserve(nameOf[i], i) /\ Goto(t, "newContainer")
            \/ ~Reservable(nameOf[i], i) /\ UNCHANGED <<index, pc>>
  BY Zenon DEF CreateReserve
<1>2. /\ phase = "up" /\ pc[t] = "idle" /\ keyToName[i] = None
      /\ UNCHANGED <<nameOf, ctrd, stored, phase, toLoad, leftover>>
  BY Zenon DEF CreateReserve, At, Inverses
<1>3. CASE Reservable(nameOf[i], i) /\ Reserve(nameOf[i], i) /\ Goto(t, "newContainer")
  <2>1. /\ Inverses' /\ nameToKey' \in [Names -> Ids \cup {None}]
        /\ keyToName' = [keyToName EXCEPT ![i] = nameOf[i]]
    BY <1>1, <1>2, <1>3, Reserving, Zenon
  <2>2. pc' = [pc EXCEPT ![t] = "newContainer"]
    BY <1>3, Zenon DEF Goto
  <2> USE <1>1, <1>2, <2>1, <2>2
  <2>3. TypeOK'
    BY Zenon DEF TypeOK, Steps
  <2>4. Owned' /\ StoredHeld'
    BY DEF TypeOK, Owned, StoredHeld, Creating
  <2>5. WithoutContainer' /\ NoneLeft'
    BY DEF TypeOK, Owned, StoredHeld, WithoutContainer, NoneLeft
  <2> QED BY <2>3, <2>4, <2>5, Zenon
<1>4. CASE UNCHANGED <<index, pc>>
  <2> USE <1>1, <1>2, <1>4 DEF index
  <2>1. TypeOK' /\ Inverses'
    BY DEF TypeOK, Inverses
  <2>2. Owned' /\ StoredHeld'
    BY DEF TypeOK, Owned, StoredHeld, Creating
  <2>3. WithoutContainer' /\ NoneLeft'
    BY Zenon DEF TypeOK, WithoutContainer, NoneLeft
  <2> QED BY <2>1, <2>2, <2>3, Zenon
<1> QED BY <1>1, <1>3, <1>4, Zenon

\* NewContainer, Add to the store and the deferred Delete leave the index alone.
LEMMA CreateContainerStep ==
    ASSUME IInv, NEW t \in Threads,
           CreateNewContainer(t) \/ CreateStoreAdd(t) \/ CreateUndoContainer(t)
    PROVE  IInv'
<1> USE NoneAssumption DEF IInv, index, At, Goto
<1>1. CASE CreateNewContainer(t)
  <2> USE <1>1 DEF CreateNewContainer
  <2>1. TypeOK' /\ Inverses'
    BY DEF TypeOK, Inverses, Steps
  <2>2. Owned' /\ StoredHeld'
    BY DEF TypeOK, Owned, StoredHeld, Creating
  <2>3. WithoutContainer'
    BY DEF TypeOK, Owned, WithoutContainer, Creating
  <2>4. NoneLeft'
    BY DEF TypeOK, Inverses, Owned, NoneLeft, Creating
  <2> QED BY <2>1, <2>2, <2>3, <2>4, Zenon
<1>2. CASE CreateStoreAdd(t)
  <2> USE <1>2 DEF CreateStoreAdd
  <2>1. TypeOK' /\ Inverses'
    BY DEF TypeOK, Inverses, Steps
  <2>2. Owned' /\ StoredHeld'
    BY DEF TypeOK, Owned, StoredHeld, Creating
  <2>3. WithoutContainer' /\ NoneLeft'
    BY DEF TypeOK, WithoutContainer, NoneLeft
  <2> QED BY <2>1, <2>2, <2>3, Zenon
<1>3. CASE CreateUndoContainer(t)
  <2> USE <1>3 DEF CreateUndoContainer
  <2>1. TypeOK' /\ Inverses'
    BY DEF TypeOK, Inverses, Steps
  <2>2. Owned'
    BY DEF TypeOK, Owned, Creating
  <2>3. StoredHeld'
    BY Zenon DEF TypeOK, StoredHeld
  <2>4. WithoutContainer' /\ NoneLeft'
    BY Zenon DEF TypeOK, WithoutContainer, NoneLeft
  <2> QED BY <2>1, <2>2, <2>3, <2>4, Zenon
<1> QED BY <1>1, <1>2, <1>3, Zenon

\* The deferred ReleaseByName: the creation still holds the name.
LEMMA CreateUndoNameStep ==
    ASSUME IInv, NEW t \in Threads, CreateUndoName(t)
    PROVE  IInv'
<1> USE NoneAssumption DEF IInv
<1>1. /\ phase = "up" /\ pc[t] = "undoName" /\ pc' = [pc EXCEPT ![t] = "idle"]
      /\ UNCHANGED <<nameOf, used, ctrd, stored, phase, toLoad, id, leftover>>
      /\ ReleaseByName(nameOf[id[t]])
  BY Zenon DEF CreateUndoName, At, Goto
<1>2. id[t] \in Ids /\ keyToName[id[t]] = nameOf[id[t]]
  BY <1>1, Zenon DEF TypeOK, Owned, Creating
<1>3. /\ Inverses' /\ nameToKey' \in [Names -> Ids \cup {None}]
      /\ keyToName' = [keyToName EXCEPT ![id[t]] = None]
  BY <1>1, <1>2, Releasing, Zenon
<1> USE <1>1, <1>2, <1>3
<1>4. TypeOK'
  BY Zenon DEF TypeOK, Steps
<1>5. Owned' /\ StoredHeld'
  BY DEF TypeOK, Owned, StoredHeld, Creating
<1>6. WithoutContainer' /\ NoneLeft'
  BY DEF TypeOK, WithoutContainer, NoneLeft
<1> QED BY <1>4, <1>5, <1>6, Zenon

-----------------------------------------------------------------------------
(* The steps of a removal *)

\* A removal finds its id in the store, deletes the container and takes it out of the store.
LEMMA RemoveContainerStep ==
    ASSUME IInv, NEW t \in Threads, RemoveGet(t) \/ RemoveContainer(t) \/ RemoveStore(t)
    PROVE  IInv'
<1> USE NoneAssumption DEF IInv, index, At, Goto
<1>1. CASE RemoveGet(t)
  <2> USE <1>1 DEF RemoveGet
  <2>1. TypeOK' /\ Inverses'
    BY DEF TypeOK, Inverses, Steps
  <2>2. Owned' /\ StoredHeld'
    BY DEF TypeOK, Owned, StoredHeld, Creating
  <2>3. WithoutContainer' /\ NoneLeft'
    BY DEF TypeOK, WithoutContainer, NoneLeft
  <2> QED BY <2>1, <2>2, <2>3, Zenon
<1>2. CASE RemoveContainer(t)
  <2> USE <1>2 DEF RemoveContainer
  <2>1. TypeOK' /\ Inverses'
    BY DEF TypeOK, Inverses, Steps
  <2>2. Owned' /\ StoredHeld'
    BY DEF TypeOK, Owned, StoredHeld, Creating
  <2>3. WithoutContainer' /\ NoneLeft'
    BY DEF TypeOK, WithoutContainer, NoneLeft
  <2> QED BY <2>1, <2>2, <2>3, Zenon
<1>3. CASE RemoveStore(t)
  <2> USE <1>3 DEF RemoveStore
  <2>1. TypeOK' /\ Inverses'
    BY Zenon DEF TypeOK, Inverses, Steps
  <2>2. Owned' /\ StoredHeld'
    BY DEF TypeOK, Owned, StoredHeld, Creating
  <2>3. WithoutContainer' /\ NoneLeft'
    BY Zenon DEF TypeOK, WithoutContainer, NoneLeft
  <2> QED BY <2>1, <2>2, <2>3, Zenon
<1> QED BY <1>1, <1>2, <1>3, Zenon

\* The ReleaseByKey of a removal, also of one that another removal has overtaken: a name that
\* was given to a new id meanwhile stays with that id.
LEMMA RemoveNameStep ==
    ASSUME IInv, NEW t \in Threads, RemoveName(t)
    PROVE  IInv'
<1> USE NoneAssumption DEF IInv
<1>1. /\ phase = "up" /\ pc[t] = "rmName" /\ pc' = [pc EXCEPT ![t] = "idle"]
      /\ UNCHANGED <<nameOf, used, ctrd, stored, phase, toLoad, id, leftover>>
      /\ ReleaseByKey(id[t]) /\ id[t] \in Ids
  BY Zenon DEF RemoveName, At, Goto, TypeOK
<1>2. /\ Inverses' /\ nameToKey' \in [Names -> Ids \cup {None}]
      /\ keyToName' = [keyToName EXCEPT ![id[t]] = None]
  BY <1>1, Releasing
<1> USE <1>1, <1>2
<1>3. TypeOK'
  BY Zenon DEF TypeOK, Steps
<1>4. Owned' /\ StoredHeld'
  BY DEF TypeOK, Owned, StoredHeld, Creating
<1>5. WithoutContainer' /\ NoneLeft'
  BY DEF TypeOK, WithoutContainer, NoneLeft
<1> QED BY <1>3, <1>4, <1>5, Zenon

-----------------------------------------------------------------------------
(* Restart and recovery *)

\* A restart at any point leaves only what containerd has.
LEMMA RestartStep ==
    ASSUME IInv, Restart
    PROVE  IInv'
<1> USE NoneAssumption DEF IInv, Restart
<1>1. TypeOK' /\ Inverses'
  BY DEF TypeOK, Inverses, Steps
<1>2. Owned' /\ StoredHeld'
  BY Zenon DEF TypeOK, Owned, StoredHeld, Creating
<1>3. WithoutContainer' /\ NoneLeft'
  BY Zenon DEF TypeOK, WithoutContainer, NoneLeft
<1> QED BY <1>1, <1>2, <1>3, Zenon

\* One container of recover: loaded, skipped, or the one whose name is taken.
LEMMA RecoverStep ==
    ASSUME IInv, recover
    PROVE  IInv'
<1> USE NoneAssumption DEF IInv
<1>1. PICK i \in toLoad :
         /\ toLoad' = toLoad \ {i}
         /\ \/ /\ Fine /\ stored' = stored \cup {i} /\ Reserve(nameOf[i], i)
               /\ phase' = IF Reservable(nameOf[i], i) THEN "loading" ELSE "failed"
               /\ UNCHANGED leftover
            \/ /\ Fault /\ leftover' = leftover \cup {i}
               /\ UNCHANGED <<index, stored, phase>>
  BY Zenon DEF recover
<1>2. /\ phase = "loading" /\ i \in Ids /\ i \in used /\ i \in ctrd /\ nameOf[i] \in Names
      /\ UNCHANGED <<nameOf, used, ctrd, pc, id>>
  BY Zenon DEF recover, threads, TypeOK, StoredHeld
<1> USE <1>1, <1>2
<1>3. CASE UNCHANGED <<index, stored, phase>> /\ leftover' = leftover \cup {i}
  <2> USE <1>3 DEF index
  <2>1. TypeOK' /\ Inverses'
    BY DEF TypeOK, Inverses
  <2>2. Owned' /\ StoredHeld'
    BY Zenon DEF TypeOK, Owned, StoredHeld
  <2>3. WithoutContainer' /\ NoneLeft'
    BY Zenon DEF TypeOK, WithoutContainer, NoneLeft
  <2> QED BY <2>1, <2>2, <2>3, Zenon
<1>4. CASE /\ stored' = stored \cup {i} /\ Reserve(nameOf[i], i) /\ ~Reservable(nameOf[i], i)
           /\ phase' = "failed" /\ UNCHANGED leftover
  <2>1. UNCHANGED index
    BY <1>4, Zenon DEF Reserve, Reservable
  <2>2. leftover # {}
    BY <1>4 DEF Reservable, TypeOK, Inverses, NoneLeft
  <2> USE <1>4, <2>1, <2>2 DEF index
  <2>3. TypeOK' /\ Inverses'
    BY Zenon DEF TypeOK, Inverses
  <2>4. Owned' /\ StoredHeld'
    BY Zenon DEF TypeOK, Owned, StoredHeld, Creating
  <2>5. WithoutContainer' /\ NoneLeft'
    BY Zenon DEF TypeOK, WithoutContainer, NoneLeft
  <2> QED BY <2>3, <2>4, <2>5, Zenon
<1>5. CASE /\ stored' = stored \cup {i} /\ Reserve(nameOf[i], i) /\ Reservable(nameOf[i], i)
           /\ phase' = "loading" /\ UNCHANGED leftover
  <2>1. /\ Inverses' /\ nameToKey' \in [Names -> Ids \cup {None}]
        /\ keyToName' = [keyToName EXCEPT ![i] = nameOf[i]]
    <3>1. CASE keyToName[i] = None
      <4>1. used' = used \cup {i}
        BY Zenon
      <4> QED BY <1>5, <3>1, <4>1, Reserving, Zenon
    <3>2. CASE keyToName[i] # None
      <4>1. keyToName[i] = nameOf[i] /\ UNCHANGED index
        BY <1>5, <3>2, Zenon DEF Inverses, Reserve
      <4> QED BY <4>1 DEF TypeOK, Inverses, index
    <3> QED BY <3>1, <3>2, Zenon
  <2> USE <1>5, <2>1
  <2>2. TypeOK'
    BY Zenon DEF TypeOK
  <2>3. Owned' /\ StoredHeld'
    BY DEF TypeOK, Owned, StoredHeld, Creating
  <2>4. WithoutContainer' /\ NoneLeft'
    BY Zenon DEF TypeOK, WithoutContainer, NoneLeft
  <2> QED BY <2>2, <2>3, <2>4, Zenon
<1> QED BY <1>3, <1>4, <1>5, Zenon

\* Run serves calls once everything is loaded.
LEMMA InitializedStep ==
    ASSUME IInv, Initialized
    PROVE  IInv'
<1> USE NoneAssumption DEF IInv, Initialized, index, threads
<1>1. TypeOK' /\ Inverses'
  BY Zenon DEF TypeOK, Inverses
<1>2. Owned' /\ StoredHeld'
  BY Zenon DEF TypeOK, Owned, StoredHeld, Creating
<1>3. WithoutContainer' /\ NoneLeft'
  BY Zenon DEF TypeOK, WithoutContainer, NoneLeft
<1> QED BY <1>1, <1>2, <1>3, Zenon

-----------------------------------------------------------------------------
(* The theorems *)

\* The invariant is inductive: no step of any call, of a restart or of recovery breaks it.
THEOREM Invariance == Spec => []IInv
<1>1. Init => IInv
  <2> SUFFICES ASSUME Init PROVE IInv
    BY Zenon
  <2> USE NoneAssumption DEF Init
  <2>1. TypeOK /\ Inverses
    BY Zenon DEF TypeOK, Inverses, Steps
  <2>2. Owned /\ StoredHeld /\ WithoutContainer /\ NoneLeft
    BY Zenon DEF Owned, StoredHeld, WithoutContainer, NoneLeft, Creating
  <2> QED BY <2>1, <2>2, Zenon DEF IInv
<1>2. IInv /\ [Next]_vars => IInv'
  <2> SUFFICES ASSUME IInv, [Next]_vars PROVE IInv'
    BY Zenon
  <2>1. CASE UNCHANGED vars
    BY <2>1 DEF IInv, TypeOK, Inverses, Owned, StoredHeld, WithoutContainer, NoneLeft, vars, index,
                threads, bounds
  <2>2. ASSUME NEW t \in Threads, Create(t) PROVE IInv'
    BY <2>2, CreateReserveStep, CreateContainerStep, CreateUndoNameStep, Zenon DEF Create
  <2>3. ASSUME NEW t \in Threads, Remove(t) PROVE IInv'
    BY <2>3, RemoveContainerStep, RemoveNameStep, Zenon DEF Remove
  <2> QED BY <2>1, <2>2, <2>3, RestartStep, RecoverStep, InitializedStep, Zenon DEF Next
<1> QED BY <1>1, <1>2, PTL DEF Spec

\* The maps of the index (registrar.go) stay inverse of each other, and while calls are served
\* whatever is stored holds its own name, for any number of goroutines, ids and restarts.
THEOREM NamesAreHeld == Spec => []NamesHeld
<1>1. IInv => NamesHeld
  BY Zenon DEF IInv, Inverses, StoredHeld, NamesHeld
<1> QED BY <1>1, Invariance, PTL

\* Recovery (restart.go:70, 90) fails on a name only if a container was left behind, wherever the
\* process has crashed and however often.
THEOREM BlockedOnlyByLeftovers == Spec => []BlockedOnlyByLeftover
<1>1. IInv => BlockedOnlyByLeftover
  BY Zenon DEF IInv, NoneLeft, BlockedOnlyByLeftover
<1> QED BY <1>1, Invariance, PTL

-----------------------------------------------------------------------------
(* The snapshot store *)

\* What the sync under way has updated.
Updated == DOMAIN walked \ (pending \cup missed)

SnapType ==
    /\ clock \in Int /\ start \in Int /\ stepsBack \in Nat
    /\ \A k \in DOMAIN stats : stats[k].timestamp \in Int

\* The timestamps tell the entries of the sync under way from those of the earlier ones.
Stamped ==
    /\ \A k \in DOMAIN stats : stats[k].timestamp <= clock
    /\ sync # "tick" => start <= clock
    /\ sync = "walk" => \A k \in DOMAIN stats : stats[k].timestamp < start
    /\ sync = "update" =>
          /\ pending \subseteq DOMAIN walked /\ pending \cap missed = {}
          /\ Updated \subseteq DOMAIN stats
          /\ \A k \in Updated : stats[k].timestamp >= start /\ stats[k].kind = walked[k]
          /\ \A k \in DOMAIN stats \ Updated : stats[k].timestamp < start

\* What SnapshotsSwept says beside the types.
Swept ==
    sync = "tick" /\ outcome = "done" /\ stepsBack = 0 =>
        /\ DOMAIN stats = DOMAIN walked \ missed
        /\ \A k \in DOMAIN stats : stats[k].kind = walked[k] /\ stats[k].timestamp >= start

SnapInv == SnapType /\ (stepsBack = 0 => Stamped) /\ Swept

\* One turn of the loop of Sync marks the entry of a snapshot, or misses the snapshot.
LEMMA SyncUpdateStep ==
    ASSUME SnapInv, NEW k \in Keys, SyncUpdate(k)
    PROVE  SnapInv'
<1>1. /\ sync = "update" /\ k \in pending /\ pending' = pending \ {k}
      /\ UNCHANGED <<clock, sync, start, walked, stepsBack>>
  BY Zenon DEF SyncUpdate
<1>2. CASE Put(k, walked[k]) /\ missed' = missed
  <2>1. /\ DOMAIN stats' = DOMAIN stats \cup {k}
        /\ stats'[k].kind = walked[k] /\ stats'[k].timestamp = clock
        /\ \A j \in DOMAIN stats : j # k => stats'[j] = stats[j]
    BY <1>2, Zenon DEF Put
  <2>2. SnapType'
    BY <1>1, <2>1, Zenon DEF SnapInv, SnapType
  <2>3. stepsBack = 0 => Updated' = Updated \cup {k}
    BY <1>1, <1>2, Zenon DEF SnapInv, Stamped, Updated
  <2>4. stepsBack = 0 => Stamped'
    BY <1>1, <1>2, <2>1, <2>2, <2>3 DEF SnapInv, SnapType, Stamped
  <2> QED BY <1>1, <2>2, <2>4, Zenon DEF SnapInv, Swept
<1>3. CASE missed' = missed \cup {k} /\ stats' = stats
  <2>1. Updated' = Updated
    BY <1>1, <1>3, Zenon DEF Updated
  <2>2. SnapType'
    BY <1>1, <1>3, Zenon DEF SnapInv, SnapType
  <2>3. stepsBack = 0 => Stamped'
    BY <1>1, <1>3, <2>1, Zenon DEF SnapInv, Stamped
  <2> QED BY <1>1, <2>2, <2>3, Zenon DEF SnapInv, Swept
<1> QED BY <1>2, <1>3, Zenon DEF SyncUpdate

\* The sweep keeps exactly the marked entries.
LEMMA SyncSweepStep ==
    ASSUME SnapInv, SyncSweep
    PROVE  SnapInv'
<1>1. /\ sync = "update" /\ pending = {} /\ sync' = "tick"
      /\ UNCHANGED <<clock, start, walked, pending, missed, stepsBack>>
  BY Zenon DEF SyncSweep
<1>2. /\ DOMAIN stats' = {k \in DOMAIN stats : stats[k].timestamp >= start}
      /\ \A k \in DOMAIN stats' : stats'[k] = stats[k]
  BY Zenon DEF SyncSweep, Restrict
<1>3. SnapType'
  BY <1>1, <1>2, Zenon DEF SnapInv, SnapType
<1>4. stepsBack = 0 => Stamped'
  BY <1>1, <1>2, Zenon DEF SnapInv, Stamped
<1>5. stepsBack = 0 => DOMAIN stats' = DOMAIN walked \ missed
  <2>1. Updated = DOMAIN walked \ missed
    BY <1>1, Zenon DEF Updated
  <2> QED BY <1>1, <1>2, <2>1 DEF SnapInv, SnapType, Stamped
<1>6. stepsBack = 0 => \A k \in DOMAIN stats' : stats'[k].kind = walked[k] /\ stats'[k].timestamp >= start
  <2>1. Updated = DOMAIN walked \ missed
    BY <1>1, Zenon DEF Updated
  <2> QED BY <1>1, <1>2, <1>5, <2>1, Zenon DEF SnapInv, Stamped
<1> QED BY <1>1, <1>3, <1>4, <1>5, <1>6, Zenon DEF SnapInv, Swept

SnapshotConstants == MaxTime \in Nat /\ MaxSnapshotFaults \in Nat /\ MaxStepsBack \in Nat

\* A partial function, by what it maps.
LEMMA PartialFunction ==
    ASSUME NEW S, NEW T, NEW f
    PROVE  Partial(f, S, T) <=> /\ DOMAIN f \subseteq S /\ f = [k \in DOMAIN f |-> f[k]]
                                /\ \A k \in DOMAIN f : f[k] \in T
<1>1. f \in [DOMAIN f -> T] <=> f = [k \in DOMAIN f |-> f[k]] /\ \A k \in DOMAIN f : f[k] \in T
  BY Zenon
<1> QED BY <1>1, Zenon DEF Partial

\* Every step of the syncer and of the rest of the system keeps the types.
LEMMA SnapshotTypes ==
    ASSUME SnapshotConstants, SnapshotTypeOK, [SnapshotNext]_snapVars
    PROVE  SnapshotTypeOK'
<1> USE PartialFunction
<1>1. CASE SyncStart
  BY <1>1 DEF SyncStart, SnapshotTypeOK, SnapshotConstants
<1>2. CASE SyncWalk
  BY <1>2 DEF SyncWalk, SnapshotTypeOK, SnapshotConstants, SnapshotFails, Works
<1>3. CASE SyncSweep
  BY <1>3 DEF SyncSweep, SnapshotTypeOK, SnapshotConstants, Restrict
<1>4. CASE Tick
  BY <1>4 DEF Tick, SnapshotTypeOK, SnapshotConstants
<1>5. ASSUME NEW k \in Keys, SyncUpdate(k) PROVE SnapshotTypeOK'
  BY <1>5 DEF SyncUpdate, Put, SnapshotTypeOK, SnapshotConstants, SnapshotFails, Works
<1>6. ASSUME NEW k \in Keys, RemoveSnapshot(k) PROVE SnapshotTypeOK'
  BY <1>6 DEF RemoveSnapshot, Restrict, SnapshotTypeOK, SnapshotConstants
<1>7. ASSUME NEW k \in Keys, NEW kind \in Kinds, Prepare(k, kind) PROVE SnapshotTypeOK'
  BY <1>7 DEF Prepare, SnapshotTypeOK, SnapshotConstants
<1>8. CASE UNCHANGED snapVars
  BY <1>8 DEF snapVars, SnapshotTypeOK
<1> QED BY <1>1, <1>2, <1>3, <1>4, <1>5, <1>6, <1>7, <1>8 DEF SnapshotNext

\* After a sync (snapshots.go) under a clock that is not stepped back, the store has exactly the
\* snapshots the walk collected and whose usage could be read, for any snapshots and any times.
THEOREM SnapshotsAreSwept ==
    ASSUME SnapshotConstants
    PROVE  SnapshotSpec => []SnapshotsSwept
<1>1. SnapshotInit => SnapInv
  BY DEF SnapshotInit, Empty, SnapInv, SnapType, Stamped, Swept
<1>2. SnapInv /\ [SnapshotNext]_(snapVars) => SnapInv'
  <2> SUFFICES ASSUME SnapInv, [SnapshotNext]_(snapVars) PROVE SnapInv'
    BY Zenon
  <2>1. CASE UNCHANGED <<clock, stats, sync, start, walked, pending, missed, outcome, stepsBack>>
    BY <2>1, Zenon DEF SnapInv, SnapType, Stamped, Updated, Swept
  <2>2. CASE SyncStart
    BY <2>2 DEF SyncStart, SnapInv, SnapType, Stamped, Swept
  <2>3. CASE SyncWalk
    <3>1. CASE sync' = "tick"
      BY <2>3, <3>1, Zenon DEF SyncWalk, SnapInv, SnapType, Stamped, Swept
    <3>2. CASE sync' = "update"
      <4>1. /\ sync = "walk" /\ pending' = DOMAIN walked' /\ missed' = {}
            /\ UNCHANGED <<clock, stats, start, stepsBack>>
        BY <2>3, <3>2, Zenon DEF SyncWalk
      <4>2. Updated' = {}
        BY <4>1, Zenon DEF Updated
      <4> QED BY <3>2, <4>1, <4>2, Zenon DEF SnapInv, SnapType, Stamped, Swept
    <3> QED BY <2>3, <3>1, <3>2, Zenon DEF SyncWalk
  <2>4. CASE Tick
    <3>1. /\ UNCHANGED <<stats, sync, start, walked, pending, missed, outcome>>
          /\ \/ clock' = clock + 1 /\ stepsBack' = stepsBack
             \/ clock' = clock - 1 /\ stepsBack' = stepsBack + 1
      BY <2>4, Zenon DEF Tick
    <3>2. SnapType' /\ (stepsBack' = 0 => stepsBack = 0 /\ clock' = clock + 1)
      BY <3>1 DEF SnapInv, SnapType
    <3> QED BY <3>1, <3>2 DEF SnapInv, SnapType, Stamped, Updated, Swept
  <2>5. (\E k \in Keys : RemoveSnapshot(k) \/ \E kind \in Kinds : Prepare(k, kind)) \/ UNCHANGED snapVars
        => UNCHANGED <<clock, stats, sync, start, walked, pending, missed, outcome, stepsBack>>
    BY Zenon DEF RemoveSnapshot, Prepare, snapVars
  <2> QED BY <2>1, <2>2, <2>3, <2>4, <2>5, SyncUpdateStep, SyncSweepStep DEF SnapshotNext
<1>3. SnapshotInit => SnapshotTypeOK
  <2>1. Partial(Empty, Keys, Kinds) /\ DOMAIN Empty = {}
    <3>1. Empty \in [{} -> Kinds] /\ DOMAIN Empty = {} /\ {} \subseteq Keys
      BY DEF Empty
    <3> QED BY <3>1, Zenon DEF Partial
  <2> QED BY <2>1 DEF SnapshotInit, SnapshotTypeOK, SnapshotConstants
<1>4. SnapshotTypeOK /\ [SnapshotNext]_snapVars => SnapshotTypeOK'
  BY SnapshotTypes
<1>5. SnapInv /\ SnapshotTypeOK => SnapshotsSwept
  BY Zenon DEF SnapInv, Swept, SnapshotsSwept
<1> QED BY <1>1, <1>2, <1>3, <1>4, <1>5, PTL DEF SnapshotSpec

-----------------------------------------------------------------------------
(* The image store *)

\* What the image store is proved from: the event loop serves no calls, a digest is never the
\* zero id, and there are finitely many references.
ImageConstants ==
    /\ Handler \notin Callers /\ NoID \notin Contents /\ IsFiniteSet(Refs)

\* The references of a call: there is one while the call goes on, and whatever is written to
\* containerd is an image.
RefsLeft ==
    \A p \in Procs :
        /\ refs[p] \in Seq(Refs) /\ ((at[p] = "idle") <=> (refs[p] = <<>>))
        /\ at[p] \in {"create", "update"} => target[p] \in Contents
        /\ at[p] = "store" /\ Len(refs[p]) # 1 => target[p] \in Contents

\* The event loop ends with the reference it was called for.
HandlerLeft ==
    at[Handler] # "idle" =>
        /\ at[Handler] \in {"create", "update", "store"} /\ subject \in Refs
        /\ refs[Handler] = <<subject>> \/ \E x \in Contents : refs[Handler] = <<x, subject>>

\* A reference that is not up to date will be handled: its event is pending, it is at hand, or
\* loadImages has not come to it yet.
WillCatchUp(r) ==
    \/ r \in imageEvents \/ (~serving /\ r \in toCheck)
    \/ at[Handler] # "idle" /\ subject = r
Missing ==
    \A r \in Refs \ skipped : refCache[r] # ctrImages[r].id => WillCatchUp(r)

ImageType ==
    /\ ctrImages \in [Refs -> [id : Contents \cup {NoID}, managed : BOOLEAN]]
    /\ \A r \in Refs : ctrImages[r] # NoImage => ctrImages[r].id \in Contents
    /\ refCache \in [Refs -> Contents \cup {NoID}] /\ imageRefs \in [Contents -> SUBSET Refs]
    /\ imageEvents \subseteq Refs /\ toCheck \subseteq Refs /\ skipped \subseteq Refs
    /\ DOMAIN at = Procs /\ DOMAIN refs = Procs /\ DOMAIN target = Procs

ImageInv == ImageType /\ RefsLeft /\ HandlerLeft /\ Missing /\ ImageIndexed

\* The parts of the invariant that speak of containerd and of the store are kept by a step that
\* publishes what it changes in containerd and leaves the store alone.
Publishes(r) ==
    /\ r \in Refs /\ UNCHANGED <<refCache, imageRefs>> /\ imageEvents' = imageEvents \cup {r}
    /\ \/ ctrImages' = [ctrImages EXCEPT ![r] = NoImage]
       \/ \E x \in Contents, m \in BOOLEAN : ctrImages' = [ctrImages EXCEPT ![r] = [id |-> x, managed |-> m]]

\* Store.Update makes the reference what containerd holds, and keeps the two indexes in step.
LEMMA StoreUpdate ==
    ASSUME ImageInv, NEW r \in Refs, update(r, ctrImages[r].id), ctrImages' = ctrImages
    PROVE  /\ refCache' \in [Refs -> Contents \cup {NoID}]
           /\ imageRefs' \in [Contents -> SUBSET Refs]
           /\ ImageIndexed' /\ refCache'[r] = ctrImages'[r].id
           /\ \A s \in Refs : s # r => refCache'[s] = refCache[s]
<1>1. ctrImages[r].id \in Contents \cup {NoID}
  BY Zenon DEF ImageInv, ImageType
<1>2. CASE ctrImages[r].id = refCache[r]
  BY <1>2, Zenon DEF update, store, ImageInv, ImageType, ImageIndexed
<1>3. CASE ctrImages[r].id # refCache[r]
  <2>1. /\ refCache' = [refCache EXCEPT ![r] = ctrImages[r].id]
        /\ imageRefs' = [y \in Contents |->
              IF y = ctrImages[r].id THEN imageRefs[y] \cup {r}
              ELSE IF y = refCache[r] THEN imageRefs[y] \ {r} ELSE imageRefs[y]]
    BY <1>3, Zenon DEF update, add, delete
  <2>2. /\ refCache' \in [Refs -> Contents \cup {NoID}] /\ refCache'[r] = ctrImages[r].id
        /\ \A s \in Refs : s # r => refCache'[s] = refCache[s]
    BY <1>1, <2>1, Zenon DEF ImageInv, ImageType
  <2>3. imageRefs' \in [Contents -> SUBSET Refs]
    BY <2>1, Zenon DEF ImageInv, ImageType
  <2>4. ASSUME NEW y \in Contents PROVE imageRefs'[y] = {s \in Refs : refCache'[s] = y}
    <3>1. imageRefs[y] = {s \in Refs : refCache[s] = y}
      BY Zenon DEF ImageInv, ImageIndexed
    <3>2. CASE y = ctrImages[r].id
      BY <2>1, <2>2, <3>1, <3>2, Zenon
    <3>3. CASE y # ctrImages[r].id
      BY <2>1, <2>2, <3>1, <3>3
    <3> QED BY <3>2, <3>3, Zenon
  <2> QED BY <2>2, <2>3, <2>4, Zenon DEF ImageIndexed
<1> QED BY <1>2, <1>3, Zenon
\* The first reference of a call that goes on.
LEMMA HeadOf ==
    ASSUME ImageInv, NEW p \in Procs, at[p] # "idle"
    PROVE  Head(refs[p]) \in Refs /\ Len(refs[p]) \in Nat \ {0} /\ Tail(refs[p]) \in Seq(Refs)
<1>1. refs[p] \in Seq(Refs) /\ refs[p] # <<>>
  BY Zenon DEF ImageInv, RefsLeft
<1> QED BY <1>1

\* A change of containerd is published: the store is out of date where an event tells so.
LEMMA Publishing ==
    ASSUME ImageInv, NEW r, Publishes(r)
    PROVE  /\ ctrImages' \in [Refs -> [id : Contents \cup {NoID}, managed : BOOLEAN]]
           /\ \A s \in Refs : ctrImages'[s] # NoImage => ctrImages'[s].id \in Contents
           /\ imageEvents' \subseteq Refs
           /\ \A s \in Refs : s # r => ctrImages'[s] = ctrImages[s]
           /\ \A s \in Refs : refCache'[s] # ctrImages'[s].id =>
                 s \in imageEvents' \/ refCache[s] # ctrImages[s].id
<1>1. PICK v \in [id : Contents \cup {NoID}, managed : BOOLEAN] :
         /\ ctrImages' = [ctrImages EXCEPT ![r] = v]
         /\ v # NoImage => v.id \in Contents
  <2>1. CASE ctrImages' = [ctrImages EXCEPT ![r] = NoImage]
    <3>1. NoImage \in [id : Contents \cup {NoID}, managed : BOOLEAN]
      BY Zenon DEF NoImage
    <3> QED BY <2>1, <3>1, Zenon
  <2>2. ASSUME NEW x \in Contents, NEW m \in BOOLEAN,
               ctrImages' = [ctrImages EXCEPT ![r] = [id |-> x, managed |-> m]]
        PROVE  \E v \in [id : Contents \cup {NoID}, managed : BOOLEAN] :
                  ctrImages' = [ctrImages EXCEPT ![r] = v] /\ v.id \in Contents
    <3>1. [id |-> x, managed |-> m] \in [id : Contents \cup {NoID}, managed : BOOLEAN]
      BY Zenon
    <3>2. [id |-> x, managed |-> m].id \in Contents
      BY Zenon
    <3> QED BY <2>2, <3>1, <3>2, Zenon
  <2> QED BY <2>1, <2>2, Zenon DEF Publishes
<1>2. r \in Refs /\ UNCHANGED <<refCache, imageRefs>> /\ imageEvents' = imageEvents \cup {r}
  BY Zenon DEF Publishes
<1> QED BY <1>1, <1>2, Zenon DEF ImageInv, ImageType

\* A step of p changes what p has left to do, and not what the others have.
OnlyOf(p) ==
    /\ DOMAIN at' = Procs /\ DOMAIN refs' = Procs /\ DOMAIN target' = Procs
    /\ \A q \in Procs : q # p => at'[q] = at[q] /\ refs'[q] = refs[q] /\ target'[q] = target[q]

\* What a goroutine that begins or goes on does to its own state.
LEMMA Progress ==
    ASSUME ImageInv, NEW p \in Procs, NEW step, NEW rs, NEW x
    PROVE  /\ Begin(p, step, rs, x) => OnlyOf(p) /\ at'[p] = step /\ refs'[p] = rs /\ target'[p] = x
           /\ ImageGoto(p, step) => /\ OnlyOf(p) /\ at'[p] = step /\ refs'[p] = refs[p]
                                    /\ target'[p] = target[p]
BY Zenon DEF ImageInv, ImageType, OnlyOf, Begin, ImageGoto

\* p goes on to the next step with the same references, with containerd changed or not.
LEMMA GoesOn ==
    ASSUME ImageConstants, ImageInv, NEW p \in Procs, at[p] # "idle", NEW step, ImageGoto(p, step),
           \/ step \in {"update", "store"} /\ at[p] \in {"create", "update"} /\ target[p] \in Contents
           \/ step = "forget" /\ at[p] = "delete",
           UNCHANGED <<refCache, imageRefs, serving, toCheck, subject, skipped>>,
           UNCHANGED <<ctrImages, imageEvents>> \/ \E r : Publishes(r)
    PROVE  ImageInv'
<1>1. /\ OnlyOf(p) /\ at'[p] = step /\ refs'[p] = refs[p] /\ target'[p] = target[p]
      /\ step # "idle"
  BY Progress, Zenon
<1>2. /\ ctrImages' \in [Refs -> [id : Contents \cup {NoID}, managed : BOOLEAN]]
      /\ \A s \in Refs : ctrImages'[s] # NoImage => ctrImages'[s].id \in Contents
      /\ imageEvents' \subseteq Refs /\ imageEvents \subseteq imageEvents'
      /\ \A s \in Refs : refCache'[s] # ctrImages'[s].id =>
            s \in imageEvents' \/ refCache[s] # ctrImages[s].id
  <2>1. CASE UNCHANGED <<ctrImages, imageEvents>>
    BY <2>1, Zenon DEF ImageInv, ImageType
  <2>2. CASE \E r : Publishes(r)
    BY <2>2, Publishing, Zenon DEF Publishes
  <2> QED BY <2>1, <2>2, Zenon
<1>3. ImageType'
  BY <1>1, <1>2, Zenon DEF ImageInv, ImageType, OnlyOf
<1>4. RefsLeft'
  BY <1>1, Zenon DEF ImageInv, RefsLeft, OnlyOf
<1>5. HandlerLeft'
  BY <1>1, Zenon DEF ImageInv, HandlerLeft, OnlyOf, Procs
<1>6. \A r \in Refs : WillCatchUp(r) => WillCatchUp(r)'
  BY <1>1, <1>2, Zenon DEF WillCatchUp, OnlyOf, Procs
<1>7. Missing'
  BY <1>2, <1>6, Zenon DEF ImageInv, Missing, WillCatchUp
<1>8. ImageIndexed'
  BY Zenon DEF ImageInv, ImageIndexed
<1> QED BY <1>3, <1>4, <1>5, <1>7, <1>8 DEF ImageInv

\* A call, or the handling of an event, fails.
LEMMA FailsStep ==
    ASSUME ImageConstants, ImageInv, NEW p \in Procs, at[p] # "idle", ImageFails(p),
           UNCHANGED <<serving, toCheck, subject>>
    PROVE  ImageInv'
<1>1. OnlyOf(p) /\ at'[p] = "idle" /\ refs'[p] = <<>>
  BY Progress, Zenon DEF ImageFails, Return
<1>2. /\ UNCHANGED <<ctrImages, refCache, imageRefs>>
      /\ imageEvents' = (IF p = Handler /\ serving THEN imageEvents \cup {subject} ELSE imageEvents)
      /\ skipped' = (IF p = Handler /\ ~serving THEN skipped \cup {subject} ELSE skipped)
  BY Zenon DEF ImageFails, store
<1>3. p = Handler => subject \in Refs
  BY Zenon DEF ImageInv, HandlerLeft
<1>4. ImageType'
  <2>1. imageEvents' \subseteq Refs /\ skipped' \subseteq Refs
    BY <1>2, <1>3, Zenon DEF ImageInv, ImageType
  <2> QED BY <1>1, <1>2, <2>1, Zenon DEF ImageInv, ImageType, OnlyOf
<1>5. RefsLeft'
  <2>1. <<>> \in Seq(Refs)
    OBVIOUS
  <2> QED BY <1>1, <2>1, Zenon DEF ImageInv, RefsLeft, OnlyOf
<1>6. HandlerLeft'
  BY <1>1, Zenon DEF ImageInv, HandlerLeft, OnlyOf, Procs
<1>7. \A r \in Refs \ skipped' : WillCatchUp(r) => WillCatchUp(r)'
  BY <1>1, <1>2, Zenon DEF WillCatchUp, OnlyOf, Procs
<1>8. Missing'
  BY <1>2, <1>7, Zenon DEF ImageInv, Missing, WillCatchUp
<1>9. ImageIndexed'
  BY <1>2, Zenon DEF ImageInv, ImageIndexed
<1> QED BY <1>4, <1>5, <1>6, <1>8, <1>9 DEF ImageInv

\* Store.Update of the reference at hand, and on to the next.
LEMMA StoresStep ==
    ASSUME ImageConstants, ImageInv, NEW p \in Procs, NEW step,
           \/ at[p] = "store" /\ step = "create"
           \/ at[p] = "forget" /\ step = "delete",
           update(Head(refs[p]), ctrImages[Head(refs[p])].id), Advance(p, step),
           UNCHANGED <<ctrImages, imageEvents, serving, toCheck, subject>>,
           skipped' = skipped \ {Head(refs[p])}
    PROVE  ImageInv'
<1> DEFINE r == Head(refs[p])
<1>1. r \in Refs /\ Len(refs[p]) \in Nat \ {0} /\ Tail(refs[p]) \in Seq(Refs)
  BY HeadOf, Zenon
<1>2. /\ refCache' \in [Refs -> Contents \cup {NoID}]
      /\ imageRefs' \in [Contents -> SUBSET Refs]
      /\ ImageIndexed' /\ refCache'[r] = ctrImages'[r].id
      /\ \A s \in Refs : s # r => refCache'[s] = refCache[s]
  BY <1>1, StoreUpdate, Zenon
<1>3. /\ OnlyOf(p)
      /\ \/ Len(refs[p]) = 1 /\ at'[p] = "idle" /\ refs'[p] = <<>>
         \/ Len(refs[p]) # 1 /\ at'[p] = step /\ refs'[p] = Tail(refs[p]) /\ target'[p] = target[p]
  <2>1. CASE Len(refs[p]) = 1
    BY <2>1, Progress DEF Advance, Return
  <2>2. CASE Len(refs[p]) # 1
    BY <2>2, Progress DEF Advance
  <2> QED BY <2>1, <2>2, Zenon
<1>4. ImageType'
  BY <1>2, <1>3, Zenon DEF ImageInv, ImageType, OnlyOf
<1>5. RefsLeft'
  <2>1. Len(refs[p]) # 1 => Tail(refs[p]) # <<>>
    <3>1. refs[p] \in Seq(Refs) /\ refs[p] # <<>>
      BY Zenon DEF ImageInv, RefsLeft
    <3>2. Len(Tail(refs[p])) = Len(refs[p]) - 1
      BY <3>1
    <3>3. Tail(refs[p]) = <<>> => Len(Tail(refs[p])) = 0
      BY <1>1, Len(<<>>) = 0, Zenon
    <3> QED BY <1>1, <3>2, <3>3
  <2>2. /\ refs'[p] \in Seq(Refs) /\ ((at'[p] = "idle") <=> (refs'[p] = <<>>))
        /\ at'[p] = "create" => target'[p] \in Contents
        /\ at'[p] \notin {"update", "store"}
    <3>1. <<>> \in Seq(Refs)
      OBVIOUS
    <3>2. at[p] = "store" /\ Len(refs[p]) # 1 => target[p] \in Contents
      BY Zenon DEF ImageInv, RefsLeft
    <3>3. CASE Len(refs[p]) = 1
      BY <1>3, <3>1, <3>3, Zenon
    <3>4. CASE Len(refs[p]) # 1
      BY <1>1, <1>3, <2>1, <3>2, <3>4, Zenon
    <3> QED BY <3>3, <3>4, Zenon
  <2> QED BY <1>3, <2>2, Zenon DEF ImageInv, RefsLeft, OnlyOf
<1>6. HandlerLeft' /\ (at[Handler] # "idle" /\ at'[Handler] = "idle" => subject = r)
  <2>1. CASE p # Handler
    BY <1>3, <2>1, Zenon DEF ImageInv, HandlerLeft, OnlyOf, Procs
  <2>2. CASE p = Handler /\ refs[Handler] = <<subject>>
    BY <1>3, <2>2 DEF ImageInv, HandlerLeft
  <2>3. ASSUME p = Handler, NEW x \in Contents, refs[Handler] = <<x, subject>> PROVE HandlerLeft' /\ at'[Handler] # "idle"
    <3>1. Len(refs[p]) # 1 /\ Tail(refs[p]) = <<subject>>
      BY <2>3
    <3>2. at'[p] = step /\ refs'[p] = <<subject>>
      BY <1>3, <3>1, Zenon
    <3> QED BY <2>3, <3>2, Zenon DEF ImageInv, HandlerLeft
  <2> QED BY <2>1, <2>2, <2>3 DEF ImageInv, HandlerLeft
<1>7. \A s \in Refs : s # r /\ WillCatchUp(s) => WillCatchUp(s)'
  BY <1>3, <1>6, Zenon DEF WillCatchUp, OnlyOf, Procs
<1>8. Missing'
  BY <1>2, <1>7, Zenon DEF ImageInv, Missing, WillCatchUp
<1> QED BY <1>2, <1>4, <1>5, <1>6, <1>8 DEF ImageInv

\* createImageReference: create, or update what is there.
LEMMA ReferenceStep ==
    ASSUME ImageConstants, ImageInv, NEW p \in Procs, CreateReference(p) \/ UpdateReference(p)
    PROVE  ImageInv'
<1> DEFINE r == Head(refs[p])
<1>1. at[p] \in {"create", "update"} /\ UNCHANGED <<serving, toCheck, subject>>
  BY Zenon DEF CreateReference, UpdateReference
<1>2. r \in Refs /\ target[p] \in Contents
  BY <1>1, HeadOf, Zenon DEF ImageInv, RefsLeft
<1>3. SetImage(r, Image(target[p])) /\ UNCHANGED store => Publishes(r)
  BY <1>2, Zenon DEF SetImage, Image, store, Publishes
<1>4. CASE ImageFails(p)
  BY <1>1, <1>4, FailsStep, ZenonT(60)
<1>5. CASE /\ ImageGoto(p, "store") \/ ImageGoto(p, "update")
           /\ UNCHANGED <<store, skipped>>
           /\ SetImage(r, Image(target[p])) \/ Untouched
  <2>1. UNCHANGED <<refCache, imageRefs, serving, toCheck, subject, skipped>>
    BY <1>1, <1>5, Zenon DEF store
  <2>2. UNCHANGED <<ctrImages, imageEvents>> \/ \E s : Publishes(s)
    BY <1>3, <1>5, Zenon DEF Untouched
  <2>3. PICK step \in {"update", "store"} : ImageGoto(p, step)
    BY <1>5, Zenon
  <2> QED BY <1>1, <1>2, <2>1, <2>2, <2>3, GoesOn
<1> QED BY <1>4, <1>5, Zenon DEF CreateReference, UpdateReference

\* DeleteReference
LEMMA DeleteStep ==
    ASSUME ImageConstants, ImageInv, NEW p \in Procs, DeleteReference(p)
    PROVE  ImageInv'
<1> DEFINE r == Head(refs[p])
<1>1. at[p] = "delete" /\ UNCHANGED <<serving, toCheck, subject>>
  BY Zenon DEF DeleteReference
<1>2. r \in Refs
  BY <1>1, HeadOf, Zenon
<1>3. SetImage(r, NoImage) /\ UNCHANGED store => Publishes(r)
  BY <1>2, Zenon DEF SetImage, store, Publishes
<1>4. CASE ImageFails(p)
  BY <1>1, <1>4, FailsStep, Zenon
<1>5. CASE /\ ImageGoto(p, "forget") /\ UNCHANGED <<store, skipped>>
           /\ SetImage(r, NoImage) \/ Untouched
  <2>1. UNCHANGED <<refCache, imageRefs, serving, toCheck, subject, skipped>>
    BY <1>1, <1>5, Zenon DEF store
  <2>2. UNCHANGED <<ctrImages, imageEvents>> \/ \E s : Publishes(s)
    BY <1>3, <1>5, Zenon DEF Untouched
  <2> QED BY <1>1, <1>5, <2>1, <2>2, GoesOn
<1> QED BY <1>4, <1>5, Zenon DEF DeleteReference

\* Store.Update, of a call that goes on or that has deleted the reference.
LEMMA UpdateStep ==
    ASSUME ImageConstants, ImageInv, NEW p \in Procs, UpdateStore(p) \/ ForgetReference(p)
    PROVE  ImageInv'
<1>1. at[p] \in {"store", "forget"} /\ UNCHANGED <<serving, toCheck, subject>>
  BY Zenon DEF UpdateStore, ForgetReference
<1>2. CASE ImageFails(p)
  BY <1>1, <1>2, FailsStep, Zenon
<1>3. CASE /\ update(Head(refs[p]), ctrImages[Head(refs[p])].id) /\ Untouched
           /\ skipped' = skipped \ {Head(refs[p])}
           /\ \/ at[p] = "store" /\ Advance(p, "create")
              \/ at[p] = "forget" /\ Advance(p, "delete")
  BY <1>1, <1>3, StoresStep DEF Untouched
<1> QED BY <1>2, <1>3, Zenon DEF UpdateStore, ForgetReference

\* A call begins, with at least one reference, while containerd and the store are as they were or
\* changed as an event tells.
LEMMA CallBegins ==
    ASSUME ImageConstants, ImageInv, NEW p \in Callers, at[p] = "idle",
           NEW rs \in Seq(Refs), rs # <<>>, NEW step, NEW x, Begin(p, step, rs, x),
           step = "delete" \/ (step = "create" /\ x \in Contents),
           UNCHANGED <<refCache, imageRefs, serving, toCheck, subject, skipped>>,
           UNCHANGED <<ctrImages, imageEvents>> \/ \E r : Publishes(r)
    PROVE  ImageInv'
<1>1. p \in Procs /\ p # Handler
  BY Zenon DEF Procs, ImageConstants
<1>2. OnlyOf(p) /\ at'[p] = step /\ refs'[p] = rs /\ target'[p] = x
  BY <1>1, Progress
<1>3. /\ ctrImages' \in [Refs -> [id : Contents \cup {NoID}, managed : BOOLEAN]]
      /\ \A s \in Refs : ctrImages'[s] # NoImage => ctrImages'[s].id \in Contents
      /\ imageEvents' \subseteq Refs /\ imageEvents \subseteq imageEvents'
      /\ \A s \in Refs : refCache'[s] # ctrImages'[s].id =>
            s \in imageEvents' \/ refCache[s] # ctrImages[s].id
  <2>1. CASE UNCHANGED <<ctrImages, imageEvents>>
    BY <2>1, Zenon DEF ImageInv, ImageType
  <2>2. CASE \E r : Publishes(r)
    BY <2>2, Publishing, Zenon DEF Publishes
  <2> QED BY <2>1, <2>2, Zenon
<1>4. ImageType'
  BY <1>2, <1>3 DEF ImageInv, ImageType, OnlyOf
<1>5. RefsLeft'
  BY <1>2, Zenon DEF ImageInv, RefsLeft, OnlyOf
<1>6. HandlerLeft' /\ \A r \in Refs : WillCatchUp(r) => WillCatchUp(r)'
  BY <1>1, <1>2, <1>3, Zenon DEF ImageInv, HandlerLeft, WillCatchUp, OnlyOf, Procs
<1>7. Missing'
  BY <1>3, <1>6, Zenon DEF ImageInv, Missing, WillCatchUp
<1>8. ImageIndexed'
  BY Zenon DEF ImageInv, ImageIndexed
<1> QED BY <1>4, <1>5, <1>6, <1>7, <1>8 DEF ImageInv

\* Short lists are sequences that are not empty.
LEMMA ShortLists ==
    ASSUME NEW S, NEW a \in S, NEW b \in S, NEW c \in S
    PROVE  <<a, b>> \in Seq(S) /\ <<a, b>> # <<>> /\ <<a, b, c>> \in Seq(S) /\ <<a, b, c>> # <<>>
OBVIOUS

\* PullImage begins with the tag, the id and the digest of the image,
LEMMA PullStep ==
    ASSUME ImageConstants, ImageInv, NEW p \in Callers, PullImage(p)
    PROVE  ImageInv'
<1>1. PICK t \in Tags, x \in Contents :
         SetImage(t, Image(x)) /\ Begin(p, "create", PullRefs(t, x), x)
  BY Zenon DEF PullImage
<1>2. at[p] = "idle" /\ UNCHANGED <<refCache, imageRefs, serving, toCheck, subject, skipped>>
  BY Zenon DEF PullImage, store
<1>3. Publishes(t)
  BY <1>1, <1>2, Zenon DEF Publishes, SetImage, Image, Refs
<1>4. PullRefs(t, x) \in Seq(Refs) /\ PullRefs(t, x) # <<>>
  <2>1. t \in Refs /\ x \in Refs /\ (RepoDigest[x] # "" => RepoDigest[x] \in Refs)
    BY Zenon DEF Refs, Digests
  <2>2. CASE RepoDigest[x] = ""
    <3>1. PullRefs(t, x) = <<x, t>>
      BY <2>2, Zenon DEF PullRefs
    <3>2. <<x, t>> \in Seq(Refs) /\ <<x, t>> # <<>>
      BY <2>1, ShortLists, Zenon
    <3> QED BY <3>1, <3>2, Zenon
  <2>3. CASE RepoDigest[x] # ""
    <3>1. PullRefs(t, x) = <<x, t, RepoDigest[x]>>
      BY <2>3, Zenon DEF PullRefs
    <3>2. RepoDigest[x] \in Refs
      BY <2>1, <2>3, Zenon
    <3>3. <<x, t, RepoDigest[x]>> \in Seq(Refs) /\ <<x, t, RepoDigest[x]>> # <<>>
      BY <2>1, <3>2, ShortLists, Zenon
    <3> QED BY <3>1, <3>3, Zenon
  <2> QED BY <2>2, <2>3, Zenon
<1> QED BY <1>1, <1>2, <1>3, <1>4, CallBegins


\* updateImage takes the reference at hand.
LEMMA HandlerBegins ==
    ASSUME ImageConstants, ImageInv, NEW r \in Refs, at[Handler] = "idle", updateImage(r),
           UNCHANGED <<ctrImages, refCache, imageRefs, serving, skipped>>,
           imageEvents' \in {imageEvents, imageEvents \ {r}}, toCheck' \in {toCheck, toCheck \ {r}}
    PROVE  ImageInv'
<1>1. Handler \in Procs /\ subject' = r
  BY Zenon DEF Procs, updateImage
<1>2. /\ OnlyOf(Handler)
      /\ \/ at'[Handler] = "store" /\ refs'[Handler] = <<r>>
         \/ /\ at'[Handler] = "create" /\ refs'[Handler] = <<ctrImages[r].id, r>>
            /\ target'[Handler] = ctrImages[r].id /\ ctrImages[r].id \in Contents
  <2>1. CASE ctrImages[r] = NoImage \/ ctrImages[r].managed
    <3>1. Begin(Handler, "store", <<r>>, ctrImages[r].id)
      BY <2>1, Zenon DEF updateImage
    <3> QED BY <1>1, <3>1, Progress, ZenonT(60)
  <2>2. CASE ~(ctrImages[r] = NoImage \/ ctrImages[r].managed)
    <3>1. Begin(Handler, "create", <<ctrImages[r].id, r>>, ctrImages[r].id)
      BY <2>2, Zenon DEF updateImage
    <3>2. ctrImages[r].id \in Contents
      BY <2>2, Zenon DEF ImageInv, ImageType
    <3>3. /\ OnlyOf(Handler) /\ at'[Handler] = "create" /\ refs'[Handler] = <<ctrImages[r].id, r>>
          /\ target'[Handler] = ctrImages[r].id
      <4> DEFINE two == <<ctrImages[r].id, r>>
      <4>1. Begin(Handler, "create", two, ctrImages[r].id)
        BY <3>1, Zenon
      <4> HIDE DEF two
      <4>2. OnlyOf(Handler) /\ at'[Handler] = "create" /\ refs'[Handler] = two /\ target'[Handler] = ctrImages[r].id
        BY <1>1, <4>1, Progress, Zenon
      <4> QED BY <4>2, Zenon DEF two
    <3> QED BY <3>2, <3>3, Zenon
  <2> QED BY <2>1, <2>2, Zenon
<1>3. ImageType'
  BY <1>2, Zenon DEF ImageInv, ImageType, OnlyOf
<1>4. RefsLeft'
  <2>1. /\ <<r>> \in Seq(Refs) /\ <<r>> # <<>> /\ Len(<<r>>) = 1
        /\ \A x \in Contents : <<x, r>> \in Seq(Refs) /\ <<x, r>> # <<>>
    BY DEF Refs
  <2> QED BY <1>2, <2>1, Zenon DEF ImageInv, RefsLeft, OnlyOf
<1>5. HandlerLeft'
  BY <1>1, <1>2, Zenon DEF HandlerLeft
<1>6. Missing'
  BY <1>1, <1>2, Zenon DEF ImageInv, Missing, WillCatchUp
<1>7. ImageIndexed'
  BY Zenon DEF ImageInv, ImageIndexed
<1> QED BY <1>3, <1>4, <1>5, <1>6, <1>7 DEF ImageInv

\* The steps of the event loop and of loadImages that are no updateImage, a restart, and the
\* changes of other clients.
LEMMA LoadStep ==
    ASSUME ImageConstants, ImageInv, loadImages \/ ImagesLoaded \/ HandleImageEvent
    PROVE  ImageInv'
<1>1. CASE \E r \in toCheck : /\ toCheck' = toCheck \ {r} /\ updateImage(r)
                              /\ UNCHANGED <<ctrImages, refCache, imageRefs, serving, skipped, imageEvents>>
                              /\ at[Handler] = "idle"
  BY <1>1, HandlerBegins, ZenonT(60) DEF ImageInv, ImageType
<1>2. CASE \E r \in imageEvents : /\ imageEvents' = imageEvents \ {r} /\ updateImage(r)
                                  /\ UNCHANGED <<ctrImages, refCache, imageRefs, serving, skipped, toCheck>>
                                  /\ at[Handler] = "idle"
  BY <1>2, HandlerBegins, ZenonT(60) DEF ImageInv, ImageType
<1>3. CASE /\ \E r \in toCheck : toCheck' = toCheck \ {r} /\ skipped' = skipped \cup {r}
           /\ UNCHANGED <<ctrImages, refCache, imageRefs, imageEvents, serving, at, refs, target, subject>>
  BY <1>3, Zenon DEF ImageInv, ImageType, RefsLeft, HandlerLeft, Missing, WillCatchUp, ImageIndexed
<1>4. CASE /\ toCheck = {} /\ UNCHANGED <<ctrImages, refCache, imageRefs, imageEvents, toCheck, skipped>>
           /\ UNCHANGED <<at, refs, target, subject>>
  BY <1>4, Zenon DEF ImageInv, ImageType, RefsLeft, HandlerLeft, Missing, WillCatchUp, ImageIndexed
<1> QED BY <1>1, <1>2, <1>3, <1>4, Zenon
        DEF loadImages, ImagesLoaded, HandleImageEvent, store, procs

\* A restart empties the store and loads it again.
LEMMA ImageRestartStep ==
    ASSUME ImageConstants, ImageInv, ImageRestart
    PROVE  ImageInv'
<1>1. /\ refCache' = [r \in Refs |-> NoID] /\ imageRefs' = [x \in Contents |-> {}]
      /\ at' = [p \in Procs |-> "idle"] /\ refs' = [p \in Procs |-> <<>>]
      /\ target' = [p \in Procs |-> NoID] /\ ~serving' /\ imageEvents' = {} /\ skipped' = {}
      /\ toCheck' = {r \in Refs : ctrImages[r] # NoImage} /\ ctrImages' = ctrImages
  BY Zenon DEF ImageRestart
<1>2. ImageType' /\ HandlerLeft'
  BY <1>1, Zenon DEF ImageInv, ImageType, HandlerLeft, Procs
<1>3. RefsLeft'
  <2>1. <<>> \in Seq(Refs)
    OBVIOUS
  <2> QED BY <1>1, <2>1 DEF RefsLeft
<1>4. Missing'
  BY <1>1 DEF Missing, WillCatchUp, NoImage
<1>5. ImageIndexed'
  BY <1>1, Zenon DEF ImageIndexed, ImageConstants
<1> QED BY <1>2, <1>3, <1>4, <1>5 DEF ImageInv

\* Others change the images of containerd.
LEMMA OutsideStep ==
    ASSUME ImageConstants, ImageInv, OutsideChanges
    PROVE  ImageInv'
<1>1. PICK r : Publishes(r)
  BY Zenon DEF OutsideChanges, SetImage, store, Publishes, Refs
<1>2. UNCHANGED <<refCache, imageRefs, serving, toCheck, at, refs, target, subject, skipped>>
  BY Zenon DEF OutsideChanges, store, procs
<1>3. imageEvents \subseteq imageEvents'
  BY <1>1, Zenon DEF Publishes
<1>4. ImageType' /\ Missing'
  BY <1>1, <1>2, <1>3, Publishing DEF ImageInv, ImageType, Missing, WillCatchUp
<1>5. RefsLeft' /\ HandlerLeft' /\ ImageIndexed'
  BY <1>2, Zenon DEF ImageInv, RefsLeft, HandlerLeft, ImageIndexed
<1> QED BY <1>4, <1>5 DEF ImageInv

-----------------------------------------------------------------------------
(* The label store, which counts; finite sets and their cardinality are first needed here. *)

INSTANCE FiniteSetTheorems

CONSTANTS
    Sandboxes, Containers, Levels, MaxLabelRestarts

VARIABLES
    levels, mcsList, creation, level, labelRestarts

INSTANCE Labels

\* The stored objects that have a level, and what the counts are about.
Users(l) == {o \in Stored : level[o] = l}

UsersCounted == \A l \in Levels : levels[l] = Cardinality(Users(l))
Counted ==
    /\ levels \in [Levels -> Nat]
    /\ creation \in [Labelled -> {"new", "labelled", "stored", "gone"}]
    /\ level \in [Labelled -> Levels \cup {NoLevel}]
    /\ UsersCounted

\* The users of a level are finitely many, so that they can be counted.
LEMMA UsersFinite ==
    ASSUME IsFiniteSet(Labelled), NEW l
    PROVE  IsFiniteSet(Users(l)) /\ Cardinality(Users(l)) \in Nat
<1>1. Users(l) \subseteq Labelled
  BY Zenon DEF Users, Stored
<1> QED BY <1>1, FS_Subset, FS_CardinalityType, Zenon

\* A step that changes no user of any level keeps the counts.
LEMMA SameUsers ==
    ASSUME Counted, levels' = levels, \A l \in Levels : Users(l)' = Users(l)
    PROVE  UsersCounted'
BY Zenon DEF Counted, UsersCounted, Users

\* InitLabels (label.go of the library) labels an object that is not stored.
LEMMA LabelInitStep ==
    ASSUME Counted, NEW o \in Labelled, creation[o] = "new", Enter(o, "labelled"),
           NEW l \in Levels \cup {NoLevel}, level' = [level EXCEPT ![o] = l], levels' = levels
    PROVE  Counted'
<1>1. \A m \in Levels : Users(m)' = Users(m)
  BY Zenon DEF Counted, Users, Stored, Enter
<1>2. UsersCounted'
  BY <1>1, SameUsers, Zenon
<1> QED BY <1>2, Zenon DEF Counted, Enter

\* A creation that fails was not stored, and does not go through the store.
LEMMA LabelFailsStep ==
    ASSUME Counted, NEW o \in Labelled, NEW p \in BOOLEAN, CreationFails(o, p)
    PROVE  Counted'
<1>1. \A m \in Levels : Users(m)' = Users(m)
  BY Zenon DEF CreationFails, Counted, Users, Stored, Enter
<1>2. UsersCounted'
  BY <1>1, SameUsers, Zenon DEF CreationFails
<1> QED BY <1>2, Zenon DEF CreationFails, Counted, Enter

\* Add counts the level of the new object once, and no other level.
LEMMA LabelAddStep ==
    ASSUME IsFiniteSet(Labelled), NoLevel \notin Levels, Counted, NEW o \in Labelled, StoreAdd(o)
    PROVE  Counted'
<1>1. creation[o] = "labelled" /\ creation' = [creation EXCEPT ![o] = "stored"] /\ level' = level
  BY Zenon DEF StoreAdd, Enter
<1>2. ASSUME NEW m \in Levels PROVE levels'[m] = Cardinality(Users(m)')
  <2>1. IsFiniteSet(Users(m)) /\ levels[m] = Cardinality(Users(m)) /\ o \notin Users(m)
    BY <1>1, UsersFinite, Zenon DEF Counted, UsersCounted, Users, Stored
  <2>2. CASE level[o] = m
    <3>1. Users(m)' = Users(m) \cup {o}
      BY <1>1, <2>2, Zenon DEF Counted, Users, Stored
    <3>2. Cardinality(Users(m) \cup {o}) = Cardinality(Users(m)) + 1
      BY <2>1, FS_AddElement, Zenon
    <3>3. levels'[m] = levels[m] + 1
      BY <2>2, Zenon DEF StoreAdd, ReserveLevel, Counted
    <3> QED BY <2>1, <3>1, <3>2, <3>3, Zenon
  <2>3. CASE level[o] # m
    <3>1. Users(m)' = Users(m)
      BY <1>1, <2>3, Zenon DEF Counted, Users, Stored
    <3>2. levels'[m] = levels[m]
      BY <2>3, Zenon DEF StoreAdd, ReserveLevel, Counted
    <3> QED BY <2>1, <3>1, <3>2, Zenon
  <2> QED BY <2>2, <2>3, Zenon
<1>3. levels' \in [Levels -> Nat]
  BY DEF StoreAdd, ReserveLevel, Counted
<1> QED BY <1>1, <1>2, <1>3, Zenon DEF Counted, UsersCounted, Users

\* Delete gives back the level of the object once; the count is not 0, so Release does not skip it.
LEMMA LabelDeleteStep ==
    ASSUME IsFiniteSet(Labelled), NoLevel \notin Levels, Counted, NEW o \in Labelled, StoreDelete(o)
    PROVE  Counted'
<1>1. creation[o] = "stored" /\ creation' = [creation EXCEPT ![o] = "gone"] /\ level' = level
  BY Zenon DEF StoreDelete, Enter, Stored
<1>2. ASSUME NEW m \in Levels PROVE levels'[m] = Cardinality(Users(m)') /\ levels'[m] \in Nat
  <2>1. IsFiniteSet(Users(m)) /\ levels[m] = Cardinality(Users(m)) /\ levels[m] \in Nat
    BY UsersFinite, ZenonT(60) DEF Counted, UsersCounted, Users
  <2>2. CASE level[o] = m
    <3>1. o \in Users(m) /\ Users(m)' = Users(m) \ {o}
      BY <1>1, <2>2, Zenon DEF Counted, Users, Stored
    <3>2. Cardinality(Users(m) \ {o}) = Cardinality(Users(m)) - 1
      BY <2>1, <3>1, FS_RemoveElement, Zenon
    <3>3. levels[m] # 0
      BY <2>1, <3>1, FS_EmptySet, Zenon
    <3>4. levels'[m] = levels[m] - 1
      BY <2>2, <3>3, Zenon DEF StoreDelete, Release, Counted
    <3> QED BY <2>1, <3>1, <3>2, <3>3, <3>4, SMTT(60)
  <2>3. CASE level[o] # m
    <3>1. Users(m)' = Users(m)
      BY <1>1, <2>3, Zenon DEF Counted, Users, Stored
    <3>2. levels'[m] = levels[m]
      BY <2>3, Zenon DEF StoreDelete, Release, Counted
    <3> QED BY <2>1, <3>1, <3>2, Zenon
  <2> QED BY <2>2, <2>3, Zenon
<1>3. levels' \in [Levels -> Nat]
  BY <1>2, Zenon DEF StoreDelete, Release, Counted
<1> QED BY <1>1, <1>2, <1>3, Zenon DEF Counted, UsersCounted, Users

\* Recovery counts what it adds.
LEMMA LabelRestartStep ==
    ASSUME IsFiniteSet(Labelled), Counted, LabelRestart
    PROVE  Counted'
<1>1. PICK found \in SUBSET {o \in Labelled : creation[o] = "labelled"} :
         /\ creation' = [o \in Labelled |-> IF o \in Stored \cup found THEN "stored"
                                          ELSE IF creation[o] = "new" THEN "new" ELSE "gone"]
         /\ levels' = [l \in Levels |-> Cardinality({o \in Stored \cup found : level[o] = l})]
  BY Zenon DEF LabelRestart
<1>2. /\ level' = level
      /\ levels' = [l \in Levels |-> Cardinality({o \in Stored \cup found : level[o] = l})]
  BY <1>1, Zenon DEF LabelRestart
<1>3. ASSUME NEW l \in Levels
      PROVE  Users(l)' = {o \in Stored \cup found : level[o] = l}
  BY <1>1, <1>2, Zenon DEF Users, Stored
<1>4. UsersCounted'
  BY <1>2, <1>3, Zenon DEF UsersCounted, Users
<1>5. levels' \in [Levels -> Nat]
  <2>1. ASSUME NEW l \in Levels PROVE Cardinality({o \in Stored \cup found : level[o] = l}) \in Nat
    <3>1. {o \in Stored \cup found : level[o] = l} \subseteq Labelled
      BY Zenon DEF Stored
    <3> QED BY <3>1, FS_Subset, FS_CardinalityType, Zenon
  <2> QED BY <1>2, <2>1, Zenon
<1> QED BY <1>1, <1>2, <1>4, <1>5, Zenon DEF Counted

\* The other types: the levels in use are levels, and restarts are bounded.
LabelRest == mcsList \subseteq Levels /\ labelRestarts \in 0 .. MaxLabelRestarts

\* Every step keeps the types and the bound on restarts.
LEMMA LabelRestKept ==
    ASSUME MaxLabelRestarts \in Nat, Counted, LabelRest, [LabelNext]_labelVars
    PROVE  LabelRest'
<1>1. CASE LabelRestart
  <2>1. labelRestarts' \in 0 .. MaxLabelRestarts
    BY <1>1 DEF LabelRestart, LabelRest
  <2>2. mcsList' \subseteq Levels
    <3>1. PICK found \in SUBSET {o \in Labelled : creation[o] = "labelled"} :
             mcsList' = {level[o] : o \in Stored \cup found} \ {NoLevel}
      BY <1>1, Zenon DEF LabelRestart
    <3>2. \A o \in Stored \cup found : level[o] \in Levels \cup {NoLevel}
      BY Zenon DEF Counted, Stored
    <3> QED BY <3>1, <3>2, Zenon
  <2> QED BY <2>1, <2>2, ZenonT(60) DEF LabelRest
<1>2. ASSUME NEW option \in Levels \cup {NoLevel}, NEW s \in Sandboxes, RunInitLabels(s, option)
      PROVE  LabelRest'
  BY <1>2, Zenon DEF RunInitLabels, InitLabels, LabelRest
<1>3. ASSUME NEW option \in Levels \cup {NoLevel}, NEW c \in Containers, NEW s \in Sandboxes,
             CreateInitLabels(c, s, option)
      PROVE  LabelRest'
  <2>1. level[s] \in Levels \cup {NoLevel}
    BY Zenon DEF Counted, Labelled
  <2> QED BY <1>3, <2>1, Zenon DEF CreateInitLabels, InitLabels, LabelRest
<1>4. ASSUME NEW o \in Labelled, StoreAdd(o) PROVE LabelRest'
  <2>1. level[o] \in Levels \cup {NoLevel}
    BY Zenon DEF Counted
  <2> QED BY <1>4, <2>1, Zenon DEF StoreAdd, ReserveLevel, LabelRest
<1>5. ASSUME NEW o \in Labelled, StoreDelete(o) PROVE LabelRest'
  BY <1>5, Zenon DEF StoreDelete, Release, LabelRest
<1>6. ASSUME NEW o \in Labelled, NEW privileged \in BOOLEAN, CreationFails(o, privileged)
      PROVE  LabelRest'
  BY <1>6, Zenon DEF CreationFails, LabelRest
<1>7. CASE UNCHANGED labelVars
  BY <1>7, Zenon DEF labelVars, LabelRest
<1> QED BY <1>1, <1>2, <1>3, <1>4, <1>5, <1>6, <1>7, Zenon DEF LabelNext

\* The count of every level is the number of its stored users (label.go), for any finite number
\* of sandboxes and containers and any number of restarts.
THEOREM LevelsAreCounted ==
    ASSUME IsFiniteSet(Labelled), NoLevel \notin Levels, MaxLabelRestarts \in Nat
    PROVE  LabelSpec => []LevelsCounted
<1>1. LabelInit => Counted
  <2> SUFFICES ASSUME LabelInit PROVE Counted
    BY Zenon
  <2>1. ASSUME NEW l \in Levels PROVE Cardinality(Users(l)) = 0
    <3>1. Users(l) = {}
      BY Zenon DEF LabelInit, Users, Stored
    <3> QED BY <3>1, FS_EmptySet, Zenon
  <2> QED BY <2>1, Zenon DEF LabelInit, Counted, UsersCounted, Users
<1>2. Counted /\ [LabelNext]_(labelVars) => Counted'
  <2> SUFFICES ASSUME Counted, [LabelNext]_(labelVars) PROVE Counted'
    BY Zenon
  <2>1. CASE UNCHANGED labelVars
    BY <2>1, Zenon DEF labelVars, Counted, UsersCounted, Users, Stored
  <2>2. ASSUME NEW option \in Levels \cup {NoLevel}, NEW s \in Sandboxes, RunInitLabels(s, option)
        PROVE  Counted'
    <3>1. PICK l \in Levels \cup {NoLevel} : level' = [level EXCEPT ![s] = l]
      BY <2>2, Zenon DEF RunInitLabels, InitLabels
    <3> QED BY <2>2, <3>1, LabelInitStep, Zenon DEF RunInitLabels, Labelled
  <2>3. ASSUME NEW option \in Levels \cup {NoLevel}, NEW c \in Containers, NEW s \in Sandboxes,
               CreateInitLabels(c, s, option)
        PROVE  Counted'
    <3>1. level[s] \in Levels \cup {NoLevel}
      BY Zenon DEF Counted, Labelled
    <3>2. PICK l \in Levels \cup {NoLevel} : level' = [level EXCEPT ![c] = l]
      BY <2>3, <3>1, Zenon DEF CreateInitLabels, InitLabels
    <3> QED BY <2>3, <3>2, LabelInitStep, Zenon DEF CreateInitLabels, Labelled
  <2> QED BY <2>1, <2>2, <2>3, LabelRestartStep, LabelAddStep, LabelDeleteStep, LabelFailsStep, SMTT(60) DEF LabelNext
<1>3. LabelInit => LabelRest
  BY DEF LabelInit, LabelRest
<1>4. Counted /\ LabelRest /\ [LabelNext]_labelVars => LabelRest'
  BY LabelRestKept
<1>5. Counted /\ LabelRest => LevelsCounted
  BY Zenon DEF Counted, LabelRest, UsersCounted, Users, LabelTypeOK, LevelsCounted
<1> QED BY <1>1, <1>2, <1>3, <1>4, <1>5, PTL DEF LabelSpec

-----------------------------------------------------------------------------
(* The image store: RemoveImage, whose list of references is as long as they are many *)

\* RemoveImage with the references of the image, which has some.
LEMMA RemoveStep ==
    ASSUME ImageConstants, ImageInv, NEW p \in Callers, RemoveImage(p)
    PROVE  ImageInv'
<1>1. PICK r \in Refs : /\ Exists(localResolve(r))
                        /\ \E rs \in Lists(imageRefs[localResolve(r)]) : Begin(p, "delete", rs, NoID)
  BY Zenon DEF RemoveImage
<1> DEFINE x == localResolve(r)
<1>2. PICK rs \in Lists(imageRefs[x]) : Begin(p, "delete", rs, NoID)
  BY <1>1, Zenon
<1>3. x \in Contents /\ imageRefs[x] # {} /\ imageRefs[x] \subseteq Refs
  BY <1>1, Zenon DEF localResolve, Exists, ImageInv, ImageType
<1>4. rs \in Seq(Refs) /\ rs # <<>>
  <2>1. IsFiniteSet(imageRefs[x])
    BY <1>3, FS_Subset, Zenon DEF ImageConstants
  <2>2. Cardinality(imageRefs[x]) \in Nat \ {0}
    BY <1>3, <2>1, FS_CardinalityType, FS_EmptySet, Zenon
  <2>3. rs \in [1 .. Cardinality(imageRefs[x]) -> imageRefs[x]]
    BY <1>2, Zenon DEF Lists, Bijection, Injection
  <2>4. rs \in Seq(Refs) /\ Len(rs) = Cardinality(imageRefs[x])
    BY <1>3, <2>2, <2>3
  <2> QED BY <2>2, <2>4, Len(<<>>) = 0, Zenon
<1>5. /\ at[p] = "idle" /\ UNCHANGED <<refCache, imageRefs, serving, toCheck, subject, skipped>>
      /\ UNCHANGED <<ctrImages, imageEvents>>
  BY Zenon DEF RemoveImage, store, Untouched
<1> QED BY <1>2, <1>4, <1>5, CallBegins, SMTT(60)

\* The image store is consistent, and once nothing is going on and no event is pending it holds
\* what containerd holds, however pulls, removals, image events, changes of other clients,
\* failures and restarts overlap (Store.Update, PullImage, RemoveImage, updateImage, loadImages).
THEOREM ImagesDoCatchUp ==
    ASSUME ImageConstants
    PROVE  ImageSpec => []ImagesCatchUp
<1>1. ImageInit => ImageInv
  <2> SUFFICES ASSUME ImageInit PROVE ImageInv
    BY Zenon
  <2>1. /\ ctrImages \in [Refs -> [id : Contents \cup {NoID}, managed : BOOLEAN]]
        /\ \A r \in Refs : ctrImages[r] # NoImage => ctrImages[r].id \in Contents
    <3>1. NoImage \in [id : Contents \cup {NoID}, managed : BOOLEAN]
      BY Zenon DEF NoImage
    <3>2. CASE ctrImages = [r \in Refs |-> NoImage]
      BY <3>1, <3>2, Zenon
    <3>3. ASSUME NEW t \in Tags, NEW x \in Contents, NEW managed \in BOOLEAN,
                 ctrImages = [r \in Refs |-> IF r = t THEN [id |-> x, managed |-> managed]
                                              ELSE IF managed /\ r = x THEN Image(x) ELSE NoImage]
          PROVE  <2>1
      <4>1. /\ [id |-> x, managed |-> managed] \in [id : Contents \cup {NoID}, managed : BOOLEAN]
            /\ Image(x) \in [id : Contents \cup {NoID}, managed : BOOLEAN] /\ Image(x).id = x
        BY Zenon DEF Image
      <4>2. ASSUME NEW r \in Refs
            PROVE  /\ ctrImages[r] \in [id : Contents \cup {NoID}, managed : BOOLEAN]
                   /\ ctrImages[r] # NoImage => ctrImages[r].id \in Contents
        BY <3>1, <3>3, <4>1
      <4> QED BY <3>3, <4>2, Zenon
    <3> QED BY <3>2, <3>3, Zenon DEF ImageInit
  <2>2. ImageType /\ HandlerLeft
    BY <2>1, Zenon DEF ImageInit, ImageType, HandlerLeft, Procs
  <2>3. RefsLeft
    <3>1. <<>> \in Seq(Refs)
      OBVIOUS
    <3> QED BY <3>1, Zenon DEF ImageInit, RefsLeft
  <2>4. Missing
    BY DEF ImageInit, Missing, WillCatchUp, NoImage
  <2>5. ImageIndexed
    BY Zenon DEF ImageInit, ImageIndexed, ImageConstants
  <2> QED BY <2>2, <2>3, <2>4, <2>5, SMTT(60) DEF ImageInv
<1>2. ImageInv /\ [ImageNext]_(imageVars) => ImageInv'
  <2> SUFFICES ASSUME ImageInv, [ImageNext]_(imageVars) PROVE ImageInv'
    BY Zenon
  <2>1. CASE UNCHANGED imageVars
    BY <2>1, Zenon
    DEF imageVars, store, procs, ImageInv, ImageType, RefsLeft, HandlerLeft, Missing, WillCatchUp, ImageIndexed
  <2>2. CASE ImageNext
    <3>1. Callers \subseteq Procs
      BY Zenon DEF Procs
    <3> QED BY <2>2, <3>1, PullStep, RemoveStep, DeleteStep, UpdateStep, ReferenceStep, LoadStep, ImageRestartStep,
               OutsideStep, SMTT(60)
            DEF ImageNext
  <2> QED BY <2>1, <2>2, Zenon
<1>3. ImageInv => ImagesCatchUp
  <2> SUFFICES ASSUME ImageInv PROVE ImagesCatchUp
    BY Zenon
  <2>1. ImageTypeOK
    BY Zenon DEF ImageInv, ImageType, RefsLeft, ImageTypeOK
  <2>2. StoreCatchesUp
    BY Zenon DEF ImageInv, Missing, WillCatchUp, StoreCatchesUp, Procs
  <2> QED BY <2>1, <2>2, Zenon DEF ImageInv, ImagesCatchUp
<1> QED BY <1>1, <1>2, <1>3, PTL DEF ImageSpec

=============================================================================
