----------------------------- MODULE Snapshots -----------------------------
(***************************************************************************)
(* The snapshots syncer (snapshots.go) and the store it fills              *)
(* (store/snapshot/snapshot.go): a mark and sweep over the snapshots of    *)
(* containerd, where the mark is the wall clock at which an entry was      *)
(* last seen.  Snapshots come and go while a sync is under way, reading    *)
(* the usage of one may fail, and the wall clock may be stepped back.      *)
(* ImageFsInfo (imagefs_info.go) and ListContainerStats read the store.    *)
(***************************************************************************)
EXTENDS Integers, Functions

CONSTANTS
    Keys,                \* names of snapshots
    MaxTime,             \* bound on the wall clock
    MaxSnapshotFaults,   \* bound on calls of the snapshotter that fail
    MaxStepsBack         \* bound on steps back of the wall clock

VARIABLES
    snapshots,     \* containerd: the kind of each snapshot there is
    clock,         \* time.Now().UnixNano()
    stats,         \* Store.snapshots: key -> kind, time of last update
    sync,          \* what the goroutine of start does: "tick", "walk", "update"
    start,         \* start of the current sync
    walked,        \* what Walk collected
    pending,       \* the collected snapshots still to update
    missed,        \* history: the collected snapshots whose usage could not be read
    outcome,       \* history: what the last sync was: "none", "failed", "done"
    snapshotFaults, stepsBack

snapVars == <<snapshots, clock, stats, sync, start, walked, pending, missed, outcome,
              snapshotFaults, stepsBack>>

Kinds == {"active", "committed"}
Partial(f, S, T) == DOMAIN f \subseteq S /\ f \in [DOMAIN f -> T]
Empty == [k \in {} |-> "active"]

SnapshotTypeOK ==
    /\ Partial(snapshots, Keys, Kinds) /\ Partial(walked, Keys, Kinds)
    /\ clock \in 0..MaxTime /\ start \in 0..MaxTime
    /\ DOMAIN stats \subseteq Keys
    /\ \A k \in DOMAIN stats : stats[k].kind \in Kinds /\ stats[k].timestamp \in 0..MaxTime
    /\ sync \in {"tick", "walk", "update"}
    /\ pending \subseteq DOMAIN walked /\ missed \subseteq DOMAIN walked
    /\ outcome \in {"none", "failed", "done"}
    /\ snapshotFaults \in 0..MaxSnapshotFaults /\ stepsBack \in 0..MaxStepsBack

SnapshotInit ==
    /\ snapshots = Empty /\ clock = 0 /\ stats = Empty
    /\ sync = "tick" /\ start = 0
    /\ walked = Empty /\ pending = {} /\ missed = {} /\ outcome = "none"
    /\ snapshotFaults = 0 /\ stepsBack = 0

SnapshotFails == snapshotFaults < MaxSnapshotFaults /\ snapshotFaults' = snapshotFaults + 1
Works == snapshotFaults' = snapshotFaults

----------------------------------------------------------------------------
(* sync *)

(* The ticker of start fires.  The clock counts nanoseconds: unless it is stepped
   back, it has advanced since the last update of the sync before. *)
SyncStart ==
    /\ sync = "tick"
    /\ stepsBack > 0 \/ \A k \in DOMAIN stats : stats[k].timestamp < clock
    /\ sync' = "walk" /\ start' = clock
    /\ UNCHANGED <<snapshots, clock, stats, walked, pending, missed, outcome,
                   snapshotFaults, stepsBack>>

SyncWalk ==
    /\ sync = "walk"
    /\ \/ /\ Works
          /\ sync' = "update" /\ outcome' = "none"
          /\ walked' = snapshots /\ pending' = DOMAIN snapshots /\ missed' = {}
       \/ /\ SnapshotFails
          /\ sync' = "tick" /\ outcome' = "failed"
          /\ UNCHANGED <<walked, pending, missed>>
    /\ UNCHANGED <<snapshots, clock, stats, start, stepsBack>>

Put(k, kind) ==
    stats' = [j \in DOMAIN stats \cup {k} |->
                 IF j = k THEN [kind |-> kind, timestamp |-> clock] ELSE stats[j]]

(* An entry of a snapshot that cannot change any more is only marked. *)
Known(k) == k \in DOMAIN stats /\ stats[k].kind = walked[k] /\ walked[k] # "active"

(* One turn of the loop over the collected snapshots.  Usage of a snapshot that
   has been removed meanwhile is an error, too. *)
SyncUpdate(k) ==
    /\ sync = "update" /\ k \in pending
    /\ pending' = pending \ {k}
    /\ \/ /\ Known(k) \/ k \in DOMAIN snapshots
          /\ Works /\ Put(k, walked[k]) /\ UNCHANGED missed
       \/ /\ ~Known(k) /\ ((k \notin DOMAIN snapshots /\ Works) \/ SnapshotFails)
          /\ missed' = missed \cup {k} /\ UNCHANGED stats
    /\ UNCHANGED <<snapshots, clock, sync, start, walked, outcome, stepsBack>>

(* A bug: an entry updated within the clock reading of the start is swept. *)
SyncSweepEqual ==
    /\ sync = "update" /\ pending = {}
    /\ stats' = Restrict(stats, {k \in DOMAIN stats : stats[k].timestamp > start})
    /\ sync' = "tick" /\ outcome' = "done"
    /\ UNCHANGED <<snapshots, clock, start, walked, pending, missed, snapshotFaults, stepsBack>>

SyncSweep ==
    /\ sync = "update" /\ pending = {}
    /\ stats' = Restrict(stats, {k \in DOMAIN stats : stats[k].timestamp >= start})
    /\ sync' = "tick" /\ outcome' = "done"
    /\ UNCHANGED <<snapshots, clock, start, walked, pending, missed, snapshotFaults, stepsBack>>

----------------------------------------------------------------------------
(* The rest of the system: pulls and container creations add snapshots, garbage
   collection and removals delete them; a name may come back as another kind. *)

Prepare(k, kind) ==
    /\ k \notin DOMAIN snapshots
    /\ snapshots' = [j \in DOMAIN snapshots \cup {k} |-> IF j = k THEN kind ELSE snapshots[j]]
    /\ UNCHANGED <<clock, stats, sync, start, walked, pending, missed, outcome,
                   snapshotFaults, stepsBack>>

RemoveSnapshot(k) ==
    /\ k \in DOMAIN snapshots
    /\ snapshots' = Restrict(snapshots, DOMAIN snapshots \ {k})
    /\ UNCHANGED <<clock, stats, sync, start, walked, pending, missed, outcome,
                   snapshotFaults, stepsBack>>

Tick ==
    /\ \/ clock < MaxTime /\ clock' = clock + 1 /\ UNCHANGED stepsBack
       \/ clock > 0 /\ clock' = clock - 1
          /\ stepsBack < MaxStepsBack /\ stepsBack' = stepsBack + 1
    /\ UNCHANGED <<snapshots, stats, sync, start, walked, pending, missed, outcome,
                   snapshotFaults>>

SnapshotNext ==
    \/ SyncStart \/ SyncWalk \/ SyncSweep \/ Tick
    \/ \E k \in Keys :
          \/ SyncUpdate(k) \/ RemoveSnapshot(k)
          \/ \E kind \in Kinds : Prepare(k, kind)

SnapshotSpec == SnapshotInit /\ [][SnapshotNext]_snapVars

----------------------------------------------------------------------------

(* What ImageFsInfo and ListContainerStats can rely on after a sync that ran
   under a clock that was never stepped back: the store has exactly the
   snapshots that the walk collected and whose usage could be read, each with
   the kind it had then.  Nothing of an earlier sync survives, and nothing
   marked by this one is swept, even when the clock did not advance. *)
SnapshotsSwept ==
    /\ SnapshotTypeOK
    /\ sync = "tick" /\ outcome = "done" /\ stepsBack = 0 =>
           /\ DOMAIN stats = DOMAIN walked \ missed
           /\ \A k \in DOMAIN stats : stats[k].kind = walked[k] /\ stats[k].timestamp >= start
============================================================================
