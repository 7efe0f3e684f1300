------------------------- MODULE PodSandboxProofs --------------------------
(***************************************************************************)
(* The safety properties of PodSandbox hold for any number of concurrent   *)
(* calls, containers of the pod, faults, timeouts and restarts, and the    *)
(* states callers are shown implement PodSandboxStateMachine. The          *)
(* inductive invariant says who may be where (Control), how the end of the *)
(* sandbox container gets from the task to the state (Exits), what a stop  *)
(* has taken away (Stops), what a removal has (Removes), and what is left  *)
(* outside the store (Leaves). For each handler, one operator says what    *)
(* its steps may change, as far as the invariant can tell; each step is    *)
(* shown to be an instance of it, and the operator to preserve the         *)
(* invariant.                                                              *)
(***************************************************************************)
EXTENDS PodSandboxShown, TLAPS

\* RunPodSandbox before the sandbox is in the store, and its defers.
Running == (RunSteps \ {"startMonitor"}) \cup UndoSteps

\* stopPodSandbox after cleanupSandboxFiles, and after stopSandboxContainer.
AfterFiles == ExitSteps \cup {"stopState", "stopRead", "stopTask", "stopWait", "stopKill", "waitStop",
                              "exitCancel", "waitCancel", "netnsClosed", "teardown", "removeNetNS",
                              "stopped"}
AfterTask == {"netnsClosed", "teardown", "removeNetNS", "stopped"} \cup (RemoveSteps \ {"removeState"})

\* RemovePodSandbox after checkNetNS, and after the containers of the pod.
AfterCheck == RemoveSteps \ {"removeState", "checkNetNS"}
AfterCntrs == AfterCheck \ {"removeList", "removeCntr"}

\* The types the proofs rest on.
Types ==
    /\ state \in States /\ monitor \in [Procs -> {"off", "waiting", "sending"}]
    /\ exitCh \in Nat /\ backOff \in Nat /\ batch \in Nat
    /\ DOMAIN pc = Procs /\ seen \in [Threads -> States \cup {"none", "ok", "failed"}]
    /\ todo \in [Threads -> SUBSET Containers] /\ cntr \in [Containers -> CntrStates]

Control ==
    /\ pc[Loop] \in IF up THEN ExitSteps \cup {"idle"} ELSE LoadSteps
    /\ pc[Loop] \in LoadSteps \ {"cleanupOrphans"} => ~inStore /\ ~stopCh
    /\ ~up /\ ~inStore => ~reserved
    /\ \A t \in Threads : pc[t] \notin LoadSteps /\ (~up => pc[t] = "idle")
    /\ up /\ ~inStore /\ cntrd => \A t \in Threads : pc[t] \in Running \cup {"idle"}
    /\ \A t \in Threads : pc[t] \in Running =>
          /\ ~inStore /\ ~stopCh /\ state # "NOTREADY" /\ (pc[t] = "storeAdd" => state = "READY")
          /\ \A p \in Procs : p # t => pc[p] = "idle"
          /\ \A c \in Containers : cntr[c] = "none"
          /\ hostNet => pc[t] \notin {"newNetNS", "setupNetwork", "undoNetwork", "undoNetNS"}

Exits ==
    /\ state = "NOTREADY" => task = "none"
    /\ stopCh => state = "NOTREADY"
    /\ \A p \in Procs : pc[p] \in {"exitUpdate", "exitStop"} => task = "none"
    /\ \A p \in Procs : pc[p] = "exitStop" => state = "NOTREADY"
    /\ pc[Loop] \in ExitSteps => batch > 0
    /\ (inStore \/ ~up) /\ state = "READY" =>
          \/ monitor[Loop] # "off" \/ exitCh + backOff + batch > 0
          \/ \E t \in Threads : pc[t] = "startMonitor"

\* What the stop or the removal of one call has taken away.
Stopped(t) ==
    /\ pc[t] \in AfterFiles => ~shm
    /\ pc[t] \in AfterTask => task = "none" /\ state # "UNKNOWN"
    /\ pc[t] \in {"exitCancel", "waitCancel"} /\ seen[t] = "ok" => task = "none" /\ state # "UNKNOWN"
    /\ pc[t] = "stopTask" /\ seen[t] # "UNKNOWN" => state # "UNKNOWN"
    /\ pc[t] \in {"removeNetNS", "stopped"} => ~network
    /\ pc[t] \in {"stopped"} \cup AfterCheck => netns = "none"

Stops == (hostNet => netns = "none" /\ ~network) /\ \A t \in Threads : Stopped(t)

InUse(c) == cntr[c] \in {"tasked", "running"}

Removed(t) ==
    /\ pc[t] = "removeCntr" => \A c \in Containers : InUse(c) => c \in todo[t]
    /\ pc[t] \in AfterCntrs => \A c \in Containers : ~InUse(c)
    /\ pc[t] \in AfterCntrs \ {"rmRoot"} => ~rootDir
    /\ pc[t] \in {"deleteContainer", "storeDelete", "releaseName"} => ~volatileDir /\ ~shm
    /\ pc[t] \in {"storeDelete", "releaseName"} => ~cntrd

Removes ==
    /\ ~cntrd /\ ~unclean => task = "none" /\ \A c \in Containers : ~InUse(c)
    /\ \A t \in Threads : Removed(t)

\* What RunPodSandbox has not made yet, or has undone without an error.
NotMade(t) ==
    /\ pc[t] \in {"image", "newNetNS", "undoName"} => netns = "none"
    /\ pc[t] = "setupNetwork" => netns = "mounted"
    /\ pc[t] \in {"image", "newNetNS", "setupNetwork", "undoNetNS", "undoName"} => ~network
    /\ pc[t] \in {"image", "newNetNS", "setupNetwork", "newContainer", "undoNetwork", "undoNetNS",
                  "undoName"} => ~cntrd
    /\ pc[t] \in {"mkRoot", "mkVolatile", "setupFiles", "newTask", "startTask"} => cntrd
    /\ pc[t] \in Running \ {"startTask", "setReady", "storeAdd", "undoTask", "undoFiles", "undoVolatile",
                           "undoRoot", "undoContainer"} => task = "none"
    /\ pc[t] \in {"image", "newNetNS", "setupNetwork", "newContainer", "mkRoot", "undoContainer",
                  "undoNetwork", "undoNetNS", "undoName"} => ~rootDir
    /\ pc[t] \in {"image", "newNetNS", "setupNetwork", "newContainer", "mkRoot", "mkVolatile",
                  "undoRoot", "undoContainer", "undoNetwork", "undoNetNS", "undoName"} => ~volatileDir
    /\ pc[t] \in Running \ {"newTask", "startTask", "setReady", "storeAdd", "undoTask", "undoFiles"} =>
          ~shm

Leaves ==
    ~unclean =>
        /\ network => netns = "mounted"
        /\ \A t \in Threads : NotMade(t)
        /\ ~up /\ ~cntrd => netns = "none" /\ ~network
        /\ ~up /\ pc[Loop] = "cleanupOrphans" /\ cntrd => inStore
        /\ up /\ ~inStore /\ (\A t \in Threads : pc[t] \notin Running) =>
              /\ netns = "none" /\ ~network /\ ~cntrd /\ task = "none"
              /\ ~rootDir /\ ~volatileDir /\ ~shm
              /\ reserved => \E t \in Threads : pc[t] = "releaseName"

IInv == Types /\ Control /\ Exits /\ Stops /\ Removes /\ Leaves

-----------------------------------------------------------------------------
(* Steps of the calls that stop and remove *)

\* A call goes from one step to another.  It makes nothing, and may take away; only a removal
\* takes the sandbox out of the store, and then has the name to release.
Calls(t) ==
    /\ up /\ up' /\ hostNet' = hostNet
    /\ pc[t] \notin Running /\ pc'[t] \notin Running \cup LoadSteps
    /\ (\A q \in Procs : q # t => pc'[q] = pc[q])
    /\ (pc[t] = "idle" => inStore) /\ (pc'[t] = "startMonitor" => pc[t] = "startMonitor")
    /\ pc'[t] \notin {"exitUpdate", "exitStop"}
    /\ UNCHANGED <<state, stopCh, exitCh, backOff, batch, unclean>>
    /\ (inStore' => inStore) /\ (inStore => inStore' \/ pc'[t] = "releaseName")
    /\ (reserved' => reserved /\ pc[t] # "releaseName")
    /\ (network' => network) /\ (netns = "none" => netns' = "none")
    /\ (network /\ netns = "mounted" => ~network' \/ netns' = "mounted")
    /\ (cntrd' => cntrd) /\ (task = "none" => task' = "none")
    /\ (rootDir' => rootDir) /\ (volatileDir' => volatileDir) /\ (shm' => shm)
    /\ \A c \in Containers : InUse(c)' => InUse(c)
    /\ \A u \in Threads : u # t => seen'[u] = seen[u] /\ todo'[u] = todo[u]
    /\ monitor'[Loop] # "off" \/ (monitor'[Loop] = monitor[Loop] /\ pc[t] # "startMonitor")
    /\ ~cntrd' /\ ~unclean' => ~cntrd \/ pc[t] = "deleteContainer"

\* Such a step preserves the invariant, if what it claims to have taken away is gone.
LEMMA CallStep ==
    ASSUME Types, Control, Exits, Stops, Removes, Leaves,
           NEW t \in Threads, Calls(t), Stopped(t)', Removed(t)'
    PROVE  Control' /\ Exits' /\ Stops' /\ Removes' /\ Leaves'
<1>1. DOMAIN pc = Procs /\ t \in Procs /\ t # Loop /\ Loop \in Procs
  BY SandboxAssumption, Zenon DEF Types, Procs
<1>2. \A u \in Threads : u \in Procs /\ pc[u] \notin Running /\ pc'[u] \notin Running
  BY <1>1, Zenon DEF Control, Calls, Procs
<1> USE <1>1, <1>2 DEF Calls
<1>3. Control'
  <2>1. ASSUME ~inStore', cntrd' PROVE FALSE
    BY <2>1, Zenon DEF Control, Removed
  <2> QED BY <2>1, Zenon DEF Control
<1>4. Exits'
  BY Zenon DEF Exits
<1>5. Stops'
  BY SMTT(60) DEF Stops, Stopped
<1>6. Removes'
  BY DEF Removes, Removed, Stops, Stopped, AfterTask, AfterCntrs, AfterCheck, RemoveSteps
<1>7. Leaves'
  <2>1. \A u \in Threads : NotMade(u)'
    BY ZenonT(60) DEF NotMade, Running, RunSteps, UndoSteps
  <2>2. ASSUME ~unclean PROVE network' => netns' = "mounted"
    BY <2>2, Zenon DEF Leaves
  <2>3. ASSUME ~unclean', ~inStore'
        PROVE  /\ netns' = "none" /\ ~network' /\ ~cntrd' /\ task' = "none"
               /\ ~rootDir' /\ ~volatileDir' /\ ~shm'
    <3>1. CASE inStore
      BY <2>2, <2>3, <3>1, Zenon DEF Stopped, Removed, AfterTask, AfterCntrs, AfterCheck, RemoveSteps
    <3>2. CASE ~inStore
      BY <2>3, <3>2, Zenon DEF Leaves
    <3> QED BY <3>1, <3>2, Zenon
  <2>4. ASSUME ~unclean', ~inStore', reserved' PROVE \E u \in Threads : pc'[u] = "releaseName"
    BY <2>4, Zenon DEF Leaves
  <2> QED BY <2>1, <2>2, <2>3, <2>4, Zenon DEF Leaves
<1> HIDE <1>1, <1>2 DEF Calls
<1> QED BY <1>3, <1>4, <1>5, <1>6, <1>7, Zenon

\* What the steps of the calls have in common.
LEMMA CallBasics ==
    ASSUME IInv, NEW t \in Threads
    PROVE  /\ t \in Procs /\ t # Loop /\ Loop \in Procs
           /\ Types /\ Stopped(t) /\ Removed(t) /\ (state = "NOTREADY" => task = "none")
           /\ (stopCh => task = "none" /\ state = "NOTREADY") /\ (hostNet => netns = "none" /\ ~network)
BY SandboxAssumption, Zenon DEF IInv, Stops, Removes, Exits, Procs

\* Every step of stopPodSandbox preserves the invariant.
LEMMA StopEffect ==
    ASSUME IInv, NEW t \in Threads, Stop(t)
    PROVE  Types' /\ Calls(t) /\ Stopped(t)' /\ Removed(t)'
<1>0. /\ t \in Procs /\ t # Loop /\ Loop \in Procs
      /\ Types /\ Stopped(t) /\ Removed(t) /\ (state = "NOTREADY" => task = "none")
      /\ (stopCh => task = "none" /\ state = "NOTREADY") /\ (hostNet => netns = "none" /\ ~network)
  BY CallBasics, Zenon
<1> USE <1>0 DEF Procs, At, Goto, Fine, Fault, object, net, ctrd, disk, mons, chans, rpc, env,
    Types, Calls, Stopped, Removed, InUse, Running, AfterFiles, AfterTask, AfterCheck,
    AfterCntrs, RunSteps, UndoSteps, StopSteps, RemoveSteps, ExitSteps, LoadSteps
<1>1. CASE StopReturns(t)
  BY <1>1 DEF StopReturns, Return
<1>2. CASE StopFails(t)
  BY <1>2, Zenon DEF StopFails, Return
<1>3. CASE StopList(t)
  BY <1>3, Zenon DEF StopList, Listed
<1>4. CASE StopCntr(t)
  BY <1>4 DEF StopCntr, CntrStates
<1>5. CASE cleanupSandboxFiles(t)
  BY <1>5 DEF cleanupSandboxFiles
<1>6. CASE StopReadState(t)
  BY <1>6 DEF StopReadState, AfterStop, States
<1>7. CASE StopLoadTask(t)
  BY <1>7 DEF StopLoadTask, AfterStop
<1>8. CASE StopWaitTask(t)
  BY <1>8 DEF StopWaitTask
<1>9. CASE StopKill(t)
  BY <1>9 DEF StopKill, StopSandboxReturns, AfterStop
<1>10. CASE waitSandboxStop(t)
  BY <1>10 DEF waitSandboxStop, StopSandboxReturns, AfterStop
<1>11. CASE StopCancel(t)
  BY <1>11 DEF StopCancel, AfterStop
<1>12. CASE StopNetNSClosed(t)
  BY <1>12 DEF StopNetNSClosed, Closed
<1>13. CASE teardownPodNetwork(t)
  BY <1>13 DEF teardownPodNetwork
<1>14. CASE StopRemoveNetNS(t)
  BY <1>14, Zenon DEF StopRemoveNetNS, NetNSRemoved, NetNSRemoveFails
<1> HIDE <1>0 DEF Procs, At, Goto, Fine, Fault, object, net, ctrd, disk, mons, chans, rpc, env,
    Types, Calls, Stopped, Removed, InUse, Running, AfterFiles, AfterTask, AfterCheck,
    AfterCntrs, RunSteps, UndoSteps, StopSteps, RemoveSteps, ExitSteps, LoadSteps
<1> QED BY <1>1, <1>2, <1>3, <1>4, <1>5, <1>6, <1>7, <1>8, <1>9, <1>10, <1>11, <1>12, <1>13,
    <1>14, Zenon DEF Stop

\* A stop keeps the invariant.
LEMMA StopStep ==
    ASSUME IInv, NEW t \in Threads, Stop(t)
    PROVE  IInv'
BY StopEffect, CallStep, Zenon DEF IInv

\* Every step of RemovePodSandbox preserves the invariant.
LEMMA RemoveEffect ==
    ASSUME IInv, NEW t \in Threads, Remove(t)
    PROVE  Types' /\ Calls(t) /\ Stopped(t)' /\ Removed(t)'
<1>0. /\ t \in Procs /\ t # Loop /\ Loop \in Procs
      /\ Types /\ Stopped(t) /\ Removed(t) /\ (state = "NOTREADY" => task = "none")
      /\ (stopCh => task = "none" /\ state = "NOTREADY") /\ (hostNet => netns = "none" /\ ~network)
  BY CallBasics, Zenon
<1> USE <1>0 DEF Procs, At, Goto, Fine, Fault, object, net, ctrd, disk, mons, chans, rpc, env,
    Types, Calls, Stopped, Removed, InUse, Running, AfterFiles, AfterTask, AfterCheck,
    AfterCntrs, RunSteps, UndoSteps, StopSteps, RemoveSteps, ExitSteps, LoadSteps
<1>1. CASE RemoveReadState(t)
  BY <1>1, Zenon DEF RemoveReadState, States
<1>2. CASE RemoveCheckNetNS(t)
  BY <1>2 DEF RemoveCheckNetNS, Return, Closed
<1>3. CASE RemoveList(t)
  BY <1>3, Zenon DEF RemoveList, Listed
<1>4. CASE RemoveCntr(t)
  BY <1>4 DEF RemoveCntr, Return, CntrStates
<1>5. CASE RemoveDirs(t)
  BY <1>5 DEF RemoveDirs, Return
<1>6. CASE RemoveContainerdContainer(t)
  BY <1>6 DEF RemoveContainerdContainer, Return
<1>7. CASE RemoveRelease(t)
  BY <1>7 DEF RemoveRelease, Return
<1> HIDE <1>0 DEF Procs, At, Goto, Fine, Fault, object, net, ctrd, disk, mons, chans, rpc, env,
    Types, Calls, Stopped, Removed, InUse, Running, AfterFiles, AfterTask, AfterCheck,
    AfterCntrs, RunSteps, UndoSteps, StopSteps, RemoveSteps, ExitSteps, LoadSteps
<1> QED BY <1>1, <1>2, <1>3, <1>4, <1>5, <1>6, <1>7, Zenon DEF Remove

\* A removal keeps the invariant.
LEMMA RemoveStep ==
    ASSUME IInv, NEW t \in Threads, Remove(t)
    PROVE  IInv'
BY RemoveEffect, CallStep, Zenon DEF IInv

\* The calls StopPodSandbox and RemovePodSandbox begin.
LEMMA BeginEffect ==
    ASSUME IInv, NEW t \in Threads, StopPodSandbox(t) \/ RemovePodSandbox(t)
    PROVE  Types' /\ Calls(t) /\ Stopped(t)' /\ Removed(t)'
<1> USE SandboxAssumption
    DEF At, Goto, object, net, ctrd, disk, mons, chans, rpc, env, Procs, Types, StopPodSandbox,
        RemovePodSandbox
<1>1. Types'
  BY Zenon DEF IInv
<1>2. Calls(t) /\ Stopped(t)' /\ Removed(t)'
  BY DEF IInv, Calls, Stopped, Removed, InUse, Running, AfterFiles, AfterTask, AfterCheck, AfterCntrs,
         RunSteps, UndoSteps, RemoveSteps, ExitSteps, LoadSteps
<1> QED BY <1>1, <1>2, Zenon

\* A call that begins keeps the invariant.
LEMMA BeginStep ==
    ASSUME IInv, NEW t \in Threads, StopPodSandbox(t) \/ RemovePodSandbox(t)
    PROVE  IInv'
BY BeginEffect, CallStep, Zenon DEF IInv

\* So does the last step of RunPodSandbox, which starts the monitor: the sandbox is in the store.
LEMMA StartMonitorEffect ==
    ASSUME IInv, NEW t \in Threads, RunStartMonitor(t)
    PROVE  Types' /\ Calls(t) /\ Stopped(t)' /\ Removed(t)'
<1>0. /\ t \in Procs /\ t # Loop /\ Loop \in Procs
      /\ Types /\ (hostNet => netns = "none" /\ ~network)
  BY CallBasics, Zenon
<1> QED
  BY <1>0, Zenon DEF RunStartMonitor, Return, At, Goto, object, net, ctrd, disk, mons, chans, rpc, env, Types, Procs,
      Calls, Stopped, Removed, InUse, Running, AfterFiles, AfterTask, AfterCheck, AfterCntrs,
      RunSteps, UndoSteps, StopSteps, RemoveSteps, ExitSteps, LoadSteps

-----------------------------------------------------------------------------
(* Types *)

\* The types hold at first.
LEMMA InitTypes == Init => TypeOK
<1> SUFFICES ASSUME Init PROVE TypeOK
  BY Zenon
<1>1. PICK t \in Threads : /\ pc = [p \in Procs |-> IF p = t THEN "image" ELSE "idle"]
                           /\ call = [p \in Threads |-> IF p = t THEN "run" ELSE "none"]
  BY Zenon DEF Init
<1>2. pc \in [Procs -> Steps] /\ call \in [Threads -> {"none", "run", "stop", "remove"}]
  BY <1>1, Zenon DEF Steps, RunSteps
<1>3. FlagType
  BY Zenon DEF Init, FlagType
<1>4. ValueType
  BY <1>2, SandboxAssumption DEF Init, ValueType, States, CntrStates
<1> QED BY <1>3, <1>4, Zenon DEF TypeOK

\* RunPodSandbox and its defers keep the types.
LEMMA RunTypes ==
    ASSUME IInv, TypeOK, NEW t \in Threads, Run(t)
    PROVE  TypeOK'
<1>1. FlagType'
  <2> USE DEF TypeOK, FlagType, At, Goto, Fine, Fault, object, net, ctrd, disk, mons, chans, rpc,
      env
  <2>1. CASE RunImage(t)
    BY <2>1, Zenon DEF RunImage
  <2>2. CASE NewNetNS(t)
    BY <2>2, Zenon DEF NewNetNS
  <2>3. CASE setupPodNetwork(t)
    BY <2>3, Zenon DEF setupPodNetwork
  <2>4. CASE RunNewContainer(t)
    BY <2>4, Zenon DEF RunNewContainer
  <2>5. CASE RunMkdirs(t)
    BY <2>5, Zenon DEF RunMkdirs
  <2>6. CASE setupSandboxFiles(t)
    BY <2>6, Zenon DEF setupSandboxFiles
  <2>7. CASE RunTask(t)
    BY <2>7, Zenon DEF RunTask
  <2>8. CASE RunSetReady(t)
    BY <2>8, Zenon DEF RunSetReady
  <2>9. CASE RunStoreAdd(t)
    BY <2>9, Zenon DEF RunStoreAdd
  <2>10. CASE RunStartMonitor(t)
    BY <2>10, Zenon DEF RunStartMonitor, Return
  <2>11. CASE RunUndoFiles(t)
    BY <2>11, Zenon DEF RunUndoFiles, Clean, Logged
  <2>12. CASE RunUndoContainerd(t)
    BY <2>12, Zenon DEF RunUndoContainerd, Clean, Logged, TaskDeleteFails
  <2>13. CASE RunUndoNetwork(t)
    BY <2>13, Zenon DEF RunUndoNetwork, Clean, Logged, NetNSRemoved, NetNSRemoveFails
  <2>14. CASE RunUndoName(t)
    BY <2>14, Zenon DEF RunUndoName, Return
  <2> HIDE DEF TypeOK, FlagType, At, Goto, Fine, Fault, object, net, ctrd, disk, mons, chans, rpc,
      env
  <2> QED BY <2>1, <2>2, <2>3, <2>4, <2>5, <2>6, <2>7, <2>8, <2>9, <2>10, <2>11, <2>12, <2>13,
      <2>14, Zenon DEF Run
<1>2. ValueType'
  <2> USE SandboxAssumption DEF TypeOK, ValueType, Procs, At, Goto, Fine, Fault, Steps, States,
      Alive, CntrStates, RunSteps, UndoSteps, StopSteps, RemoveSteps, ExitSteps, LoadSteps,
      object, net, ctrd, disk, mons, chans, rpc, env
  <2>1. CASE RunImage(t)
    BY <2>1 DEF RunImage
  <2>2. CASE NewNetNS(t)
    BY <2>2 DEF NewNetNS
  <2>3. CASE setupPodNetwork(t)
    BY <2>3 DEF setupPodNetwork
  <2>4. CASE RunNewContainer(t)
    BY <2>4 DEF RunNewContainer
  <2>5. CASE RunMkdirs(t)
    BY <2>5 DEF RunMkdirs
  <2>6. CASE setupSandboxFiles(t)
    BY <2>6 DEF setupSandboxFiles
  <2>7. CASE RunTask(t)
    BY <2>7 DEF RunTask
  <2>8. CASE RunSetReady(t)
    BY <2>8, Zenon DEF RunSetReady
  <2>9. CASE RunStoreAdd(t)
    BY <2>9 DEF RunStoreAdd
  <2>10. CASE RunStartMonitor(t)
    BY <2>10, Zenon DEF RunStartMonitor, Return
  <2>11. CASE RunUndoFiles(t)
    BY <2>11 DEF RunUndoFiles, Clean, Logged
  <2>12. CASE RunUndoContainerd(t)
    BY <2>12 DEF RunUndoContainerd, Clean, Logged, TaskDeleteFails
  <2>13. CASE RunUndoNetwork(t)
    BY <2>13 DEF RunUndoNetwork, Clean, Logged, NetNSRemoved, NetNSRemoveFails
  <2>14. CASE RunUndoName(t)
    BY <2>14, Zenon DEF RunUndoName, Return
  <2> HIDE DEF TypeOK, ValueType, Procs, At, Goto, Fine, Fault, Steps, States, Alive, CntrStates,
      RunSteps, UndoSteps, StopSteps, RemoveSteps, ExitSteps, LoadSteps, object, net, ctrd, disk,
      mons, chans, rpc, env
  <2> QED BY <2>1, <2>2, <2>3, <2>4, <2>5, <2>6, <2>7, <2>8, <2>9, <2>10, <2>11, <2>12, <2>13,
      <2>14, Zenon DEF Run
<1> QED BY <1>1, <1>2, Zenon DEF TypeOK

\* stopPodSandbox keeps the types.
LEMMA StopTypes ==
    ASSUME IInv, TypeOK, NEW t \in Threads, Stop(t)
    PROVE  TypeOK'
<1>1. FlagType'
  <2> USE DEF TypeOK, FlagType, At, Goto, Fine, Fault, object, net, ctrd, disk, mons, chans, rpc,
      env
  <2>1. CASE StopReturns(t)
    BY <2>1, Zenon DEF StopReturns, Return
  <2>2. CASE StopFails(t)
    BY <2>2, Zenon DEF StopFails, Return
  <2>3. CASE StopList(t)
    BY <2>3, Zenon DEF StopList, Listed
  <2>4. CASE StopCntr(t)
    BY <2>4, Zenon DEF StopCntr
  <2>5. CASE cleanupSandboxFiles(t)
    BY <2>5, Zenon DEF cleanupSandboxFiles
  <2>6. CASE StopReadState(t)
    BY <2>6, Zenon DEF StopReadState, AfterStop
  <2>7. CASE StopLoadTask(t)
    BY <2>7, Zenon DEF StopLoadTask, AfterStop
  <2>8. CASE StopWaitTask(t)
    BY <2>8, Zenon DEF StopWaitTask
  <2>9. CASE StopKill(t)
    BY <2>9, Zenon DEF StopKill, StopSandboxReturns, AfterStop
  <2>10. CASE waitSandboxStop(t)
    BY <2>10, Zenon DEF waitSandboxStop, StopSandboxReturns, AfterStop
  <2>11. CASE StopCancel(t)
    BY <2>11, Zenon DEF StopCancel, AfterStop
  <2>12. CASE StopNetNSClosed(t)
    BY <2>12, Zenon DEF StopNetNSClosed, Closed
  <2>13. CASE teardownPodNetwork(t)
    BY <2>13, Zenon DEF teardownPodNetwork
  <2>14. CASE StopRemoveNetNS(t)
    BY <2>14, Zenon DEF StopRemoveNetNS, NetNSRemoved, NetNSRemoveFails
  <2> HIDE DEF TypeOK, FlagType, At, Goto, Fine, Fault, object, net, ctrd, disk, mons, chans, rpc,
      env
  <2> QED BY <2>1, <2>2, <2>3, <2>4, <2>5, <2>6, <2>7, <2>8, <2>9, <2>10, <2>11, <2>12, <2>13,
      <2>14, Zenon DEF Stop
<1>2. ValueType'
  <2> USE SandboxAssumption DEF TypeOK, ValueType, Procs, At, Goto, Fine, Fault, Steps, States,
      Alive, CntrStates, RunSteps, UndoSteps, StopSteps, RemoveSteps, ExitSteps, LoadSteps,
      object, net, ctrd, disk, mons, chans, rpc, env
  <2>1. CASE StopReturns(t)
    BY <2>1 DEF StopReturns, Return
  <2>2. CASE StopFails(t)
    BY <2>2, Zenon DEF StopFails, Return
  <2>3. CASE StopList(t)
    BY <2>3, Zenon DEF StopList, Listed
  <2>4. CASE StopCntr(t)
    BY <2>4 DEF StopCntr
  <2>5. CASE cleanupSandboxFiles(t)
    BY <2>5 DEF cleanupSandboxFiles
  <2>6. CASE StopReadState(t)
    BY <2>6 DEF StopReadState, AfterStop
  <2>7. CASE StopLoadTask(t)
    BY <2>7 DEF StopLoadTask, AfterStop
  <2>8. CASE StopWaitTask(t)
    BY <2>8 DEF StopWaitTask
  <2>9. CASE StopKill(t)
    BY <2>9 DEF StopKill, StopSandboxReturns, AfterStop
  <2>10. CASE waitSandboxStop(t)
    BY <2>10 DEF waitSandboxStop, StopSandboxReturns, AfterStop
  <2>11. CASE StopCancel(t)
    BY <2>11 DEF StopCancel, AfterStop
  <2>12. CASE StopNetNSClosed(t)
    BY <2>12 DEF StopNetNSClosed, Closed
  <2>13. CASE teardownPodNetwork(t)
    BY <2>13 DEF teardownPodNetwork
  <2>14. CASE StopRemoveNetNS(t)
    BY <2>14 DEF StopRemoveNetNS, NetNSRemoved, NetNSRemoveFails
  <2> HIDE DEF TypeOK, ValueType, Procs, At, Goto, Fine, Fault, Steps, States, Alive, CntrStates,
      RunSteps, UndoSteps, StopSteps, RemoveSteps, ExitSteps, LoadSteps, object, net, ctrd, disk,
      mons, chans, rpc, env
  <2> QED BY <2>1, <2>2, <2>3, <2>4, <2>5, <2>6, <2>7, <2>8, <2>9, <2>10, <2>11, <2>12, <2>13,
      <2>14, Zenon DEF Stop
<1> QED BY <1>1, <1>2, Zenon DEF TypeOK

\* So do RemovePodSandbox and the beginning of the calls.
LEMMA RemoveTypes ==
    ASSUME IInv, TypeOK, NEW t \in Threads, StopPodSandbox(t) \/ RemovePodSandbox(t) \/ Remove(t)
    PROVE  TypeOK'
<1>1. FlagType'
  <2> USE DEF TypeOK, FlagType, At, Goto, Fine, Fault, object, net, ctrd, disk, mons, chans, rpc,
      env
  <2>1. CASE StopPodSandbox(t)
    BY <2>1, Zenon DEF StopPodSandbox
  <2>2. CASE RemovePodSandbox(t)
    BY <2>2, Zenon DEF RemovePodSandbox
  <2>3. CASE RemoveReadState(t)
    BY <2>3, Zenon DEF RemoveReadState
  <2>4. CASE RemoveCheckNetNS(t)
    BY <2>4, Zenon DEF RemoveCheckNetNS, Return, Closed
  <2>5. CASE RemoveList(t)
    BY <2>5, Zenon DEF RemoveList, Listed
  <2>6. CASE RemoveCntr(t)
    BY <2>6, Zenon DEF RemoveCntr, Return
  <2>7. CASE RemoveDirs(t)
    BY <2>7, Zenon DEF RemoveDirs, Return
  <2>8. CASE RemoveContainerdContainer(t)
    BY <2>8, Zenon DEF RemoveContainerdContainer, Return
  <2>9. CASE RemoveRelease(t)
    BY <2>9, Zenon DEF RemoveRelease, Return
  <2> HIDE DEF TypeOK, FlagType, At, Goto, Fine, Fault, object, net, ctrd, disk, mons, chans, rpc,
      env
  <2> QED BY <2>1, <2>2, <2>3, <2>4, <2>5, <2>6, <2>7, <2>8, <2>9, Zenon DEF Remove
<1>2. ValueType'
  <2> USE SandboxAssumption DEF TypeOK, ValueType, Procs, At, Goto, Fine, Fault, Steps, States,
      Alive, CntrStates, RunSteps, UndoSteps, StopSteps, RemoveSteps, ExitSteps, LoadSteps,
      object, net, ctrd, disk, mons, chans, rpc, env
  <2>1. CASE StopPodSandbox(t)
    BY <2>1, Zenon DEF StopPodSandbox
  <2>2. CASE RemovePodSandbox(t)
    BY <2>2, Zenon DEF RemovePodSandbox
  <2>3. CASE RemoveReadState(t)
    BY <2>3, Zenon DEF RemoveReadState
  <2>4. CASE RemoveCheckNetNS(t)
    BY <2>4 DEF RemoveCheckNetNS, Return, Closed
  <2>5. CASE RemoveList(t)
    BY <2>5, Zenon DEF RemoveList, Listed
  <2>6. CASE RemoveCntr(t)
    BY <2>6 DEF RemoveCntr, Return
  <2>7. CASE RemoveDirs(t)
    BY <2>7 DEF RemoveDirs, Return
  <2>8. CASE RemoveContainerdContainer(t)
    BY <2>8 DEF RemoveContainerdContainer, Return
  <2>9. CASE RemoveRelease(t)
    BY <2>9 DEF RemoveRelease, Return
  <2> HIDE DEF TypeOK, ValueType, Procs, At, Goto, Fine, Fault, Steps, States, Alive, CntrStates,
      RunSteps, UndoSteps, StopSteps, RemoveSteps, ExitSteps, LoadSteps, object, net, ctrd, disk,
      mons, chans, rpc, env
  <2> QED BY <2>1, <2>2, <2>3, <2>4, <2>5, <2>6, <2>7, <2>8, <2>9, Zenon DEF Remove
<1> QED BY <1>1, <1>2, Zenon DEF TypeOK

\* So does handleSandboxExit: the loop has an event at hand when it counts one off.
LEMMA ExitTypes ==
    ASSUME IInv, TypeOK, NEW p \in Procs, handleSandboxExit(p)
    PROVE  TypeOK'
<1>1. FlagType'
  <2> USE DEF TypeOK, FlagType, At, Goto, Fine, Fault, object, net, ctrd, disk, mons, chans, rpc,
      env
  <2>1. CASE ExitLoadTask(p)
    BY <2>1, Zenon DEF ExitLoadTask, ExitFailed
  <2>2. CASE ExitDelete(p)
    BY <2>2, Zenon DEF ExitDelete, ExitFailed, TaskDeleteFails
  <2>3. CASE ExitUpdate(p)
    BY <2>3, Zenon DEF ExitUpdate
  <2>4. CASE ExitStop(p)
    BY <2>4, Zenon DEF ExitStop, ExitHandled, AfterStop
  <2> HIDE DEF TypeOK, FlagType, At, Goto, Fine, Fault, object, net, ctrd, disk, mons, chans, rpc,
      env
  <2> QED BY <2>1, <2>2, <2>3, <2>4, Zenon DEF handleSandboxExit
<1>2. ValueType'
  <2> USE SandboxAssumption DEF TypeOK, ValueType, Procs, At, Goto, Fine, Fault, Steps, States,
      Alive, CntrStates, RunSteps, UndoSteps, StopSteps, RemoveSteps, ExitSteps, LoadSteps,
      object, net, ctrd, disk, mons, chans, rpc, env
  <2>1. CASE ExitLoadTask(p)
    BY <2>1 DEF ExitLoadTask, ExitFailed
  <2>2. CASE ExitDelete(p)
    BY <2>2 DEF ExitDelete, ExitFailed, TaskDeleteFails
  <2>3. CASE ExitUpdate(p)
    BY <2>3, Zenon DEF ExitUpdate
  <2>4. CASE ExitStop(p)
    BY <2>4 DEF ExitStop, ExitHandled, AfterStop, IInv, Exits
  <2> HIDE DEF TypeOK, ValueType, Procs, At, Goto, Fine, Fault, Steps, States, Alive, CntrStates,
      RunSteps, UndoSteps, StopSteps, RemoveSteps, ExitSteps, LoadSteps, object, net, ctrd, disk,
      mons, chans, rpc, env
  <2> QED BY <2>1, <2>2, <2>3, <2>4, Zenon DEF handleSandboxExit
<1> QED BY <1>1, <1>2, Zenon DEF TypeOK

\* So do the exit monitors, which send only while the channel has room.
LEMMA MonitorTypes ==
    ASSUME IInv, TypeOK, NEW p \in Procs, Monitor(p)
    PROVE  TypeOK'
<1>1. FlagType'
  <2> USE DEF TypeOK, FlagType, At, Goto, Fine, Fault, object, net, ctrd, disk, mons, chans, rpc,
      env
  <2>1. CASE MonitorFires(p)
    BY <2>1, Zenon DEF MonitorFires
  <2>2. CASE MonitorSends(p)
    BY <2>2, Zenon DEF MonitorSends
  <2> HIDE DEF TypeOK, FlagType, At, Goto, Fine, Fault, object, net, ctrd, disk, mons, chans, rpc,
      env
  <2> QED BY <2>1, <2>2, Zenon DEF Monitor
<1>2. ValueType'
  <2> USE SandboxAssumption DEF TypeOK, ValueType, Procs, At, Goto, Fine, Fault, Steps, States,
      Alive, CntrStates, RunSteps, UndoSteps, StopSteps, RemoveSteps, ExitSteps, LoadSteps,
      object, net, ctrd, disk, mons, chans, rpc, env
  <2>1. CASE MonitorFires(p)
    BY <2>1 DEF MonitorFires
  <2>2. CASE MonitorSends(p)
    BY <2>2 DEF MonitorSends
  <2> HIDE DEF TypeOK, ValueType, Procs, At, Goto, Fine, Fault, Steps, States, Alive, CntrStates,
      RunSteps, UndoSteps, StopSteps, RemoveSteps, ExitSteps, LoadSteps, object, net, ctrd, disk,
      mons, chans, rpc, env
  <2> QED BY <2>1, <2>2, Zenon DEF Monitor
<1> QED BY <1>1, <1>2, Zenon DEF TypeOK

\* So do the event loop, the end of the task, others, a crash and recovery.
LEMMA EventTypes ==
    ASSUME IInv, TypeOK, EventLoop \/ TaskExits \/ OutsideDeletes \/ Crash \/ Recover
    PROVE  TypeOK'
<1>1. FlagType'
  <2> USE DEF TypeOK, FlagType, At, Goto, Fine, Fault, object, net, ctrd, disk, mons, chans, rpc,
      env
  <2>1. CASE LoopReceives
    BY <2>1, Zenon DEF LoopReceives, Handle
  <2>2. CASE LoopRetries
    BY <2>2, Zenon DEF LoopRetries, Handle
  <2>3. CASE TaskExits
    BY <2>3, Zenon DEF TaskExits
  <2>4. CASE OutsideDeletes
    BY <2>4, Zenon DEF OutsideDeletes
  <2>5. CASE Crash
    BY <2>5, Zenon DEF Crash
  <2>6. CASE LoadMetadata
    BY <2>6, Zenon DEF LoadMetadata, Loading, Clean, Logged
  <2>7. CASE LoadTask
    BY <2>7, Zenon DEF LoadTask, Loading
  <2>8. CASE LoadWait
    BY <2>8, Zenon DEF LoadWait, Loading
  <2>9. CASE LoadDelete
    BY <2>9, Zenon DEF LoadDelete, Loading, TaskDeleteFails
  <2>10. CASE LoadAdd
    BY <2>10, Zenon DEF LoadAdd, Loading
  <2>11. CASE cleanupOrphanedIDDirs
    BY <2>11, Zenon DEF cleanupOrphanedIDDirs, Loading, Clean, Logged
  <2> HIDE DEF TypeOK, FlagType, At, Goto, Fine, Fault, object, net, ctrd, disk, mons, chans, rpc,
      env
  <2> QED BY <2>1, <2>2, <2>3, <2>4, <2>5, <2>6, <2>7, <2>8, <2>9, <2>10, <2>11, Zenon DEF EventLoop,
      Recover
<1>2. ValueType'
  <2> USE SandboxAssumption DEF TypeOK, ValueType, Procs, At, Goto, Fine, Fault, Steps, States,
      Alive, CntrStates, RunSteps, UndoSteps, StopSteps, RemoveSteps, ExitSteps, LoadSteps,
      object, net, ctrd, disk, mons, chans, rpc, env
  <2>1. CASE LoopReceives
    BY <2>1 DEF LoopReceives, Handle
  <2>2. CASE LoopRetries
    BY <2>2 DEF LoopRetries, Handle
  <2>3. CASE TaskExits
    BY <2>3, Zenon DEF TaskExits
  <2>4. CASE OutsideDeletes
    BY <2>4, Zenon DEF OutsideDeletes
  <2>5. CASE Crash
    BY <2>5 DEF Crash
  <2>6. CASE LoadMetadata
    BY <2>6 DEF LoadMetadata, Loading, Clean, Logged
  <2>7. CASE LoadTask
    BY <2>7 DEF LoadTask, Loading
  <2>8. CASE LoadWait
    BY <2>8 DEF LoadWait, Loading
  <2>9. CASE LoadDelete
    BY <2>9 DEF LoadDelete, Loading, TaskDeleteFails
  <2>10. CASE LoadAdd
    BY <2>10, Zenon DEF LoadAdd, Loading
  <2>11. CASE cleanupOrphanedIDDirs
    BY <2>11 DEF cleanupOrphanedIDDirs, Loading, Clean, Logged
  <2> HIDE DEF TypeOK, ValueType, Procs, At, Goto, Fine, Fault, Steps, States, Alive, CntrStates,
      RunSteps, UndoSteps, StopSteps, RemoveSteps, ExitSteps, LoadSteps, object, net, ctrd, disk,
      mons, chans, rpc, env
  <2> QED BY <2>1, <2>2, <2>3, <2>4, <2>5, <2>6, <2>7, <2>8, <2>9, <2>10, <2>11, Zenon DEF EventLoop,
      Recover
<1> QED BY <1>1, <1>2, Zenon DEF TypeOK

\* So do the containers of the pod.
LEMMA CntrTypes ==
    ASSUME TypeOK, NEW c \in Containers, Cntr(c)
    PROVE  TypeOK'
<1>1. PICK a \in CntrStates, b \in CntrStates : CntrStep(c, a, b)
  BY Zenon DEF Cntr, CreateContainer, StartContainer, CntrExits, CntrStates
<1> QED BY <1>1 DEF CntrStep, TypeOK, FlagType, ValueType, object, net, ctrd, disk, mons, chans, rpc, env

\* Every step keeps the types.
LEMMA NextTypes == TypeOK /\ IInv /\ [Next]_vars => TypeOK'
<1> SUFFICES ASSUME TypeOK, IInv, [Next]_vars PROVE TypeOK'
  BY Zenon
<1>1. CASE UNCHANGED vars
  BY <1>1 DEF TypeOK, FlagType, ValueType, vars, object, net, ctrd, disk, mons, chans, rpc, env
<1>2. Quiet => UNCHANGED vars
  BY Zenon DEF Quiet
<1> QED BY <1>1, <1>2, RunTypes, StopTypes, RemoveTypes, ExitTypes, MonitorTypes, EventTypes, CntrTypes, Zenon
        DEF Next

-----------------------------------------------------------------------------
(* Steps of RunPodSandbox *)

\* RunPodSandbox goes on, puts the sandbox into the store, or is done with its defers.
Runs(t) ==
    /\ up /\ up' /\ hostNet' = hostNet /\ pc[t] \in Running /\ (\A q \in Procs : q # t => pc'[q] = pc[q])
    /\ \/ pc'[t] \in Running /\ ~inStore'
       \/ pc'[t] = "startMonitor" /\ inStore' /\ state' = "READY"
       \/ /\ pc[t] = "undoName" /\ pc'[t] = "idle" /\ ~inStore' /\ ~reserved'
          /\ UNCHANGED <<netns, network, cntrd, task, rootDir, volatileDir, shm>>
    /\ state' # "NOTREADY" /\ (pc'[t] = "storeAdd" => state' = "READY") /\ (unclean => unclean')
    /\ UNCHANGED <<stopCh, cntr, monitor, exitCh, backOff, batch>>
    /\ hostNet => /\ netns' = "none" /\ ~network'
                  /\ pc'[t] \notin {"newNetNS", "setupNetwork", "undoNetwork", "undoNetNS"}
    /\ ~unclean' => /\ NotMade(t)' /\ (network' => netns' = "mounted")
                    /\ (~cntrd' => task' = "none")

\* Such a step preserves the invariant: nothing else goes on.
LEMMA RunStepEffect ==
    ASSUME Types, Control, Exits, Stops, Removes, Leaves, NEW t \in Threads, Runs(t)
    PROVE  Control' /\ Exits' /\ Stops' /\ Removes' /\ Leaves'
<1>1. DOMAIN pc = Procs /\ t \in Procs /\ t # Loop /\ Loop \in Procs
  BY SandboxAssumption, Zenon DEF Types, Procs
<1>2. /\ \A q \in Procs : q # t => pc'[q] = "idle"
      /\ ~stopCh' /\ \A c \in Containers : cntr'[c] = "none"
      /\ pc'[t] \in Running \cup {"startMonitor", "idle"}
  BY <1>1, Zenon DEF Control, Runs
<1>3. \A u \in Threads : u \in Procs
  BY Zenon DEF Procs
<1> USE <1>1, <1>2, <1>3 DEF Runs
<1>4. Control'
  <2>1. "startMonitor" \notin Running /\ "idle" \notin Running /\ "idle" \notin LoadSteps
    BY Zenon DEF Running, RunSteps, UndoSteps, LoadSteps
  <2>2. pc'[t] \notin LoadSteps
    BY Zenon DEF Running, RunSteps, UndoSteps, LoadSteps
  <2>3. /\ pc'[t] \in Running => ~inStore'
        /\ ~inStore' => pc'[t] \in Running \cup {"idle"}
    BY <2>1, Zenon
  <2>4. pc'[Loop] = "idle"
    BY Zenon
  <2> QED BY <2>1, <2>2, <2>3, <2>4 DEF Control
<1>5. Exits'
  BY Zenon DEF Exits, Running, RunSteps, UndoSteps, ExitSteps
<1>6. Stops' /\ Removes'
  BY DEF Stops, Stopped, Removes, Removed, InUse, Running, AfterFiles, AfterTask, AfterCheck,
         AfterCntrs, RunSteps, UndoSteps, RemoveSteps, ExitSteps
<1>7. Leaves'
  <2>1. ASSUME ~unclean' PROVE \A u \in Threads : NotMade(u)'
    BY <2>1, SMTT(60) DEF NotMade, Running, RunSteps, UndoSteps
  <2>2. ASSUME ~unclean', \A u \in Threads : pc'[u] \notin Running, ~inStore'
        PROVE  /\ netns' = "none" /\ ~network' /\ ~cntrd' /\ task' = "none"
               /\ ~rootDir' /\ ~volatileDir' /\ ~shm' /\ ~reserved'
    BY <2>2 DEF Leaves, NotMade, Running, RunSteps, UndoSteps
  <2> QED BY <2>1, <2>2, Zenon DEF Leaves
<1> HIDE <1>1, <1>2, <1>3 DEF Runs
<1> QED BY <1>4, <1>5, <1>6, <1>7, Zenon

\* Every step of RunPodSandbox preserves the invariant.
LEMMA RunEffect ==
    ASSUME IInv, NEW t \in Threads, Run(t), ~RunStartMonitor(t)
    PROVE  Types' /\ Runs(t)
<1>0. /\ t \in Procs /\ Types /\ (pc[t] \in Running => ~inStore /\ state # "NOTREADY")
      /\ (pc[t] \in Running /\ pc[t] = "storeAdd" => state = "READY")
      /\ pc[t] \in Running /\ hostNet =>
            pc[t] \notin {"newNetNS", "setupNetwork", "undoNetwork", "undoNetNS"}
      /\ ~unclean => NotMade(t) /\ (network => netns = "mounted") /\ (~cntrd => task = "none")
      /\ (hostNet => netns = "none" /\ ~network)
  BY Zenon DEF IInv, Control, Stops, Removes, Leaves, Procs
<1> USE <1>0 DEF At, Goto, Fine, Fault, object, net, ctrd, disk, mons, chans, rpc, env, Types,
    Runs, NotMade, Running, RunSteps, UndoSteps
<1>1. CASE RunImage(t)
  BY <1>1, Zenon DEF RunImage
<1>2. CASE NewNetNS(t)
  BY <1>2, Zenon DEF NewNetNS
<1>3. CASE setupPodNetwork(t)
  BY <1>3, Zenon DEF setupPodNetwork
<1>4. CASE RunNewContainer(t)
  BY <1>4, SMTT(60) DEF RunNewContainer
<1>5. CASE RunMkdirs(t)
  BY <1>5, SMTT(60) DEF RunMkdirs
<1>6. CASE setupSandboxFiles(t)
  BY <1>6 DEF setupSandboxFiles
<1>7. CASE RunTask(t)
  BY <1>7, ZenonT(60) DEF RunTask
<1>8. CASE RunSetReady(t)
  BY <1>8, Zenon DEF RunSetReady, States
<1>9. CASE RunStoreAdd(t)
  BY <1>9, SMTT(60) DEF RunStoreAdd
<1>10. CASE RunUndoFiles(t)
  BY <1>10, SMTT(60) DEF RunUndoFiles, Logged, Clean
<1>11. CASE RunUndoContainerd(t)
  BY <1>11, SMTT(60) DEF RunUndoContainerd, TaskDeleteFails, Logged, Clean
<1>12. CASE RunUndoNetwork(t)
  BY <1>12 DEF RunUndoNetwork, NetNSRemoved, NetNSRemoveFails, Logged, Clean
<1>13. CASE RunUndoName(t)
  BY <1>13, Zenon DEF RunUndoName, Return
<1> HIDE <1>0 DEF At, Goto, Fine, Fault, object, net, ctrd, disk, mons, chans, rpc, env, Types,
    Runs, NotMade, Running, RunSteps, UndoSteps
<1> QED BY <1>1, <1>2, <1>3, <1>4, <1>5, <1>6, <1>7, <1>8, <1>9, <1>10, <1>11, <1>12, <1>13, Zenon DEF
    Run

\* RunPodSandbox keeps the invariant, with all that it undoes.
LEMMA RunStep ==
    ASSUME IInv, NEW t \in Threads, Run(t)
    PROVE  IInv'
BY RunEffect, RunStepEffect, StartMonitorEffect, CallStep, Zenon DEF IInv

-----------------------------------------------------------------------------
(* Steps of handleSandboxExit *)

\* It goes on only with the task gone, and keeps the event until the end is recorded.
HandlesExit(p) ==
    /\ up /\ up' /\ pc[p] \in ExitSteps /\ (\A q \in Procs : q # p => pc'[q] = pc[q])
    /\ pc'[p] \in ExitSteps \cup (IF p = Loop THEN {"idle"} ELSE {"netnsClosed", "stopped", "stopFailed"})
    /\ UNCHANGED <<hostNet, inStore, reserved, netns, network, cntrd, rootDir, volatileDir, shm, cntr>>
    /\ UNCHANGED <<seen, todo, monitor, exitCh, unclean>>
    /\ (task = "none" => task' = "none") /\ (pc'[p] \in {"exitUpdate", "exitStop"} => task' = "none")
    /\ state' = state \/ (state' = "NOTREADY" /\ task' = "none")
    /\ pc'[p] = "exitStop" => state' = "NOTREADY"
    /\ stopCh' => stopCh \/ state' = "NOTREADY"
    /\ p # Loop => UNCHANGED <<backOff, batch>>
    /\ p = Loop => /\ pc'[p] \in ExitSteps => batch' > 0
                   /\ state' = "READY" => backOff' + batch' > 0
    /\ pc'[p] \in {"netnsClosed", "stopped"} => task' = "none" /\ state' = "NOTREADY"
    /\ pc'[p] = "stopped" => hostNet

\* Such a step preserves the invariant.
LEMMA ExitStepEffect ==
    ASSUME Types, Types', Control, Exits, Stops, Removes, Leaves, NEW p \in Procs, HandlesExit(p)
    PROVE  Control' /\ Exits' /\ Stops' /\ Removes' /\ Leaves'
<1>1. /\ DOMAIN pc = Procs /\ Loop \in Procs /\ Loop \notin Threads
      /\ exitCh \in Nat /\ backOff' \in Nat /\ batch' \in Nat
  BY SandboxAssumption, Zenon DEF Types, Procs
<1>2. \A u \in Threads : u \in Procs /\ pc[u] \notin Running /\ pc'[u] \notin Running
  BY <1>1, SMTT(60) DEF Control, HandlesExit, Procs, Running, ExitSteps, RunSteps, UndoSteps
<1> USE <1>1, <1>2 DEF HandlesExit
<1>3. Control'
  BY DEF Control, ExitSteps, LoadSteps
<1>4. Exits'
  <2>1. /\ state' = "NOTREADY" => task' = "none"
        /\ stopCh' => state' = "NOTREADY"
    BY Zenon DEF Exits
  <2>2. \A q \in Procs : /\ pc'[q] \in {"exitUpdate", "exitStop"} => task' = "none"
                         /\ pc'[q] = "exitStop" => state' = "NOTREADY"
    BY Zenon DEF Exits
  <2>3. pc'[Loop] \in ExitSteps => batch' > 0
    BY Zenon DEF Exits
  <2>4. (inStore' \/ ~up') /\ state' = "READY" =>
           \/ monitor'[Loop] # "off" \/ exitCh' + backOff' + batch' > 0
           \/ \E t \in Threads : pc'[t] = "startMonitor"
    <3>1. CASE p = Loop
      <4>1. exitCh' = exitCh /\ (state' = "READY" => backOff' + batch' > 0)
        BY <3>1, Zenon
      <4>2. \A a, b, c \in Nat : b + c > 0 => a + b + c > 0
        OBVIOUS
      <4> QED BY <1>1, <4>1, <4>2, Zenon
    <3>2. CASE p # Loop
      <4>1. /\ UNCHANGED <<inStore, up, monitor, exitCh, backOff, batch>>
            /\ (state' = "READY" => state = "READY")
        BY <3>2, Zenon
      <4>2. \A t \in Threads : pc[t] = "startMonitor" => pc'[t] = "startMonitor"
        BY Zenon DEF ExitSteps
      <4> QED BY <4>1, <4>2 DEF Exits
    <3> QED BY <3>1, <3>2, Zenon
  <2> QED BY <2>1, <2>2, <2>3, <2>4, Zenon DEF Exits
<1>5. Stops'
  BY DEF Stops, Stopped, AfterFiles, AfterTask, AfterCheck, ExitSteps, RemoveSteps
<1>6. Removes'
  BY DEF Removes, Removed, InUse, AfterCntrs, AfterCheck, ExitSteps, RemoveSteps
<1>7. Leaves'
  <2>1. \A u \in Threads : NotMade(u)'
    BY DEF NotMade, Running, RunSteps, UndoSteps
  <2>2. \A u \in Threads : pc[u] = "releaseName" => pc'[u] = "releaseName"
    BY Zenon DEF ExitSteps
  <2> QED BY <2>1, <2>2, Zenon DEF Leaves
<1> HIDE <1>1, <1>2 DEF HandlesExit
<1> QED BY <1>3, <1>4, <1>5, <1>6, <1>7, Zenon

\* Every step of handleSandboxExit preserves the invariant, in the loop and in a stop.
LEMMA ExitEffect ==
    ASSUME IInv, NEW p \in Procs, handleSandboxExit(p)
    PROVE  Types' /\ HandlesExit(p)
<1>0. /\ Types /\ Loop \in Procs /\ (pc[Loop] \in ExitSteps => batch > 0)
      /\ (pc[p] \in {"exitUpdate", "exitStop"} => task = "none")
      /\ (pc[p] = "exitStop" => state = "NOTREADY")
  BY Zenon DEF IInv, Exits, Procs
<1> USE <1>0 DEF At, Goto, Fine, Fault, object, net, ctrd, disk, mons, chans, rpc, env, Types,
    HandlesExit, ExitSteps
<1>1. CASE ExitLoadTask(p)
  BY <1>1 DEF ExitLoadTask, ExitFailed
<1>2. CASE ExitDelete(p)
  BY <1>2 DEF ExitDelete, TaskDeleteFails, ExitFailed
<1>3. CASE ExitUpdate(p)
  BY <1>3, Zenon DEF ExitUpdate, States
<1>4. CASE ExitStop(p)
  BY <1>4 DEF ExitStop, ExitHandled, AfterStop
<1> HIDE <1>0 DEF At, Goto, Fine, Fault, object, net, ctrd, disk, mons, chans, rpc, env, Types,
    HandlesExit, ExitSteps
<1> QED BY <1>1, <1>2, <1>3, <1>4, Zenon DEF handleSandboxExit

\* The handler of an exit keeps the invariant.
LEMMA ExitStep ==
    ASSUME IInv, NEW p \in Procs, handleSandboxExit(p)
    PROVE  IInv'
BY ExitEffect, ExitStepEffect, Zenon DEF IInv

-----------------------------------------------------------------------------
(* Steps in the background *)

\* The monitors and the loop move the exit events and lose none, the task may end, and the
\* containers of the pod go on: one is created or gets a task only while the sandbox has one.
Background ==
    /\ UNCHANGED <<up, hostNet, inStore, state, stopCh, reserved, netns, network, cntrd, unclean>>
    /\ UNCHANGED <<rootDir, volatileDir, shm, seen, todo>>
    /\ \A q \in Procs : q # Loop => pc'[q] = pc[q]
    /\ \/ pc'[Loop] = pc[Loop] /\ (pc[Loop] \in ExitSteps => batch' = batch)
       \/ up /\ inStore /\ pc[Loop] = "idle" /\ batch' > 0 /\ pc'[Loop] = "exitTask"
    /\ (task = "none" <=> task' = "none")
    /\ \A c \in Containers : /\ cntr[c] = "none" => inStore \/ cntr'[c] = "none"
                             /\ InUse(c)' => InUse(c) \/ task # "none"
    /\ (inStore \/ ~up) /\ (monitor[Loop] # "off" \/ exitCh + backOff + batch > 0) =>
          monitor'[Loop] # "off" \/ exitCh' + backOff' + batch' > 0

\* Such a step preserves the invariant.
LEMMA BackgroundEffect ==
    ASSUME Types, Control, Exits, Stops, Removes, Leaves, Background
    PROVE  Control' /\ Exits' /\ Stops' /\ Removes' /\ Leaves'
<1>1. DOMAIN pc = Procs /\ Loop \in Procs /\ Loop \notin Threads
  BY SandboxAssumption, Zenon DEF Types, Procs
<1>2. \A u \in Threads : u \in Procs /\ pc'[u] = pc[u]
  BY <1>1, Zenon DEF Background, Procs
<1> USE <1>1, <1>2 DEF Background
<1>3. Control'
  BY DEF Control, ExitSteps, LoadSteps
<1>4. Exits'
  BY Zenon DEF Exits, ExitSteps
<1>5. Stops'
  BY Zenon DEF Stops, Stopped
<1>6. Removes'
  <2>1. ASSUME NEW u \in Threads PROVE Removed(u)'
    BY Zenon DEF Removes, Removed, Stops, Stopped, AfterTask, AfterCntrs, AfterCheck, RemoveSteps
  <2>2. ~cntrd' /\ ~unclean' => task' = "none" /\ \A c \in Containers : ~InUse(c)'
    BY Zenon DEF Removes
  <2> QED BY <2>1, <2>2, Zenon DEF Removes
<1>7. Leaves'
  <2>1. \A u \in Threads : NotMade(u) => NotMade(u)'
    BY DEF NotMade
  <2>2. pc'[Loop] = "cleanupOrphans" => pc[Loop] = "cleanupOrphans"
    BY Zenon
  <2> QED BY <2>1, <2>2, Zenon DEF Leaves
<1> HIDE <1>1, <1>2 DEF Background
<1> QED BY <1>3, <1>4, <1>5, <1>6, <1>7, Zenon

\* The exit monitors, the event loop, the end of the task and the containers of the pod take such
\* steps.
LEMMA MonitorEffect ==
    ASSUME Types, Loop \in Procs, NEW p \in Procs, Monitor(p)
    PROVE  Types' /\ Background
BY SMTT(60) DEF Monitor, MonitorFires, MonitorSends, Fine, Fault, object, net, ctrd, disk, chans, rpc, env, Types,
       Background, InUse

\* The event loop, when it takes an exit or retries one, changes nothing of the sandbox.
LEMMA EventLoopEffect ==
    ASSUME Types, Loop \in Procs, EventLoop
    PROVE  Types' /\ Background
BY DEF EventLoop, LoopReceives, LoopRetries, Handle, At, Goto, Fine, Fault, object, net, ctrd, disk, mons,
       rpc, env, Types, Background, InUse, ExitSteps

\* Nor does the end of the process.
LEMMA TaskEffect ==
    ASSUME Types, TaskExits \/ UNCHANGED vars
    PROVE  Types' /\ Background
BY Zenon DEF TaskExits, Alive, vars, object, net, ctrd, disk, mons, chans, rpc, env, Types, Background, InUse

\* Nor do the steps of its containers.
LEMMA CntrEffect ==
    ASSUME Types, NEW c \in Containers, Cntr(c)
    PROVE  Types' /\ Background
<1>1. PICK a \in CntrStates, b \in CntrStates :
         /\ CntrStep(c, a, b) /\ (a = "none" => inStore)
         /\ b \in {"tasked", "running"} => a \in {"tasked", "running"} \/ task # "none"
  BY Zenon DEF Cntr, CreateContainer, StartContainer, CntrExits, CntrStates, Alive
<1>2. Types'
  BY <1>1, Zenon DEF CntrStep, Types, object, net, ctrd, disk, mons, chans, rpc, env
<1>3. Background
  BY <1>1, Zenon DEF CntrStep, Types, Background, InUse, object, net, ctrd, disk, mons, chans, rpc, env
<1> QED BY <1>2, <1>3, Zenon

\* What runs beside the calls keeps the invariant.
LEMMA BackgroundStep ==
    ASSUME IInv,
           \/ \E p \in Procs : Monitor(p)
           \/ EventLoop \/ TaskExits \/ UNCHANGED vars
           \/ \E c \in Containers : Cntr(c)
    PROVE  IInv'
BY MonitorEffect, EventLoopEffect, TaskEffect, CntrEffect, BackgroundEffect, Zenon DEF IInv, Procs

-----------------------------------------------------------------------------
(* Steps of recovery *)

\* Recovery goes on or ends.  It shows NOTREADY only without a task and READY only with a
\* monitor, and skips a sandbox only with an error or when containerd does not have it.
Loads ==
    /\ ~up /\ pc[Loop] \in LoadSteps /\ (\A q \in Procs : q # Loop => pc'[q] = pc[q])
    /\ pc'[Loop] \in IF up' THEN {"idle"} ELSE LoadSteps
    /\ UNCHANGED <<hostNet, netns, network, cntrd, cntr>>
    /\ pc'[Loop] \in LoadSteps \ {"cleanupOrphans"} => ~inStore' /\ ~stopCh'
    /\ inStore' \/ ~reserved'
    /\ (task = "none" => task' = "none") /\ (state' = "NOTREADY" => task' = "none")
    /\ (stopCh' => state' = "NOTREADY") /\ (unclean => unclean')
    /\ state' = "READY" => monitor'[Loop] # "off" \/ exitCh' + backOff' + batch' > 0
    /\ (task = "none" /\ state # "READY" => state' # "READY")
    /\ ~cntrd /\ pc[Loop] \in {"load", "cleanupOrphans"} =>
          pc'[Loop] \in {"cleanupOrphans", "idle"} /\ (inStore' <=> inStore)
    /\ ~unclean' /\ pc'[Loop] = "cleanupOrphans" /\ cntrd => inStore'
    /\ ~unclean' /\ up' /\ ~inStore' => ~cntrd /\ ~rootDir' /\ ~volatileDir' /\ ~shm'

\* Such a step preserves the invariant: no call is served meanwhile.
LEMMA LoadEffect ==
    ASSUME Types, Control, Exits, Stops, Removes, Leaves, Loads
    PROVE  Control' /\ Exits' /\ Stops' /\ Removes' /\ Leaves'
<1>1. DOMAIN pc = Procs /\ Loop \in Procs /\ Loop \notin Threads
  BY SandboxAssumption, Zenon DEF Types, Procs
<1>2. \A u \in Threads : u \in Procs /\ pc[u] = "idle" /\ pc'[u] = "idle"
  BY <1>1, Zenon DEF Loads, Procs, Control
<1>3. \A q \in Procs : q \in Threads \/ q = Loop
  BY Zenon DEF Procs
<1> USE <1>1, <1>2, <1>3 DEF Loads
<1>4. Control'
  BY ZenonT(60) DEF Control, LoadSteps, Running, RunSteps, UndoSteps
<1>5. Exits'
  BY Zenon DEF Exits, LoadSteps, ExitSteps
<1>6. Stops' /\ Removes'
  BY DEF Stops, Stopped, Removes, Removed, InUse, AfterFiles, AfterTask, AfterCheck, AfterCntrs,
         RemoveSteps, ExitSteps
<1>7. Leaves'
  <2>1. \A u \in Threads : NotMade(u)'
    BY Zenon DEF NotMade, Running, RunSteps, UndoSteps
  <2> QED BY <2>1, Zenon DEF Leaves, Removes
<1> HIDE <1>1, <1>2, <1>3 DEF Loads
<1> QED BY <1>4, <1>5, <1>6, <1>7, Zenon

\* Every step of recover and loadSandbox preserves the invariant.
LEMMA RecoverEffect ==
    ASSUME IInv, Recover
    PROVE  Types' /\ Loads
<1>0. /\ Types /\ Loop \in Procs /\ (pc[Loop] \in LoadSteps \ {"cleanupOrphans"} => ~inStore /\ ~stopCh)
      /\ (~up => inStore \/ ~reserved) /\ (state = "NOTREADY" => task = "none")
      /\ (stopCh => state = "NOTREADY")
  BY Zenon DEF IInv, Control, Exits, Procs
<1>a. ~up /\ state = "READY" => monitor[Loop] # "off" \/ exitCh + backOff + batch > 0
  BY Zenon DEF IInv, Exits, Control
<1>b. ~up /\ ~unclean /\ pc[Loop] = "cleanupOrphans" /\ cntrd => inStore
  BY Zenon DEF IInv, Leaves
<1> USE <1>0, <1>a, <1>b DEF At, Goto, Fine, Fault, object, net, ctrd, disk, mons, chans,
    rpc, env, Types, Clean, Logged, Loading, Loads, LoadSteps
<1>1. CASE LoadMetadata
  BY <1>1 DEF LoadMetadata
<1>2. CASE LoadTask
  BY <1>2, Zenon DEF LoadTask, Alive, States
<1>3. CASE LoadWait
  BY <1>3, Zenon DEF LoadWait, States
<1>4. CASE LoadDelete
  BY <1>4, Zenon DEF LoadDelete, TaskDeleteFails, States
<1>5. CASE LoadAdd
  BY <1>5, Zenon DEF LoadAdd
<1>6. CASE cleanupOrphanedIDDirs
  BY <1>6 DEF cleanupOrphanedIDDirs
<1> HIDE <1>0, <1>a, <1>b DEF At, Goto, Fine, Fault, object, net, ctrd, disk, mons, chans,
    rpc, env, Types, Clean, Logged, Loading, Loads, LoadSteps
<1> QED BY <1>1, <1>2, <1>3, <1>4, <1>5, <1>6, Zenon DEF Recover

\* Recovery keeps the invariant.
LEMMA RecoverStep ==
    ASSUME IInv, Recover
    PROVE  IInv'
BY RecoverEffect, LoadEffect, Zenon DEF IInv

\* A crash at any point leaves what containerd and the disk have.
LEMMA CrashStep ==
    ASSUME IInv, Crash
    PROVE  IInv'
<1>0. Loop \in Procs /\ Loop \notin Threads /\ \A u \in Threads : u \in Procs
  BY SandboxAssumption, Zenon DEF Procs
<1>1. /\ ~up' /\ ~inStore' /\ state' = "UNKNOWN" /\ ~stopCh' /\ ~reserved'
      /\ \A u \in Threads : pc'[u] = "idle"
      /\ pc'[Loop] = "load" /\ hostNet' = hostNet /\ netns' = netns /\ network' = network
      /\ cntrd' = cntrd /\ task' = task
  BY <1>0, Zenon DEF Crash, net, ctrd
<1>2. ~unclean' => ~unclean /\ (cntrd \/ (netns = "none" /\ ~network))
  BY Zenon DEF Crash
<1>3. \A c \in Containers : InUse(c)' => InUse(c)
  BY Zenon DEF Crash, CrashedCntr, InUse, CntrStates
<1>4. Types'
  BY Zenon DEF Crash, Types, States
<1>5. \A q \in Procs : pc'[q] \in {"idle", "load"}
  BY <1>1, Zenon DEF Procs
<1>6. Control' /\ Exits'
  BY <1>0, <1>1, <1>5, Zenon DEF Control, Exits, LoadSteps, Running, RunSteps, UndoSteps, ExitSteps
<1>7. \A t \in Threads : Stopped(t)' /\ Removed(t)'
  BY <1>1, Zenon DEF Stopped, Removed, AfterFiles, AfterTask, AfterCheck, AfterCntrs, RemoveSteps, ExitSteps
<1>8. Stops' /\ Removes'
  BY <1>1, <1>2, <1>3, <1>7, Zenon DEF IInv, Stops, Removes
<1>9. Leaves'
  <2>1. \A t \in Threads : NotMade(t)'
    BY <1>1, Zenon DEF NotMade, Running, RunSteps, UndoSteps
  <2> QED BY <1>1, <1>2, <2>1, Zenon DEF IInv, Leaves
<1> QED BY <1>4, <1>6, <1>8, <1>9, Zenon DEF IInv

\* So do others that delete the task or the container while the plugin is down.
LEMMA OutsideStep ==
    ASSUME IInv, OutsideDeletes
    PROVE  IInv'
<1> USE DEF OutsideDeletes, object, net, disk, mons, chans, rpc, env
<1>1. Types'
  BY Zenon DEF IInv, Types
<1>2. Control'
  BY Zenon DEF IInv, Control
<1>3. Exits' /\ Stops'
  BY ZenonT(60) DEF IInv, Exits, Stops, Stopped
<1>4. Removes'
  <2>1. \A u \in Threads : pc[u] = "idle"
    BY Zenon DEF IInv, Control
  <2> QED BY <2>1 DEF IInv, Removes, Removed, InUse, AfterCntrs, AfterCheck, RemoveSteps
<1>5. Leaves'
  BY DEF IInv, Leaves, NotMade
<1> QED BY <1>1, <1>2, <1>3, <1>4, <1>5, Zenon DEF IInv

-----------------------------------------------------------------------------
(* The theorems *)

\* The invariant is inductive: no step of a call, of the event monitor, of recovery or of the
\* environment breaks it.
LEMMA InitInvariant == Init => IInv
<1> SUFFICES ASSUME Init PROVE IInv
  BY Zenon
<1>1. PICK t \in Threads : pc = [p \in Procs |-> IF p = t THEN "image" ELSE "idle"]
  BY Zenon DEF Init
<1> USE <1>1, SandboxAssumption DEF Init, Procs
<1>2. Types
  BY Zenon DEF Types, States, CntrStates
<1>3. Control /\ Exits
  BY Zenon DEF Control, Exits, ExitSteps, LoadSteps, Running, RunSteps, UndoSteps
<1>4. Stops /\ Removes
  BY Zenon DEF Stops, Stopped, Removes, Removed, InUse, AfterFiles, AfterTask, AfterCheck, AfterCntrs,
         RemoveSteps, ExitSteps
<1>5. Leaves
  BY Zenon DEF Leaves, NotMade, Running, RunSteps, UndoSteps
<1> QED BY <1>2, <1>3, <1>4, <1>5, Zenon DEF IInv

\* Every step keeps the invariant.
LEMMA NextInvariant == IInv /\ [Next]_vars => IInv'
<1> SUFFICES ASSUME IInv, [Next]_vars PROVE IInv'
  BY Zenon
<1>1. Quiet => UNCHANGED vars
  BY Zenon DEF Quiet
<1> QED BY <1>1, BeginStep, RunStep, StopStep, RemoveStep, ExitStep, BackgroundStep, RecoverStep,
           CrashStep, OutsideStep, Zenon DEF Next

\* The inductive invariant holds throughout, whatever calls, exits, faults, crashes and recoveries of
\* the plugin follow each other.
THEOREM SandboxInvariant == Spec => []IInv
BY InitInvariant, NextInvariant, PTL DEF Spec

\* Every variable keeps its type, and the exit channel never holds more than its capacity.
THEOREM SandboxTypeOK == Spec => []TypeOK
<1>1. TypeOK /\ IInv /\ [Next]_vars => TypeOK'
  BY NextTypes, Zenon
<1> QED BY <1>1, InitTypes, SandboxInvariant, PTL DEF Spec

\* A sandbox the store shows NOTREADY has no task, whoever recorded its end and whatever failed.
THEOREM SandboxNotReadyMeansDead == Spec => []NotReadyMeansDead
<1>1. IInv => NotReadyMeansDead
  BY Zenon DEF IInv, Exits, NotReadyMeansDead
<1> QED BY <1>1, SandboxInvariant, PTL

\* The end of a READY sandbox is still going to be reported, also across restarts.
THEOREM SandboxExitNeverLost == Spec => []ExitNeverLost
<1>1. IInv => ExitNeverLost
  BY Zenon DEF IInv, Exits, ExitNeverLost
<1> QED BY <1>1, SandboxInvariant, PTL

\* A stop that succeeds leaves no task, network, namespace or /dev/shm, however calls overlap.
THEOREM SandboxStopMeansStopped == Spec => []StopMeansStopped
<1>1. IInv => StopMeansStopped
  BY Zenon DEF IInv, Stops, Stopped, StopMeansStopped, At, AfterFiles, AfterTask
<1> QED BY <1>1, SandboxInvariant, PTL

\* No container runs in a sandbox that was removed, however creations and starts race with it.
THEOREM SandboxRemovedRunsNothing == Spec => []RemovedSandboxRunsNothing
<1>1. IInv => RemovedSandboxRunsNothing
  BY Zenon DEF IInv, Removes, InUse, RemovedSandboxRunsNothing
<1> QED BY <1>1, SandboxInvariant, PTL

\* A sandbox that is not in the store has left nothing behind once nothing is in progress, unless
\* a cleanup failed or was cut short.
THEOREM SandboxNothingLeaks == Spec => []NothingLeaks
<1>1. IInv => NothingLeaks
  <2> SUFFICES ASSUME IInv, up, ~inStore, ~unclean, \A p \in Procs : pc[p] = "idle"
               PROVE  /\ ~reserved /\ netns = "none" /\ ~network /\ ~cntrd /\ task = "none"
                      /\ ~rootDir /\ ~volatileDir /\ ~shm
    BY Zenon DEF NothingLeaks
  <2>1. \A t \in Threads : pc[t] = "idle"
    BY Zenon DEF Procs
  <2> QED BY <2>1, Zenon DEF IInv, Leaves, Running, RunSteps, UndoSteps
<1> QED BY <1>1, SandboxInvariant, PTL

-----------------------------------------------------------------------------
(* The states that are shown *)

\* A step of a call keeps the state that is shown, or takes the sandbox out of the store.
LEMMA CallShown ==
    ASSUME IInv, TypeOK, TypeOK', ShownAgrees, shown' = Show,
           NEW t \in Threads, Calls(t), Removed(t)', Stopped(t)'
    PROVE  ShownAgrees' /\ [Machine!Next]_<<up, shown>>
<1>1. up /\ up' /\ up' = up /\ t \in Procs
  BY Zenon DEF Calls, TypeOK, FlagType, ValueType, Procs
<1>2. \A u \in Threads : pc'[u] \notin (RunSteps \ {"startMonitor"}) \cup UndoSteps
  BY Zenon DEF Calls, IInv, Control, Running, Procs
<1>3. CASE inStore'
  BY <1>1, <1>2, <1>3, Zenon DEF Calls, Show, ShownAgrees
<1>4. CASE inStore /\ ~inStore'
  <2>1. state' = state /\ state # "UNKNOWN" /\ state \in States /\ ~cntrd'
    BY <1>4, Zenon DEF Calls, Removed, Stopped, AfterTask, RemoveSteps, TypeOK, FlagType, ValueType
  <2>2. shown = state /\ shown' = "DELETED"
    BY <1>1, <1>4, <2>1, Zenon DEF ShownAgrees, Show, States
  <2> QED BY <1>1, <1>2, <1>4, <2>1, <2>2, Zenon
          DEF ShownAgrees, States, Machine!Next, Machine!Remove, Machine!Move
<1>5. CASE ~inStore /\ ~inStore'
  <2>1. ~cntrd /\ ~cntrd'
    BY <1>5, Zenon DEF Calls, IInv, Control
  <2> QED BY <1>1, <1>2, <1>5, <2>1, Zenon DEF ShownAgrees, Show
<1> QED BY <1>3, <1>4, <1>5, Zenon

\* RunPodSandbox shows nothing before the sandbox is in the store, and READY then.
LEMMA RunShown ==
    ASSUME IInv, TypeOK, TypeOK', ShownAgrees, shown' = Show, NEW t \in Threads, Runs(t)
    PROVE  ShownAgrees' /\ [Machine!Next]_<<up, shown>>
<1>1. up /\ up' /\ up' = up /\ shown = "none"
  BY Zenon DEF Runs, TypeOK, FlagType, ValueType, ShownAgrees, Running
<1>2. CASE ~inStore'
  BY <1>1, <1>2, Zenon DEF Show, ShownAgrees
<1>3. CASE inStore'
  <2>1. shown' = "READY" /\ state' = "READY" /\ pc'[t] = "startMonitor"
    BY <1>1, <1>3, ZenonT(60) DEF Runs, Show
  <2>2. \A u \in Threads : pc'[u] \notin (RunSteps \ {"startMonitor"}) \cup UndoSteps
    BY <2>1 DEF Runs, IInv, Control, Procs, RunSteps, UndoSteps
  <2> QED BY <1>1, <1>3, <2>1, <2>2, Zenon DEF ShownAgrees, Machine!Next, Machine!Run, Machine!Move
<1> QED BY <1>2, <1>3, Zenon

\* The end of the sandbox container is the only other change while calls are served.
LEMMA ExitShown ==
    ASSUME IInv, TypeOK, TypeOK', ShownAgrees, shown' = Show, NEW p \in Procs, HandlesExit(p)
    PROVE  ShownAgrees' /\ [Machine!Next]_<<up, shown>>
<1>1. up /\ up' /\ up' = up /\ inStore' = inStore /\ cntrd' = cntrd
  BY Zenon DEF HandlesExit, TypeOK, FlagType, ValueType
<1>2. \A u \in Threads : pc'[u] \in (RunSteps \ {"startMonitor"}) \cup UndoSteps => pc'[u] = pc[u]
  BY Zenon DEF HandlesExit, Procs, RunSteps, UndoSteps, ExitSteps
<1>3. CASE ~inStore
  BY <1>1, <1>2, <1>3, Zenon DEF Show, ShownAgrees
<1>4. CASE inStore
  <2>1. shown = state /\ shown' = state' /\ state \in States
    BY <1>1, <1>4, Zenon DEF Show, ShownAgrees, TypeOK, FlagType, ValueType
  <2>2. \A u \in Threads : pc'[u] \notin (RunSteps \ {"startMonitor"}) \cup UndoSteps
    BY <1>2, <1>4, SandboxAssumption, Zenon DEF IInv, Control, Running
  <2>3. state' = state \/ state' = "NOTREADY"
    BY Zenon DEF HandlesExit
  <2> QED BY <1>1, <1>4, <2>1, <2>2, <2>3, Zenon
          DEF ShownAgrees, States, Machine!Next, Machine!StopOrExit, Machine!StopUnknown, Machine!Move
<1> QED BY <1>3, <1>4, Zenon

\* Recovery shows a state the state machine allows, and keeps what was shown until then.
LEMMA LoadShown ==
    ASSUME IInv, TypeOK, TypeOK', ShownAgrees, shown' = Show, Loads
    PROVE  ShownAgrees' /\ [Machine!Next]_<<up, shown>>
<1>1. ~up /\ up = FALSE /\ cntrd' = cntrd /\ state' \in States /\ inStore' \in BOOLEAN
  BY Zenon DEF Loads, TypeOK, FlagType, ValueType
<1>2. \A u \in Threads : pc'[u] = "idle"
  BY <1>1, SandboxAssumption, Zenon DEF Loads, IInv, Control, Procs
<1>3. /\ shown = "DELETED" => ~cntrd /\ ~inStore' /\ pc'[Loop] \in {"cleanupOrphans", "idle"}
      /\ shown = "NOTREADY" => task' = "none" /\ state' # "READY"
  BY <1>1, Zenon DEF ShownAgrees, Loads
<1>4. CASE up'
  <2>1. up' = TRUE
    BY <1>4, Zenon DEF TypeOK, FlagType, ValueType
  <2>2. shown' \in Machine!Loadable(shown)
    BY <1>1, <1>3, <2>1, Zenon DEF Show, Machine!Loadable, States
  <2>3. ShownAgrees'
    BY <1>2, <1>4, Zenon DEF Show, ShownAgrees, RunSteps, UndoSteps
  <2> QED BY <1>1, <2>1, <2>2, <2>3, Zenon DEF Machine!Next, Machine!Load
<1>5. CASE ~up'
  <2>1. up' = up /\ shown' = shown
    BY <1>1, <1>5, Zenon DEF TypeOK, FlagType, ValueType, Show
  <2>2. pc'[Loop] # "idle"
    BY <1>5, Zenon DEF Loads, LoadSteps
  <2>3. ShownAgrees'
    BY <1>1, <1>2, <1>3, <1>5, <2>1, <2>2, Zenon DEF ShownAgrees, RunSteps, UndoSteps
  <2> QED BY <2>1, <2>3, Zenon
<1> QED BY <1>4, <1>5, Zenon

\* A crash, others while the plugin is down, and the background change nothing that is shown.
LEMMA OutsideShown ==
    ASSUME IInv, TypeOK, TypeOK', ShownAgrees, shown' = Show,
           Background \/ OutsideDeletes \/ Crash
    PROVE  ShownAgrees' /\ [Machine!Next]_<<up, shown>>
<1>1. CASE Background
  <2>1. /\ up' = up /\ inStore' = inStore /\ state' = state /\ cntrd' = cntrd
        /\ (task = "none" => task' = "none") /\ \A u \in Threads : pc'[u] = pc[u]
        /\ ~up => pc'[Loop] = pc[Loop]
    BY <1>1, SandboxAssumption, Zenon DEF Background, Procs
  <2>2. shown' = shown
    BY <2>1, Zenon DEF Show, ShownAgrees
  <2> QED BY <2>1, <2>2, Zenon DEF ShownAgrees
<1>2. CASE OutsideDeletes
  <2>1. /\ ~up /\ up' = up /\ inStore' = inStore /\ state' = state /\ pc' = pc
        /\ (task = "none" => task' = "none") /\ (~cntrd => ~cntrd')
    BY <1>2 DEF OutsideDeletes, object
  <2>2. shown' = shown
    BY <2>1, Zenon DEF Show
  <2> QED BY <2>1, <2>2, Zenon DEF ShownAgrees
<1>3. CASE Crash
  <2>1. /\ ~up' /\ up' = FALSE /\ ~inStore' /\ state' = "UNKNOWN" /\ task' = task /\ cntrd' = cntrd
        /\ pc'[Loop] = "load" /\ \A u \in Threads : pc'[u] = "idle"
    BY <1>3, SandboxAssumption, Zenon DEF Crash, ctrd, Procs
  <2>2. shown' = shown
    BY <2>1, Zenon DEF Show
  <2>3. /\ shown = "DELETED" => ~cntrd
        /\ shown = "NOTREADY" => task = "none"
    BY Zenon DEF ShownAgrees, IInv, Exits, TypeOK, FlagType, ValueType, States
  <2>4. ShownAgrees'
    BY <2>1, <2>2, <2>3, Zenon DEF ShownAgrees, RunSteps, UndoSteps
  <2> QED BY <2>1, <2>2, <2>4, Zenon DEF Machine!Next, Machine!Crash
<1> QED BY <1>1, <1>2, <1>3, Zenon

\* Every step of the sandbox is a step of the state machine or leaves it where it is.
LEMMA StepShown ==
    ASSUME IInv, TypeOK, TypeOK', ShownAgrees, [ShownNext]_<<vars, shown>>
    PROVE  ShownAgrees' /\ [Machine!Next]_<<up, shown>>
<1>1. CASE UNCHANGED <<vars, shown>>
  BY <1>1, Zenon DEF ShownAgrees, vars, object, ctrd
<1>2. CASE ShownNext
  <2>1. Next /\ shown' = Show
    BY <1>2, Zenon DEF ShownNext
  <2>2. ASSUME NEW t \in Threads, StopPodSandbox(t) \/ RemovePodSandbox(t) \/ Stop(t) \/ Remove(t)
                                  \/ RunStartMonitor(t)
        PROVE  ShownAgrees' /\ [Machine!Next]_<<up, shown>>
    BY <2>1, <2>2, BeginEffect, StopEffect, RemoveEffect, StartMonitorEffect, CallShown, Zenon
  <2>3. ASSUME NEW t \in Threads, Run(t), ~RunStartMonitor(t)
        PROVE  ShownAgrees' /\ [Machine!Next]_<<up, shown>>
    BY <2>1, <2>3, RunEffect, RunShown, Zenon
  <2>4. ASSUME NEW p \in Procs, handleSandboxExit(p)
        PROVE  ShownAgrees' /\ [Machine!Next]_<<up, shown>>
    BY <2>1, <2>4, ExitEffect, ExitShown, Zenon
  <2>5. CASE \/ \E p \in Procs : Monitor(p)
             \/ EventLoop \/ TaskExits \/ Quiet
             \/ \E c \in Containers : Cntr(c)
    BY <2>1, <2>5, MonitorEffect, EventLoopEffect, TaskEffect, CntrEffect, OutsideShown, Zenon
    DEF IInv, Procs, Quiet
  <2>6. CASE OutsideDeletes \/ Crash
    BY <2>1, <2>6, OutsideShown, Zenon
  <2>7. CASE Recover
    BY <2>1, <2>7, RecoverEffect, LoadShown, Zenon
  <2> QED BY <2>1, <2>2, <2>3, <2>4, <2>5, <2>6, <2>7, Zenon DEF Next
<1> QED BY <1>1, <1>2, Zenon

\* The states callers see follow PodSandboxStateMachine: a sandbox that was NOTREADY is never READY
\* again, although recovery rebuilds the state from the task alone.
THEOREM SandboxImplementsStateMachine == ShownSpec => ImplementsSandboxStateMachine
<1>1. ShownInit => IInv /\ TypeOK /\ ShownAgrees /\ Machine!Init
  BY InitInvariant, InitTypes, Zenon DEF ShownInit, ShownAgrees, Init, Machine!Init
<1>2. IInv /\ TypeOK /\ ShownAgrees /\ [ShownNext]_<<vars, shown>> =>
         IInv' /\ TypeOK' /\ ShownAgrees' /\ [Machine!Next]_<<up, shown>>
  BY NextInvariant, NextTypes, StepShown, Zenon DEF ShownNext
<1> QED BY <1>1, <1>2, PTL DEF ShownSpec, ImplementsSandboxStateMachine, Machine!Spec

=============================================================================
