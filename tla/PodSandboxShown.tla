-------------------------- MODULE PodSandboxShown ---------------------------
(***************************************************************************)
(* PodSandbox with a history variable: the state of the sandbox in the     *)
(* store, kept while the plugin is down.  Seen through it the life of the  *)
(* sandbox implements PodSandboxStateMachine.                              *)
(***************************************************************************)
EXTENDS PodSandbox

VARIABLE shown

ShownInit == Init /\ shown = "none"

\* What a caller that looks the sandbox up sees after a step.  Where the container is gone
\* from containerd too the sandbox has been removed, else it could not be loaded.
Show ==
    IF ~up' THEN shown
    ELSE IF inStore' THEN state'
    ELSE IF shown = "none" THEN "none"
    ELSE IF cntrd' THEN "LOST" ELSE "DELETED"

ShownNext == Next /\ shown' = Show

ShownSpec == ShownInit /\ [][ShownNext]_<<vars, shown>> /\ Fairness

\* What is shown agrees with the sandbox object while calls are served, and with what containerd
\* has left of a sandbox that is removed or could not be loaded; while the plugin is down it is
\* what recovery must not contradict.
ShownAgrees ==
    /\ up /\ inStore => shown = state
    /\ up /\ ~inStore => shown = "none" \/ shown = IF cntrd THEN "LOST" ELSE "DELETED"
    /\ ~up /\ shown = "DELETED" => /\ ~cntrd /\ ~inStore
                                   /\ pc[Loop] \in {"load", "cleanupOrphans"}
    /\ ~up /\ shown = "NOTREADY" => task = "none" /\ state # "READY"
    /\ \A t \in Threads : pc[t] \in (RunSteps \ {"startMonitor"}) \cup UndoSteps => shown = "none"

Machine == INSTANCE PodSandboxStateMachine WITH state <- shown

\* The states shown follow the state machine: whatever calls, exits, errors and restarts
\* interleave, a sandbox that was NOTREADY is never READY again, although its status is not
\* checkpointed (statusStorage) and recovery rebuilds it from the task alone.
ImplementsSandboxStateMachine == Machine!Spec

=============================================================================
