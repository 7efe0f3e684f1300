-------------------------- MODULE ContainerReported --------------------------
(***************************************************************************)
(* ContainerLifecycle with a history variable: the state that the plugin   *)
(* reports for the container, kept while the plugin is down.  The          *)
(* lifecycle seen through it implements ContainerStateMachine.             *)
(***************************************************************************)
EXTENDS ContainerLifecycle

VARIABLE reported

ReportedInit == Init /\ reported = "none"

\* What a caller sees after a step.  A container that is not in the store was not created
\* yet, has been removed, or could not be loaded.
Report ==
    IF ~up' THEN reported
    ELSE IF inStore' THEN State(status')
    ELSE IF reported \in {"none", "DELETED"} THEN reported
    ELSE IF status'.removing THEN "DELETED" ELSE "LOST"

ReportedNext == Next /\ reported' = Report

ReportedSpec == ReportedInit /\ [][ReportedNext]_<<vars, reported>>

\* What ties the state reported last to the container, in memory, on disk and in containerd: it is
\* what a restart has to find again.
Remembered ==
    /\ up /\ inStore => reported = State(status)
    /\ up /\ ~inStore => /\ reported \in {"none", "LOST", "DELETED"}
                         /\ status.removing => reported = "DELETED"
    /\ \A t \in Threads : pc[t] \in CreateSteps => reported = "none"
    /\ reported = "DELETED" => ~cntrd /\ ~inStore
    /\ reported = "none" => task = "none" /\ ~inStore
    /\ \A c \in ckpt : /\ reported = "none" => ~c.started /\ c.exit = "none"
                       /\ reported = "RUNNING" => c.started \/ c.exit # "none"
                       /\ reported = "EXITED" => c.exit # "none"
    /\ pc[Loop] \in {"loadTask", "storeLoaded"} =>
          /\ reported # "DELETED"
          /\ reported = "none" => ~status.started /\ status.exit = "none"
          /\ reported = "RUNNING" => status.unknown \/ status.started \/ status.exit # "none"
          /\ reported = "EXITED" => status.unknown \/ status.exit # "none"

Machine == INSTANCE ContainerStateMachine WITH state <- reported

\* The states callers see follow the state machine, however calls interleave with the event loop,
\* the exit monitors, failing operations and restarts: an exited container never runs again unless
\* a restart could not tell its state, and a removed one never comes back.
ImplementsStateMachine == Machine!Spec

\* "The container state machine in the CRI plugin" as drawn in status.go has every transition.
StateMachineAsDrawn == Machine!OnlyDrawn

=============================================================================
