----------------------- MODULE PodSandboxStateMachine -----------------------
(***************************************************************************)
(* What the CRI plugin promises about the state of a pod sandbox: the      *)
(* state machine drawn at the top of pkg/store/sandbox/status.go, with the *)
(* edge of the removal of a sandbox whose end is not recorded yet, and the *)
(* edges of a restart.                                                     *)
(***************************************************************************)

VARIABLES up,      \* the plugin serves calls
          state    \* the state it shows, or showed last before it went down

\* "none": not run yet.  "LOST": the plugin could not load the sandbox.
ShownStates == {"none", "READY", "NOTREADY", "UNKNOWN", "DELETED", "LOST"}

Init == up = TRUE /\ state = "none"

Move(from, to) == up /\ up' = up /\ state = from /\ state' = to

Run == Move("none", "READY")
StopOrExit == Move("READY", "NOTREADY")
StopUnknown == Move("UNKNOWN", "NOTREADY")
Remove == Move("NOTREADY", "DELETED") \/ Move("READY", "DELETED")

Crash == up' = FALSE /\ state' = state

\* The states a restart may show for a sandbox that was in state s: a sandbox that has been
\* NOTREADY never becomes READY, unless its state was lost in between.
Loadable(s) ==
    CASE s = "none"     -> {"none", "READY", "NOTREADY", "UNKNOWN"}
      [] s = "NOTREADY" -> {"NOTREADY", "UNKNOWN", "DELETED", "LOST"}
      [] s = "DELETED"  -> {"DELETED"}
      [] OTHER          -> {"READY", "NOTREADY", "UNKNOWN", "DELETED", "LOST"}

Load == ~up /\ up' = TRUE /\ state' \in Loadable(state)

Next == Run \/ StopOrExit \/ StopUnknown \/ Remove \/ Crash \/ Load

Spec == Init /\ [][Next]_<<up, state>>

=============================================================================
