------------------------ MODULE ContainerStateMachine ------------------------
(***************************************************************************)
(* What the CRI plugin promises about the state it reports for a container *)
(* (ListContainers, ContainerStatus): the state machine drawn at the top   *)
(* of pkg/store/container/status.go, with the edges of a failed start, of  *)
(* the removal of a container that was never started, and of a restart.    *)
(***************************************************************************)

VARIABLES up,     \* the plugin serves calls
          state   \* the state it reports, or reported last before it went down

\* "none": not created yet.  "LOST": the plugin could not load the container.
ReportedStates == {"none", "CREATED", "RUNNING", "EXITED", "UNKNOWN", "DELETED", "LOST"}

Init == up = TRUE /\ state = "none"

Move(from, to) == up /\ up' = up /\ state = from /\ state' = to

Create == Move("none", "CREATED")
Start == Move("CREATED", "RUNNING")
StartFails == Move("CREATED", "EXITED")
Exit == Move("RUNNING", "EXITED")
StopUnknown == Move("UNKNOWN", "EXITED")
Remove == Move("EXITED", "DELETED") \/ Move("CREATED", "DELETED")

Crash == up' = FALSE /\ state' = state

\* The states a restart may report for a container that was in state s.
Loadable(s) ==
    CASE s = "none"    -> {"none", "CREATED", "UNKNOWN"}
      [] s = "CREATED" -> {"CREATED", "RUNNING", "EXITED", "UNKNOWN", "LOST"}
      [] s = "RUNNING" -> {"RUNNING", "EXITED", "UNKNOWN", "LOST"}
      [] s = "EXITED"  -> {"EXITED", "UNKNOWN", "LOST"}
      [] s = "DELETED" -> {"DELETED"}
      [] OTHER         -> {"CREATED", "RUNNING", "EXITED", "UNKNOWN", "LOST"}

Load == ~up /\ up' = TRUE /\ state' \in Loadable(state)

Next == Create \/ Start \/ StartFails \/ Exit \/ StopUnknown \/ Remove \/ Crash \/ Load

Spec == Init /\ [][Next]_<<up, state>>

\* The transitions the comment on the state machine draws, while the plugin runs.
Drawn == {<<"none", "CREATED">>, <<"CREATED", "RUNNING">>, <<"RUNNING", "EXITED">>,
          <<"UNKNOWN", "EXITED">>, <<"EXITED", "DELETED">>}

\* "The container state machine in the CRI plugin": no other transition than those drawn.
OnlyDrawn == [][up /\ up' /\ state' # state => <<state, state'>> \in Drawn]_<<up, state>>

=============================================================================
