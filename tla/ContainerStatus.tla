--------------------------- MODULE ContainerStatus ---------------------------
(***************************************************************************)
(* The status of one container, pkg/store/container/status.go: the record  *)
(* kept in memory, the part of it that is checkpointed to disk, and the    *)
(* CRI state computed from it.                                             *)
(*                                                                         *)
(* Timestamps are abstracted to whether they are zero.  FinishedAt and     *)
(* ExitCode are always written together, so one field "exit" holds both:   *)
(* "none" is FinishedAt = 0, the other values say whose exit code it is.   *)
(***************************************************************************)

\* Who wrote FinishedAt/ExitCode: the exit status of the task, the code used
\* when the exit status is not known (255), or a failed StartContainer (128).
Exits == {"task", "unknown", "error"}

\* The fields of Status.  starting, removing and unknown are tagged json:"-".
Status == [created  : BOOLEAN, started : BOOLEAN, exit : Exits \cup {"none"},
           oom      : BOOLEAN,
           starting : BOOLEAN, removing : BOOLEAN, unknown : BOOLEAN]

\* What the status file holds.
Checkpoint == [created : BOOLEAN, started : BOOLEAN, exit : Exits \cup {"none"},
               oom : BOOLEAN]

States == {"CREATED", "RUNNING", "EXITED", "UNKNOWN"}

ZeroStatus == [created |-> FALSE, started |-> FALSE, exit |-> "none", oom |-> FALSE,
               starting |-> FALSE, removing |-> FALSE, unknown |-> FALSE]

State(s) ==
    IF s.unknown THEN "UNKNOWN"
    ELSE IF s.exit # "none" THEN "EXITED"
    ELSE IF s.started THEN "RUNNING"
    ELSE IF s.created THEN "CREATED"
    ELSE "UNKNOWN"

encode(s) == [created |-> s.created, started |-> s.started, exit |-> s.exit, oom |-> s.oom]

\* Mutant: FinishedAt is not stored.
decodeNoExit(c) ==
    [created |-> c.created, started |-> c.started, exit |-> "none", oom |-> c.oom,
     starting |-> FALSE, removing |-> FALSE, unknown |-> FALSE]

decode(c) == [created |-> c.created, started |-> c.started, exit |-> c.exit, oom |-> c.oom,
              starting |-> FALSE, removing |-> FALSE, unknown |-> FALSE]

unknownContainerStatus == [ZeroStatus EXCEPT !.unknown = TRUE]

=============================================================================
