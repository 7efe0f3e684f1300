---------------------------- MODULE ContainerIO -----------------------------
(***************************************************************************)
(* The output of one container (server/io/container_io.go) and the writer  *)
(* groups it is copied to (ioutil/writer_group.go): the container's log    *)
(* and the streams of the clients that are attached.  Attach is several    *)
(* goroutines: itself, the copier of stdin, and one per output stream that *)
(* waits for the group to close the stream.  ReopenContainerLog replaces   *)
(* the log while output is written.  The mutex of a group is held during a *)
(* Write, writer after writer; Add, Get, Remove and Close are atomic.      *)
(***************************************************************************)
EXTENDS Integers, FiniteSets, Sequences

CONSTANTS
    Attachers,
    MaxIOCalls           \* bound on the calls of Attach and ReopenContainerLog

Groups == {"stdout", "stderr"}

\* The calls of ReopenContainerLog are numbered as they come.  A call is also the
\* log it opens; log 0 is the one that StartContainer opens.
Reopeners == 1..MaxIOCalls
StartLog == 0
Logs == Reopeners \cup {StartLog}
NoLog == -1

VARIABLES
    tty, stdinOnce,      \* the container's configuration
    attached, log,       \* WriterGroup.writers: the attached streams and the "log" entry
    remaining,           \* the writers a Write in progress has yet to write to
    groupClosed,         \* WriterGroup.closed
    pipe,                \* the goroutines of Pipe: "copying", "closing", "done"
    attach,              \* the Attach calls and their goroutines
    informed,            \* how often the writeCloseInformer of a stream was closed
    logger,              \* "none", "open" or "closed", per log and group
    reopen,              \* the ReopenContainerLog calls
    io,                  \* "created", "opened" or "cancelled", "closed"
    overlapped           \* two ReopenContainerLog calls were in progress at once

ioVars == <<tty, stdinOnce, attached, log, remaining, groupClosed, pipe,
            attach, informed, logger, reopen, io, overlapped>>
config == <<tty, stdinOnce>>
group == <<attached, log, groupClosed, informed, logger>>

Piped == IF tty THEN {"stdout"} ELSE Groups

TypeOK ==
    /\ tty \in BOOLEAN /\ stdinOnce \in BOOLEAN
    /\ attached \in [Groups -> SUBSET Attachers] /\ log \in [Groups -> Logs \cup {NoLog}]
    /\ \A g \in Groups : remaining[g] \subseteq attached[g] \cup ({log[g]} \ {NoLog})
    /\ groupClosed \in [Groups -> BOOLEAN]
    /\ pipe \in [Groups -> {"none", "copying", "closing", "done"}]
    /\ \A a \in Attachers :
          /\ attach[a].pc \in {"idle", "stdout", "stderr", "wait", "returned"}
          /\ attach[a].stdin \in {"none", "copying", "stdout", "stderr", "done"}
          /\ attach[a].streams \subseteq Groups /\ attach[a].waiting \subseteq Groups
          /\ attach[a].stdinClosed \in BOOLEAN
    /\ informed \in [Attachers -> [Groups -> 0..2]]
    /\ logger \in [Logs -> [Groups -> {"none", "open", "closed"}]]
    /\ \A r \in Reopeners :
          /\ reopen[r].pc \in {"idle", "getstdout", "addstdout", "getstderr", "addstderr",
                               "close", "done"}
          /\ reopen[r].old \in [Groups -> Logs \cup {NoLog}]
    /\ io \in {"created", "opened", "cancelled", "closed"} /\ overlapped \in BOOLEAN

(* createContainerLoggers: a container with a terminal has no log for stderr. *)
createContainerLoggers(l) == [g \in Groups |-> IF g \in Piped THEN "open" ELSE "none"]

(* StartContainer creates the log, adds it to the groups, and calls Pipe. *)
Init ==
    /\ tty \in BOOLEAN /\ stdinOnce \in BOOLEAN
    /\ attached = [g \in Groups |-> {}]
    /\ log = [g \in Groups |-> IF g \in Piped THEN StartLog ELSE NoLog]
    /\ remaining = [g \in Groups |-> {}] /\ groupClosed = [g \in Groups |-> FALSE]
    /\ pipe = [g \in Groups |-> IF g \in Piped THEN "copying" ELSE "none"]
    /\ attach = [a \in Attachers |-> [pc |-> "idle", stdin |-> "none", streams |-> {},
                                      waiting |-> {}, stdinClosed |-> FALSE]]
    /\ informed = [a \in Attachers |-> [g \in Groups |-> 0]]
    /\ logger = [l \in Logs |-> IF l = StartLog THEN createContainerLoggers(l)
                                ELSE [g \in Groups |-> "none"]]
    /\ reopen = [r \in Reopeners |-> [pc |-> "idle", old |-> [g \in Groups |-> NoLog]]]
    /\ io = "created" /\ overlapped = FALSE

----------------------------------------------------------------------------
(* WriterGroup.  Closing an attached stream informs its goroutine. *)

Free(g) == remaining[g] = {}
Inform(as, g) == [a \in Attachers |-> [informed[a] EXCEPT ![g] = @ + IF a \in as THEN 1 ELSE 0]]

(* A bug: a stream is put into a group that is closed. *)
AddAlways(g, a) ==
    /\ attached' = [attached EXCEPT ![g] = @ \cup {a}]
    /\ UNCHANGED <<log, groupClosed, informed, logger>>

Add(g, a) ==
    IF groupClosed[g]
    THEN informed' = Inform({a}, g) /\ UNCHANGED <<attached, log, groupClosed, logger>>
    ELSE /\ attached' = [attached EXCEPT ![g] = @ \cup {a}]
         /\ UNCHANGED <<log, groupClosed, informed, logger>>

(* Add of a log, under the key "log". *)
AddLog(g, l) ==
    IF groupClosed[g]
    THEN logger' = [logger EXCEPT ![l][g] = "closed"] /\ UNCHANGED <<attached, log, groupClosed, informed>>
    ELSE log' = [log EXCEPT ![g] = l] /\ UNCHANGED <<attached, groupClosed, informed, logger>>

RemoveWriter(g, a) ==
    IF a \in attached[g]
    THEN /\ informed' = Inform({a}, g) /\ attached' = [attached EXCEPT ![g] = @ \ {a}]
         /\ UNCHANGED <<log, groupClosed, logger>>
    ELSE UNCHANGED group

Close(g) ==
    /\ informed' = Inform(attached[g], g)
    /\ logger' = IF log[g] = NoLog THEN logger ELSE [logger EXCEPT ![log[g]][g] = "closed"]
    /\ attached' = [attached EXCEPT ![g] = {}] /\ log' = [log EXCEPT ![g] = NoLog]
    /\ groupClosed' = [groupClosed EXCEPT ![g] = TRUE]

(* Write, by the goroutine of Pipe: some output is there. *)
WriteStart(g) ==
    /\ io = "opened" /\ pipe[g] = "copying" /\ Free(g)
    /\ remaining' = [remaining EXCEPT ![g] = attached[g] \cup ({log[g]} \ {NoLog})]
    /\ UNCHANGED <<config, group, pipe, attach, reopen, io, overlapped>>

(* One writer takes the output, or fails and is closed and removed: an attached
   client may be gone, a log fails when it is closed.  Write fails, and the
   copying ends, when no writer is left. *)
WriteOne(g, w) ==
    /\ w \in remaining[g]
    /\ remaining' = [remaining EXCEPT ![g] = @ \ {w}]
    /\ \/ (w \in Logs => logger[w][g] = "open") /\ UNCHANGED group
       \/ w \in Attachers /\ RemoveWriter(g, w)
       \/ /\ w \in Logs /\ logger[w][g] = "closed" /\ log' = [log EXCEPT ![g] = NoLog]
          /\ UNCHANGED <<attached, groupClosed, informed, logger>>
    /\ pipe' = [pipe EXCEPT ![g] = IF remaining'[g] = {} /\ attached'[g] = {} /\ log'[g] = NoLog
                                   THEN "closing" ELSE @]
    /\ UNCHANGED <<config, attach, reopen, io, overlapped>>

----------------------------------------------------------------------------
(* Pipe, and the fifos: the task opens them, or Cancel gives up on them. *)

TaskOpensFifos ==
    /\ io = "created" /\ io' = "opened"
    /\ UNCHANGED <<config, group, remaining, pipe, attach, reopen, overlapped>>

(* The output ends: all of its writers are gone or the open was cancelled. *)
OutputEnds(g) ==
    /\ pipe[g] = "copying" /\ Free(g) /\ io # "created"
    /\ pipe' = [pipe EXCEPT ![g] = "closing"]
    /\ UNCHANGED <<config, group, remaining, attach, reopen, io, overlapped>>

PipeCloses(g) ==
    /\ pipe[g] = "closing" /\ Free(g) /\ Close(g)
    /\ pipe' = [pipe EXCEPT ![g] = "done"]
    /\ UNCHANGED <<config, remaining, attach, reopen, io, overlapped>>

PipesDone == \A g \in Piped : pipe[g] = "done"

(* The task is deleted: Cancel, which does nothing once the fifos are open, then
   Wait for the goroutines of Pipe, then Close. *)
Cancel ==
    /\ io = "created" /\ io' = "cancelled"
    /\ UNCHANGED <<config, group, remaining, pipe, attach, reopen, overlapped>>

WaitAndClose ==
    /\ io \in {"opened", "cancelled"} /\ PipesDone /\ io' = "closed"
    /\ UNCHANGED <<config, group, remaining, pipe, attach, reopen, overlapped>>

----------------------------------------------------------------------------
(* Attach. *)

AttachVars == <<config, remaining, pipe, reopen, io, overlapped>>

IOCall == Cardinality({a \in Attachers : attach[a].pc # "idle"})
          + Cardinality({r \in Reopeners : reopen[r].pc # "idle"}) < MaxIOCalls

(* A request asks for one stream at least, and for no stderr with a terminal.
   A container without a stdin is a client that does not ask for it. *)
Attach(a) ==
    /\ attach[a].pc = "idle" /\ IOCall /\ io = "opened"
    /\ \E streams \in SUBSET Piped, stdin \in BOOLEAN :
          /\ streams # {} \/ stdin
          /\ attach' = [attach EXCEPT ![a] =
                [@ EXCEPT !.pc = "stdout", !.streams = streams,
                          !.stdin = IF stdin THEN "copying" ELSE "none"]]
    /\ UNCHANGED <<group, AttachVars>>

After(g) == IF g = "stdout" THEN "stderr" ELSE "wait"

AttachAdds(a, g) ==
    /\ attach[a].pc = g
    /\ IF g \in attach[a].streams
       THEN /\ Free(g) /\ Add(g, a)
            /\ attach' = [attach EXCEPT ![a].pc = After(g), ![a].waiting = @ \cup {g}]
       ELSE attach' = [attach EXCEPT ![a].pc = After(g)] /\ UNCHANGED group
    /\ UNCHANGED AttachVars

attachStream(a, g) ==
    /\ g \in attach[a].waiting /\ informed[a][g] > 0
    /\ attach' = [attach EXCEPT ![a].waiting = @ \ {g}, ![a].stdinClosed = TRUE]
    /\ UNCHANGED <<group, AttachVars>>

(* The copy of stdin ends, with the client's stdin or because it is closed here.
   It closes the container's stdin, or detaches the client. *)
StdinEnds(a) ==
    /\ attach[a].stdin = "copying"
    /\ attach' = [attach EXCEPT ![a].stdin = IF stdinOnce /\ ~tty THEN "done" ELSE "stdout"]
    /\ UNCHANGED <<group, AttachVars>>

StdinRemoves(a, g) ==
    /\ attach[a].stdin = g
    /\ IF g \in attach[a].streams THEN Free(g) /\ RemoveWriter(g, a) ELSE UNCHANGED group
    /\ attach' = [attach EXCEPT ![a].stdin = IF g = "stdout" THEN "stderr" ELSE "done"]
    /\ UNCHANGED AttachVars

AttachReturns(a) ==
    /\ attach[a].pc = "wait" /\ attach[a].waiting = {} /\ attach[a].stdin \in {"none", "done"}
    /\ attach' = [attach EXCEPT ![a].pc = "returned"]
    /\ UNCHANGED <<group, AttachVars>>

----------------------------------------------------------------------------
(* ReopenContainerLog: AddOutput gets the old log of a group and adds the new
   one in two steps, group after group; then the old logs are closed. *)

ReopenVars == <<config, remaining, pipe, attach, io>>

ReopenContainerLog(r) ==
    /\ reopen[r].pc = "idle" /\ IOCall /\ io = "opened"
    /\ \A q \in Reopeners : q < r => reopen[q].pc # "idle"
    /\ logger' = [logger EXCEPT ![r] = createContainerLoggers(r)]
    /\ reopen' = [reopen EXCEPT ![r].pc = "getstdout"]
    /\ overlapped' = (overlapped \/ \E q \in Reopeners : reopen[q].pc \notin {"idle", "done"})
    /\ UNCHANGED <<attached, log, groupClosed, informed, ReopenVars>>

AddOutputGet(r, g) ==
    /\ reopen[r].pc = "get" \o g /\ Free(g)
    /\ reopen' = [reopen EXCEPT ![r] = [pc |-> "add" \o g, old |-> [@.old EXCEPT ![g] = log[g]]]]
    /\ UNCHANGED <<group, ReopenVars, overlapped>>

AddOutputAdd(r, g) ==
    /\ reopen[r].pc = "add" \o g /\ Free(g) /\ AddLog(g, r)
    /\ reopen' = [reopen EXCEPT ![r].pc = IF g = "stdout" /\ ~tty THEN "getstderr" ELSE "close"]
    /\ UNCHANGED <<ReopenVars, overlapped>>

CloseOldLogs(r) ==
    /\ reopen[r].pc = "close"
    /\ logger' = [l \in Logs |-> [g \in Groups |->
                     IF reopen[r].old[g] = l THEN "closed" ELSE logger[l][g]]]
    /\ reopen' = [reopen EXCEPT ![r].pc = "done"]
    /\ UNCHANGED <<attached, log, groupClosed, informed, ReopenVars, overlapped>>

----------------------------------------------------------------------------

(* The steps of goroutines that can go on.  A client takes what is written to it
   or its connection breaks; that its stdin ends is assumed only once the server
   has closed it. *)
Goroutines ==
    \/ \E g \in Groups :
          \/ \E w \in Attachers \cup Logs : WriteOne(g, w)
          \/ PipeCloses(g)
          \/ \E a \in Attachers : AttachAdds(a, g) \/ attachStream(a, g) \/ StdinRemoves(a, g)
          \/ \E r \in Reopeners : AddOutputGet(r, g) \/ AddOutputAdd(r, g)
    \/ \E a \in Attachers : AttachReturns(a) \/ (attach[a].stdinClosed /\ StdinEnds(a))
    \/ \E r \in Reopeners : CloseOldLogs(r)

Next ==
    \/ Goroutines
    \/ \E g \in Groups : WriteStart(g) \/ OutputEnds(g)
    \/ TaskOpensFifos \/ Cancel \/ WaitAndClose
    \/ \E a \in Attachers : Attach(a) \/ StdinEnds(a)
    \/ \E r \in Reopeners : ReopenContainerLog(r)
    \/ io = "closed" /\ UNCHANGED ioVars

Spec == Init /\ [][Next]_ioVars /\ WF_ioVars(Goroutines)

----------------------------------------------------------------------------

(* While output is copied, every group has a log, and it is open, whatever log
   reopens and detaching clients do: or the next write would fail and the
   output of the container would be cut.  A stream is closed once, as closing
   the channel of its informer twice would panic.  A log that no group holds any
   more is closed, unless two reopens overlapped. *)
OutputKept ==
    /\ \A g \in Piped : pipe[g] = "copying" => log[g] # NoLog /\ logger[log[g]][g] = "open"
    /\ \A a \in Attachers, g \in Groups : informed[a][g] <= 1
    /\ (~overlapped /\ \A r \in Reopeners : reopen[r].pc \in {"idle", "done"}) =>
          \A l \in Logs, g \in Groups : logger[l][g] = "open" => log[g] = l

(* OutputKept holds; and once the output of the container has ended, every call
   of Attach that takes some of it returns, also one that came after the end. *)
OutputServed ==
    /\ []OutputKept
    /\ \A a \in Attachers :
          (PipesDone /\ attach[a].pc # "idle" /\ attach[a].streams # {})
             ~> attach[a].pc = "returned"
============================================================================
