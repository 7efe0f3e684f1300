------------------------------ MODULE Session -------------------------------
(***************************************************************************)
(* One execution of a command in a container: an ExecSync call             *)
(* (server/container_execsync.go), or a client of the streaming server     *)
(* (streaming/remotecommand) that connects its streams over SPDY or a      *)
(* websocket.  waitForStreams runs against the arrival of the streams, the *)
(* sending of their replies and a timer; execInternal against the process, *)
(* its descendants, the copiers of ExecIO (server/io/exec_io.go), a        *)
(* timeout, and the client, which may go away.                             *)
(***************************************************************************)
EXTENDS Naturals, FiniteSets

CONSTANTS Sessions, MaxSessionFaults
    \* Sessions: the requests, as records [kind, version, streams, tty]

Outputs == {"stdout", "stderr"}
Codes == {"zero", "nonzero"}

VARIABLES
    request,         \* the request: one of Sessions
    connecting,      \* per stream: "none", "offered", "accepted", "replied", "counted"
    session,         \* "waiting", "timedout", "lookup", "created", "select", "drain",
                     \* "killing", "delete", "status", "closed"
    outcome,         \* what execInContainer returns: a code, "error", "timeout" or "none"
    told,            \* what writeStatus wrote to the error stream
    process, exitCode,  \* "none", "created", "running", "exited", "deleted"
    outOpen, produced,  \* the process or a descendant holds the output; what was written to it
    copier, copied,  \* the goroutines of Attach and what they copied
    pipeClosed,      \* the copier of stdin closed the outputs
    stdin, stdinClosed,  \* the copier of stdin; its source was closed
    gone,            \* the client's connection is broken
    sessionFaults

conn == <<connecting, told>>
proc == <<process, exitCode, outOpen, produced>>
execIO == <<copier, copied, pipeClosed, stdin, stdinClosed>>
sessionVars == <<request, session, outcome, conn, proc, execIO, gone, sessionFaults>>

v4Types == {"error", "stdin", "stdout", "stderr", "resize"}
v2Types == v4Types \ {"resize"}

SessionTypeOK ==
    /\ request \in Sessions
    /\ connecting \in [v4Types -> {"none", "offered", "accepted", "replied", "counted"}]
    /\ session \in {"waiting", "timedout", "lookup", "created", "select", "drain", "killing",
                    "delete", "status", "closed"}
    /\ outcome \in Codes \cup {"error", "timeout", "none"}
    /\ told \in Codes \cup {"error", "none"}
    /\ process \in {"none", "created", "running", "exited", "deleted"}
    /\ exitCode \in Codes \cup {"none"}
    /\ outOpen \in [Outputs -> BOOLEAN]
    /\ produced \in [Outputs -> 0..1] /\ copied \in [Outputs -> 0..1]
    /\ \A o \in Outputs : copied[o] <= produced[o]
    /\ copier \in [Outputs -> {"none", "copying", "done"}]
    /\ stdin \in {"none", "copying", "done"}
    /\ pipeClosed \in BOOLEAN /\ stdinClosed \in BOOLEAN /\ gone \in BOOLEAN
    /\ sessionFaults \in 0..MaxSessionFaults

SessionInit ==
    /\ request \in Sessions
    /\ connecting = [t \in v4Types |-> "none"]
    /\ session = IF request.kind = "spdy" THEN "waiting" ELSE "lookup"
    /\ outcome = "none" /\ told = "none" /\ process = "none" /\ exitCode = "none"
    /\ outOpen = [o \in Outputs |-> FALSE] /\ produced = [o \in Outputs |-> 0]
    /\ copier = [o \in Outputs |-> "none"] /\ copied = [o \in Outputs |-> 0]
    /\ pipeClosed = FALSE /\ stdin = "none" /\ stdinClosed = FALSE
    /\ gone = FALSE /\ sessionFaults = 0

SessionFault == sessionFaults < MaxSessionFaults /\ sessionFaults' = sessionFaults + 1
NoSessionFault == sessionFaults' = sessionFaults

----------------------------------------------------------------------------
(* createHTTPStreamStreams and the protocol handlers. *)

supportsTerminalResizing == request.version >= 3

(* The channels of a websocket that are in use. *)
createChannels == {"error", "resize"} \cup request.streams

(* The streams the command gets.  All those of a websocket are there: one that
   was not asked for is at its end at once, or throws away what it gets. *)
createWebSocketStreams == {"stdin"} \cup Outputs
Attached == IF request.kind = "websocket" THEN createWebSocketStreams ELSE request.streams

(* The streams the client opens, as many as expectedStreams. *)
ExpectedStreams == {"error"} \cup request.streams
                   \cup (IF request.tty /\ supportsTerminalResizing THEN {"resize"} ELSE {})

ConnStep == UNCHANGED <<request, outcome, told, proc, execIO>> /\ NoSessionFault

ClientOpens(t) ==
    /\ request.kind = "spdy" /\ t \in ExpectedStreams /\ connecting[t] = "none" /\ ~gone
    /\ connecting' = [connecting EXCEPT ![t] = "offered"]
    /\ UNCHANGED <<session, gone>> /\ ConnStep

(* A stream is received from streamCh, and a goroutine waits for its reply; one
   of a type the handler does not know is dropped. *)
waitForStreams(t, known) ==
    /\ session = "waiting" /\ connecting[t] = "offered"
    /\ t \in known
    /\ connecting' = [connecting EXCEPT ![t] = "accepted"]
    /\ UNCHANGED <<session, gone>> /\ ConnStep

v4waitForStreams(t) == request.version = 4 /\ waitForStreams(t, v4Types)
v3waitForStreams(t) == request.version = 3 /\ waitForStreams(t, v4Types)
v2waitForStreams(t) == request.version = 2 /\ waitForStreams(t, v2Types)
v1waitForStreams(t) == request.version = 1 /\ waitForStreams(t, v2Types)

(* The connection enqueues the reply frame once the handler took the stream. *)
ReplySent(t) ==
    /\ connecting[t] = "accepted"
    /\ connecting' = [connecting EXCEPT ![t] = "replied"]
    /\ UNCHANGED <<session, gone>> /\ ConnStep

(* The goroutine of a stream reports its reply; the last one ends the wait. *)
waitStreamReply(t) ==
    /\ session = "waiting" /\ connecting[t] = "replied"
    /\ connecting' = [connecting EXCEPT ![t] = "counted"]
    /\ session' = IF \A u \in ExpectedStreams : connecting'[u] = "counted" THEN "lookup" ELSE session
    /\ UNCHANGED gone /\ ConnStep

(* The timer: the request fails, and the connection is left to itself. *)
SessionExpired ==
    /\ session = "waiting" /\ session' = "timedout"
    /\ UNCHANGED <<connecting, gone>> /\ ConnStep

ClientGone ==
    /\ request.kind # "ExecSync" /\ ~gone /\ gone' = TRUE
    /\ UNCHANGED <<session, connecting>> /\ ConnStep

----------------------------------------------------------------------------
(* execInContainer and execInternal. *)

ExecStep == UNCHANGED <<request, conn, gone>>

(* The container is not there or not running, or the exec is not created. *)
execInContainer ==
    /\ session = "lookup"
    /\ \/ /\ SessionFault /\ session' = "status" /\ outcome' = "error" /\ UNCHANGED process
       \/ /\ NoSessionFault /\ session' = "created" /\ process' = "created" /\ UNCHANGED outcome
    /\ UNCHANGED <<exitCode, outOpen, produced, execIO>> /\ ExecStep

(* Wait and Start, and ExecIO.Attach: an output that was not asked for is
   copied, too, and thrown away. *)
StartAndAttach ==
    /\ session = "created"
    /\ \/ SessionFault /\ session' = "delete" /\ outcome' = "error" /\ UNCHANGED <<process, outOpen, copier, stdin>>
       \/ /\ NoSessionFault /\ session' = "select" /\ process' = "running"
          /\ LET piped == IF request.tty THEN {"stdout"} ELSE Outputs
             IN  /\ outOpen' = [o \in Outputs |-> o \in piped]
                 /\ copier' = [o \in Outputs |-> IF o \in piped THEN "copying" ELSE "none"]
          /\ stdin' = IF "stdin" \in Attached THEN "copying" ELSE "none"
          /\ UNCHANGED outcome
    /\ UNCHANGED <<exitCode, produced, copied, pipeClosed, stdinClosed>> /\ ExecStep

attachDone == (\A o \in Outputs : copier[o] # "copying") /\ stdin # "copying"

(* The exit is seen, or an error of the wait for it. *)
SelectExit ==
    /\ session = "select" /\ process = "exited"
    /\ \/ SessionFault /\ session' = "delete" /\ outcome' = "error"
       \/ NoSessionFault /\ session' = "drain" /\ UNCHANGED outcome
    /\ UNCHANGED <<proc, execIO>> /\ ExecStep

(* ExecSync's timeout: the process is killed; Kill may fail. *)
SelectTimeout ==
    /\ session = "select" /\ request.kind = "ExecSync"
    /\ \/ SessionFault /\ session' = "delete" /\ outcome' = "error" /\ UNCHANGED <<process, exitCode>>
       \/ /\ NoSessionFault /\ session' = "killing" /\ UNCHANGED outcome
          /\ process' = "exited" /\ exitCode' = IF process = "exited" THEN exitCode ELSE "nonzero"
    /\ UNCHANGED <<outOpen, produced, execIO>> /\ ExecStep

(* A bug: the code is returned without waiting for the copiers. *)
DrainSkipped ==
    /\ session \in {"drain", "killing"}
    /\ session' = "delete" /\ outcome' = IF session = "drain" THEN exitCode ELSE "timeout"
    /\ NoSessionFault /\ UNCHANGED <<proc, execIO>> /\ ExecStep

(* <-attachDone, after the exit or after the kill. *)
Drain ==
    /\ session \in {"drain", "killing"} /\ attachDone
    /\ session' = "delete" /\ outcome' = IF session = "drain" THEN exitCode ELSE "timeout"
    /\ NoSessionFault /\ UNCHANGED <<proc, execIO>> /\ ExecStep

(* The deferred Delete waits for the copiers of the outputs; it may fail, which
   is only logged. *)
Delete ==
    /\ session = "delete" /\ session' = "status"
    /\ \/ SessionFault /\ UNCHANGED process
       \/ /\ NoSessionFault /\ process # "running" /\ \A o \in Outputs : copier[o] # "copying"
          /\ process' = "deleted"
    /\ UNCHANGED <<outcome, exitCode, outOpen, produced, execIO>> /\ ExecStep

(* Delete first kills a process that is running. *)
DeleteKills ==
    /\ session = "delete" /\ process = "running"
    /\ process' = "exited" /\ exitCode' = "nonzero"
    /\ NoSessionFault /\ UNCHANGED <<session, outcome, outOpen, produced, execIO>> /\ ExecStep

(* Version 4 writes the status; the older ones write no success, and version 1
   has reset the stream. *)
writeStatus ==
    IF gone THEN "none"
    ELSE IF request.version = 4 THEN IF outcome = "timeout" THEN "error" ELSE outcome
    ELSE IF outcome = "zero" \/ (request.version = 1 /\ request.kind = "spdy") THEN "none" ELSE "error"

(* ServeExec writes the status and closes the connection. *)
ServeExec ==
    /\ session = "status" /\ request.kind # "ExecSync"
    /\ session' = "closed" /\ told' = writeStatus
    /\ NoSessionFault /\ UNCHANGED <<request, connecting, outcome, proc, execIO, gone>>

ExecSync ==
    /\ session = "status" /\ request.kind = "ExecSync" /\ session' = "closed"
    /\ NoSessionFault /\ UNCHANGED <<request, connecting, told, outcome, proc, execIO, gone>>

----------------------------------------------------------------------------
(* The process and its descendants. *)

ProcStep == UNCHANGED <<request, session, outcome, conn, execIO, gone>> /\ NoSessionFault

Writes(o) ==
    /\ outOpen[o] /\ produced[o] = 0 /\ produced' = [produced EXCEPT ![o] = 1]
    /\ UNCHANGED <<process, exitCode, outOpen>> /\ ProcStep

OutputEnds(o) ==
    /\ outOpen[o] /\ outOpen' = [outOpen EXCEPT ![o] = FALSE]
    /\ UNCHANGED <<process, exitCode, produced>> /\ ProcStep

Exits(c) ==
    /\ process = "running" /\ process' = "exited" /\ exitCode' = c
    /\ UNCHANGED <<outOpen, produced>> /\ ProcStep

----------------------------------------------------------------------------
(* The goroutines of ExecIO.Attach. *)

CopyStep == UNCHANGED <<request, session, outcome, conn, proc, gone>> /\ NoSessionFault

Copies(o) ==
    /\ copier[o] = "copying" /\ copied[o] < produced[o] /\ ~pipeClosed
    /\ copied' = [copied EXCEPT ![o] = @ + 1]
    /\ UNCHANGED <<copier, pipeClosed, stdin, stdinClosed>> /\ CopyStep

(* A bug: the source of stdin is left open, and the client may never end it. *)
attachOutputKeepsStdin(o) ==
    /\ copier[o] = "copying"
    /\ (~outOpen[o] /\ copied[o] = produced[o]) \/ pipeClosed \/ gone
    /\ copier' = [copier EXCEPT ![o] = "done"]
    /\ UNCHANGED <<copied, pipeClosed, stdin, stdinClosed>> /\ CopyStep

(* The copy ends at the end of the output, when the pipe was closed, or when
   the client is gone; the source of stdin is closed then. *)
attachOutput(o) ==
    /\ copier[o] = "copying"
    /\ (~outOpen[o] /\ copied[o] = produced[o]) \/ pipeClosed \/ gone
    /\ copier' = [copier EXCEPT ![o] = "done"] /\ stdinClosed' = TRUE
    /\ UNCHANGED <<copied, pipeClosed, stdin>> /\ CopyStep

(* The copy of stdin ends with the client's stdin or its closed source.  With a
   terminal the outputs are closed; otherwise the stdin of the process is. *)
StdinEnds ==
    /\ stdin = "copying" /\ stdin' = "done"
    /\ pipeClosed' = (pipeClosed \/ request.tty)
    /\ UNCHANGED <<copier, copied, stdinClosed>> /\ CopyStep

----------------------------------------------------------------------------

SessionEnded ==
    session \in {"timedout", "closed"} /\ UNCHANGED sessionVars

(* The server goes on where it can; the process and the client need not. *)
Server ==
    \/ \E t \in v4Types : waitStreamReply(t)
    \/ execInContainer \/ StartAndAttach \/ SelectExit \/ Drain \/ DeleteKills \/ Delete
    \/ ServeExec \/ ExecSync
    \/ \E o \in Outputs : Copies(o) \/ attachOutput(o)
    \/ (stdinClosed \/ gone \/ "stdin" \notin createChannels) /\ StdinEnds

SessionNext ==
    \/ Server
    \/ \E t \in v4Types :
          \/ ClientOpens(t) \/ ReplySent(t)
          \/ v4waitForStreams(t) \/ v3waitForStreams(t) \/ v2waitForStreams(t) \/ v1waitForStreams(t)
    \/ SessionExpired \/ ClientGone \/ SelectTimeout \/ StdinEnds
    \/ \E o \in Outputs : Writes(o) \/ OutputEnds(o)
    \/ \E c \in Codes : Exits(c)
    \/ SessionEnded

SessionSpec == SessionInit /\ [][SessionNext]_sessionVars /\ WF_sessionVars(Server)

----------------------------------------------------------------------------

(* When the connection is closed, or ExecSync returns, with an exit code, it is
   the code of the process, the reply of every stream was sent, and all that the
   process and its descendants wrote was copied, unless the client went away or
   ended the stdin of a terminal (on a websocket without stdin it has ended from
   the start, and the output of a terminal is lost).  A client is never told success for anything
   else, and one of version 4 that is still there is told how the command
   ended. *)
ExecRight ==
    /\ SessionTypeOK
    /\ session = "closed" =>
           /\ outcome \in Codes =>
                 /\ outcome = exitCode
                 /\ request.kind = "spdy" => \A t \in ExpectedStreams : connecting[t] = "counted"
                 /\ gone \/ pipeClosed \/ copied = produced
           /\ told \in Codes => told = exitCode
           /\ request.version = 4 /\ request.kind # "ExecSync" => told # "none" \/ gone

(* Once the process has exited and nothing holds its outputs any more, the call
   ends. *)
ExecEnds ==
    (process = "exited" /\ \A o \in Outputs : ~outOpen[o]) ~> session = "closed"
============================================================================
