------------------------------- MODULE MCLoops ------------------------------
(***************************************************************************)
(* Small instances of the goroutines that must come to an end or keep up,  *)
(* checked side by side: the event monitor, the service, the syncer of the *)
(* CNI configuration, port forwarding, the execution of commands and the   *)
(* output of a container.  They share no state; a behaviour is one of one  *)
(* component, fixed at the start by the variable component.                *)
(***************************************************************************)
EXTENDS EventMonitor, CNIConf, PortForward, Session

CONSTANT a1    \* model value

VARIABLES
    component,
    serviceRun, recovered, initialized, answered, events, stream, cni, closed, errors, result,
    serviceFaults,
    tty, stdinOnce, attached, log, remaining, groupClosed, pipe, attach, informed, logger,
    reopen, io, overlapped

Request(kind, version_, streams, tty_) ==
    [kind |-> kind, version |-> version_, streams |-> streams, tty |-> tty_]

SyncRequest == Request("ExecSync", 4, {"stdout", "stderr"}, FALSE)

\* ExecSync, and every protocol version, with and without a terminal.
MCSessions ==
    {SyncRequest,
     Request("websocket", 4, {"stdin", "stdout", "stderr"}, FALSE),
     Request("websocket", 1, {"stdout"}, TRUE),
     Request("spdy", 4, {"stdin", "stdout"}, TRUE),
     Request("spdy", 4, {"stdout", "stderr"}, FALSE),
     Request("spdy", 3, {"stdin", "stdout"}, TRUE),
     Request("spdy", 2, {"stdin", "stderr"}, FALSE),
     Request("spdy", 1, {"stdin", "stdout"}, TRUE)}

V == INSTANCE Service WITH MaxServiceFaults <- 3
O == INSTANCE ContainerIO WITH
        Attachers <- {a1}, MaxIOCalls <- 2

serviceState == <<serviceRun, recovered, initialized, answered, events, stream, cni, closed, errors,
                 result, serviceFaults>>
ioState == <<tty, stdinOnce, attached, log, remaining, groupClosed, pipe, attach, informed,
            logger, reopen, io, overlapped>>
allVars == <<component, eventVars, serviceState, confVars, forwardVars, sessionVars, ioState>>

\* The components that do not run are in one initial state.
MCInit ==
    /\ component \in {"events", "service", "cni", "forward", "exec", "io"}
    /\ component # "forward" => client = "ids"
    /\ component # "exec" => request = SyncRequest
    /\ component # "io" => tty = TRUE /\ stdinOnce = TRUE
    /\ EventInit /\ V!Init /\ ConfInit /\ ForwardInit /\ SessionInit /\ O!Init

Others(c) ==
    /\ component = c /\ UNCHANGED component
    /\ c # "events" => UNCHANGED eventVars
    /\ c # "service" => UNCHANGED serviceState
    /\ c # "cni" => UNCHANGED confVars
    /\ c # "forward" => UNCHANGED forwardVars
    /\ c # "exec" => UNCHANGED sessionVars
    /\ c # "io" => UNCHANGED ioState

MCNext ==
    \/ Others("events") /\ EventNext
    \/ Others("service") /\ V!Next
    \/ Others("cni") /\ ConfNext
    \/ Others("forward") /\ ForwardNext
    \/ Others("exec") /\ SessionNext
    \/ Others("io") /\ O!Next

\* The fairness of the component that runs.
MCFairness ==
    /\ WF_eventVars(component = "events" /\ ReceiveExit)
    /\ WF_eventVars(component = "events" /\ ReceiveEvent)
    /\ WF_eventVars(component = "events" /\ BackOffCheck)
    /\ WF_eventVars(component = "events" /\ (Retry \/ \E i \in {"a", "b"} : deBackOff(i)))
    /\ WF_eventVars(component = "events" /\ Tick)
    /\ WF_serviceState(component = "service" /\ V!RunStep)
    /\ WF_serviceState(component = "service" /\ V!EventsEnd)
    /\ WF_forwardVars(component = "forward" /\ Timely)
    /\ WF_sessionVars(component = "exec" /\ Server)
    /\ WF_ioState(component = "io" /\ O!Goroutines)

MCSpec == MCInit /\ [][MCNext]_allVars /\ MCFairness

-----------------------------------------------------------------------------

\* Run returns once a service has ended: see Service.
RunReturns == []V!TypeOK /\ V!RunReturns

\* A container's output reaches its log and its clients, and they are let go: see ContainerIO.
OutputServed == []O!TypeOK /\ O!OutputServed

=============================================================================
