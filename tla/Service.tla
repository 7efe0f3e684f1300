------------------------------ MODULE Service -------------------------------
(***************************************************************************)
(* The life of the CRI service (cri.go, service.go): containerd makes it   *)
(* when it starts and Run starts the event monitor, the CNI configuration  *)
(* syncer and the streaming server, waits for the first of them to end,    *)
(* stops the others and returns; an error of Run ends containerd; Close    *)
(* may come from outside at any time; the wrappers of                      *)
(* instrumented_service.go turn calls away until Run has set initialized.  *)
(* A critical service is modelled by its error channel: "sending" is a     *)
(* goroutine with an error on its way, "closed" a channel closed after the *)
(* end of the service.                                                     *)
(***************************************************************************)
EXTENDS Naturals

CONSTANT MaxServiceFaults    \* bound on services that fail

VARIABLES
    serviceRun,           \* where Run is
    recovered,            \* recover has succeeded
    initialized,          \* criService.initialized
    answered,             \* how calls have been answered: a set of "refused", "served"
    events,               \* eventMonitorErrCh: "off", "running", "sending", "closed"
    stream,               \* streamServerErrCh, the same, or "stuck"
    cni,                  \* cniNetConfMonitorErrCh, buffered: "sending" is a value in it
    closed,               \* Close has been called
    errors,               \* eventMonitorErr, streamServerErr, cniNetConfMonitorErr set so far
    result,               \* what Run returned: "none", "nil" or "error"
    serviceFaults

serviceVars == <<serviceRun, recovered, initialized, answered, events, stream, cni, closed,
                 errors, result, serviceFaults>>

Channel == {"off", "running", "sending", "closed", "stuck"}

TypeOK ==
    /\ serviceRun \in {"init", "new", "failed", "exited", "recover", "start", "select", "close",
                       "waitEvents", "waitStream", "result", "returned"}
    /\ recovered \in BOOLEAN /\ initialized \in BOOLEAN /\ closed \in BOOLEAN
    /\ answered \subseteq {"refused", "served"}
    /\ events \in Channel /\ stream \in Channel /\ cni \in Channel
    /\ errors \subseteq {"events", "stream", "cni"}
    /\ result \in {"none", "nil", "error"} /\ serviceFaults \in 0..MaxServiceFaults
    /\ "served" \in answered => recovered

Init ==
    /\ serviceRun = "init" /\ recovered = FALSE /\ initialized = FALSE /\ answered = {}
    /\ events = "off" /\ stream = "off" /\ cni = "off"
    /\ closed = FALSE /\ errors = {} /\ result = "none" /\ serviceFaults = 0

Fault == serviceFaults < MaxServiceFaults /\ serviceFaults' = serviceFaults + 1

services == <<events, stream, cni>>

(* There is a service, and containerd has not exited. *)
Alive == serviceRun \notin {"init", "new", "failed", "exited"}

----------------------------------------------------------------------------
(* The plugin *)

Constructs(from, to) ==
    /\ serviceRun = from
    /\ \/ serviceRun' = to /\ UNCHANGED serviceFaults
       \/ Fault /\ serviceRun' = "failed"
    /\ UNCHANGED <<recovered, initialized, answered, services, closed, errors, result>>

(* The configuration is not valid, or a service of containerd is missing:
   containerd goes on without the plugin. *)
initCRIService == Constructs("init", "new")

(* No snapshotter, streaming server, CNI syncer or base spec: likewise. *)
NewCRIService == Constructs("new", "recover")

(* The goroutine of Run: log.Fatal. *)
Fatal ==
    /\ serviceRun = "returned" /\ result = "error" /\ serviceRun' = "exited"
    /\ UNCHANGED <<recovered, initialized, answered, services, closed, errors, result,
                   serviceFaults>>

----------------------------------------------------------------------------
(* Run *)

RunRecover ==
    /\ serviceRun = "recover"
    /\ \/ /\ serviceRun' = "start" /\ recovered' = TRUE
          /\ UNCHANGED <<result, serviceFaults>>
       \/ /\ Fault
          /\ serviceRun' = "returned" /\ result' = "error" /\ UNCHANGED recovered
    /\ UNCHANGED <<initialized, answered, services, closed, errors>>

RunStart ==
    /\ serviceRun = "start"
    /\ events' = "running" /\ stream' = "running" /\ cni' = "running"
    /\ initialized' = TRUE /\ serviceRun' = "select"
    /\ UNCHANGED <<recovered, answered, closed, errors, result, serviceFaults>>

(* Receiving the error closes the channel; a closed channel yields nil. *)
Received(ch) == IF ch = "sending" THEN "closed" ELSE ch
Note(name, ch) == IF ch = "sending" THEN errors \cup {name} ELSE errors

RunSelect ==
    /\ serviceRun = "select"
    /\ \/ /\ events \in {"sending", "closed"}
          /\ errors' = Note("events", events) /\ events' = Received(events)
          /\ UNCHANGED <<stream, cni>>
       \/ /\ stream \in {"sending", "closed"}
          /\ errors' = Note("stream", stream) /\ stream' = Received(stream)
          /\ UNCHANGED <<events, cni>>
       \/ /\ cni = "sending"
          /\ errors' = errors \cup {"cni"} /\ cni' = "closed"
          /\ UNCHANGED <<events, stream>>
    /\ serviceRun' = "close"
    /\ UNCHANGED <<recovered, initialized, answered, closed, result, serviceFaults>>

(* Close of Run; only the listener of the streaming server can make it fail. *)
RunClose ==
    /\ serviceRun = "close" /\ closed' = TRUE
    /\ \/ serviceRun' = "waitEvents" /\ UNCHANGED <<result, serviceFaults>>
       \/ Fault /\ serviceRun' = "returned" /\ result' = "error"
    /\ UNCHANGED <<recovered, initialized, answered, services, errors>>

(* A bug: the event monitor is not waited for. *)
RunWaitEventsSkipped ==
    /\ serviceRun = "waitEvents"
    /\ serviceRun' = "waitStream"
    /\ UNCHANGED <<recovered, initialized, answered, services, closed, errors, result,
                   serviceFaults>>

RunWaitEvents ==
    /\ serviceRun = "waitEvents" /\ events \in {"sending", "closed"}
    /\ errors' = Note("events", events) /\ events' = Received(events)
    /\ serviceRun' = "waitStream"
    /\ UNCHANGED <<recovered, initialized, answered, stream, cni, closed, result,
                   serviceFaults>>

(* Two seconds for the streaming server, which may be stuck in Serve. *)
RunWaitStream ==
    /\ serviceRun = "waitStream"
    /\ \/ /\ stream \in {"sending", "closed"}
          /\ errors' = Note("stream", stream) /\ stream' = Received(stream)
       \/ /\ stream \notin {"sending", "closed"}
          /\ UNCHANGED <<errors, stream>>
    /\ serviceRun' = "result"
    /\ UNCHANGED <<recovered, initialized, answered, events, cni, closed, result,
                   serviceFaults>>

RunReturn ==
    /\ serviceRun = "result"
    /\ serviceRun' = "returned" /\ result' = IF errors = {} THEN "nil" ELSE "error"
    /\ UNCHANGED <<recovered, initialized, answered, services, closed, errors, serviceFaults>>

----------------------------------------------------------------------------
(* The critical services *)

EventsEnd ==
    /\ Alive /\ events = "running"
    /\ \/ Fault /\ events' = "sending"
       \/ closed /\ events' = "closed" /\ UNCHANGED serviceFaults
    /\ UNCHANGED <<serviceRun, recovered, initialized, answered, stream, cni, closed, errors, result>>

(* A server closed while it is about to serve may block for ever. *)
StreamEnds ==
    /\ Alive /\ stream = "running"
    /\ \/ Fault /\ stream' = "sending"
       \/ closed /\ stream' \in {"closed", "stuck"} /\ UNCHANGED serviceFaults
    /\ UNCHANGED <<serviceRun, recovered, initialized, answered, events, cni, closed, errors, result>>

(* The loop of the syncer only ends with an error of its watcher. *)
CNIEnds ==
    /\ Alive /\ cni = "running" /\ ~closed
    /\ Fault /\ cni' = "sending"
    /\ UNCHANGED <<serviceRun, recovered, initialized, answered, events, stream, closed, errors, result>>

(* Close by the owner of the service, before, while or after Run. *)
Close ==
    /\ Alive /\ ~closed /\ closed' = TRUE
    /\ UNCHANGED <<serviceRun, recovered, initialized, answered, services, errors, result,
                   serviceFaults>>

(* Every wrapper of instrumentedService calls checkInitialized first. *)
Call ==
    /\ Alive /\ answered' = answered \cup {IF initialized THEN "served" ELSE "refused"}
    /\ answered' # answered
    /\ UNCHANGED <<serviceRun, recovered, initialized, services, closed, errors, result,
                   serviceFaults>>

RunStep == \/ initCRIService \/ NewCRIService \/ Fatal \/ RunRecover \/ RunStart \/ RunSelect \/ RunClose
           \/ RunWaitEvents \/ RunWaitStream \/ RunReturn

(* The service has ended: there is nothing left to do. *)
Ended ==
    /\ serviceRun \in {"failed", "exited"} \/ (serviceRun = "returned" /\ result = "nil")
    /\ UNCHANGED serviceVars

Next == RunStep \/ EventsEnd \/ StreamEnds \/ CNIEnds \/ Close \/ Call \/ Ended

Fairness == WF_serviceVars(RunStep) /\ WF_serviceVars(EventsEnd)

Spec == Init /\ [][Next]_serviceVars /\ Fairness

----------------------------------------------------------------------------

(* When a critical service ends or the service is closed, Run returns: it does
   not wait for ever for the event monitor it has stopped, nor for a streaming
   server that is stuck.  An error the event monitor has come up with is never
   lost, whatever ended first: containerd exits, so that it is started again,
   and does not go on without events. *)
RunReturns ==
    /\ closed \/ events \in {"sending", "closed"} \/ stream \in {"sending", "closed"}
         \/ cni = "sending" ~> serviceRun \in {"returned", "exited"}
    /\ events = "sending" ~> serviceRun = "exited"
============================================================================
