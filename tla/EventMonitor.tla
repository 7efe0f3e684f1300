---------------------------- MODULE EventMonitor ----------------------------
(***************************************************************************)
(* The event loop of pkg/server/events.go with its back-off queues: one    *)
(* goroutine reads two channels and a ticker and handles the events of     *)
(* several objects.  What handling an event does is left to the modules of *)
(* containers, sandboxes and images: here it succeeds or fails.            *)
(***************************************************************************)
EXTENDS Integers, Sequences

CONSTANTS Objects,           \* ids of containers and sandboxes, names of images
          MaxReports,        \* bound on the number of events
          ExitChannelSize,
          MinDuration, MaxDuration,    \* backOffInitDuration, backOffMaxDuration, in ticks
          MaxHandleFaults    \* bound on failing handlers

VARIABLES exitCh, ch,     \* channels: exit monitors, and the events of containerd
          queuePool,      \* backOff.queuePool
          expired,        \* ids of the current check that are still to be retried
          batch,          \* the queue being retried
          looping,        \* the goroutine of start runs
          reported,       \* number of events reported
          handleFaults

eventVars == <<exitCh, ch, queuePool, expired, batch, looping, reported, handleFaults>>

Sources == {"exit", "containerd"}
Keys == Sources \X Objects
Event == [src : Sources, id : Objects, n : 1 .. MaxReports]
NoObject == ""
Foreign == [src |-> "containerd", id |-> NoObject, n |-> 0]    \* another namespace, or not convertible

\* expireTime is kept as the ticks left; an id that is not in the pool has no events.
NoQueue == [events |-> <<>>, duration |-> 0, left |-> 0]
newBackOffQueue(es, d) == [events |-> es, duration |-> d, left |-> d]
NoBatch == [id |-> NoObject, events |-> <<>>, duration |-> 0]

EventInit ==
    /\ exitCh = <<>> /\ ch = <<>> /\ queuePool = [i \in Objects |-> NoQueue]
    /\ expired = {} /\ batch = NoBatch /\ looping = TRUE
    /\ reported = 0 /\ handleFaults = 0

-----------------------------------------------------------------------------
(* backOff *)

isInBackOff(i) == queuePool[i].events # <<>>

enBackOff(e) ==
    queuePool' = [queuePool EXCEPT ![e.id] =
                     IF isInBackOff(e.id) THEN [@ EXCEPT !.events = Append(queuePool[e.id].events, e)]
                                          ELSE newBackOffQueue(<<e>>, MinDuration)]

reBackOff(i, es, old) ==
    queuePool' = [queuePool EXCEPT ![i] =
                     newBackOffQueue(es, IF 2 * old > MaxDuration THEN MaxDuration ELSE 2 * old)]

\* Mutant: the comparison of isExpire is the wrong way round.
getExpiredIDsSwapped == {i \in Objects : isInBackOff(i) /\ queuePool[i].left > 0}

getExpiredIDs == {i \in Objects : isInBackOff(i) /\ queuePool[i].left = 0}

-----------------------------------------------------------------------------
(* Sources of events *)

Reported(src, i) == [src |-> src, id |-> i, n |-> reported + 1]
Report == reported < MaxReports /\ reported' = reported + 1

\* The goroutine of startExitMonitor sends; it blocks while the channel is full.
ExitReported(i) ==
    /\ Report /\ Len(exitCh) < ExitChannelSize
    /\ exitCh' = Append(exitCh, Reported("exit", i))
    /\ UNCHANGED <<ch, queuePool, expired, batch, looping, handleFaults>>

ContainerdPublishes(i) ==
    /\ Report
    /\ \/ ch' = Append(ch, Reported("containerd", i))
       \/ ch' = ch \o <<Foreign, Reported("containerd", i)>>
    /\ UNCHANGED <<exitCh, queuePool, expired, batch, looping, handleFaults>>

-----------------------------------------------------------------------------
(* The loop of start *)

Idle == looping /\ expired = {} /\ batch = NoBatch
HandlerFault == handleFaults < MaxHandleFaults /\ handleFaults' = handleFaults + 1

\* Mutant: the back-off of the object is not looked at before an event is handled.
ReceiveOvertakes(e) ==
    \/ UNCHANGED <<queuePool, handleFaults>>
    \/ HandlerFault /\ enBackOff(e)

\* An event of an object in back-off queues up behind the earlier ones.
Receive(e) ==
    \/ isInBackOff(e.id) /\ enBackOff(e) /\ UNCHANGED handleFaults
    \/ ~isInBackOff(e.id) /\ UNCHANGED <<queuePool, handleFaults>>
    \/ ~isInBackOff(e.id) /\ HandlerFault /\ enBackOff(e)

ReceiveExit ==
    /\ Idle /\ exitCh # <<>> /\ exitCh' = Tail(exitCh) /\ Receive(Head(exitCh))
    /\ UNCHANGED <<ch, expired, batch, looping, reported>>

ReceiveEvent ==
    /\ Idle /\ ch # <<>> /\ ch' = Tail(ch)
    /\ IF Head(ch) = Foreign THEN UNCHANGED <<queuePool, handleFaults>> ELSE Receive(Head(ch))
    /\ UNCHANGED <<exitCh, expired, batch, looping, reported>>

BackOffCheck ==
    /\ Idle /\ getExpiredIDs # {} /\ expired' = getExpiredIDs
    /\ UNCHANGED <<exitCh, ch, queuePool, batch, looping, reported, handleFaults>>

deBackOff(i) ==
    /\ looping /\ batch = NoBatch /\ i \in expired /\ expired' = expired \ {i}
    /\ batch' = [id |-> i, events |-> queuePool[i].events, duration |-> queuePool[i].duration]
    /\ queuePool' = [queuePool EXCEPT ![i] = NoQueue]
    /\ UNCHANGED <<exitCh, ch, looping, reported, handleFaults>>

Retry ==
    /\ looping /\ batch # NoBatch
    /\ \/ /\ batch' = IF Len(batch.events) = 1 THEN NoBatch ELSE [batch EXCEPT !.events = Tail(@)]
          /\ UNCHANGED <<queuePool, handleFaults>>
       \/ /\ HandlerFault /\ reBackOff(batch.id, batch.events, batch.duration) /\ batch' = NoBatch
    /\ UNCHANGED <<exitCh, ch, expired, looping, reported>>

\* stop cancels the subscription: errCh is closed and the goroutine returns.
Stop ==
    /\ Idle /\ looping' = FALSE
    /\ UNCHANGED <<exitCh, ch, queuePool, expired, batch, reported, handleFaults>>

Tick ==
    /\ \E i \in Objects : queuePool[i].left > 0
    /\ queuePool' = [i \in Objects |->
                        [queuePool[i] EXCEPT !.left = IF @ > 0 THEN @ - 1 ELSE 0]]
    /\ UNCHANGED <<exitCh, ch, expired, batch, looping, reported, handleFaults>>

EventNext ==
    \/ \E i \in Objects : ExitReported(i) \/ ContainerdPublishes(i) \/ deBackOff(i)
    \/ ReceiveExit \/ ReceiveEvent \/ BackOffCheck \/ Retry \/ Stop \/ Tick
    \/ ~looping /\ UNCHANGED eventVars

EventSpec == EventInit /\ [][EventNext]_eventVars

EventTypeOK ==
    /\ \A j \in DOMAIN exitCh : exitCh[j] \in Event
    /\ \A j \in DOMAIN ch : ch[j] \in Event \cup {Foreign}
    /\ Len(exitCh) <= ExitChannelSize
    /\ \A i \in Objects : isInBackOff(i) =>
          /\ \A j \in DOMAIN queuePool[i].events : queuePool[i].events[j] \in Event
          /\ queuePool[i].duration \in MinDuration .. MaxDuration
          /\ queuePool[i].left \in 0 .. queuePool[i].duration
    /\ expired \subseteq {i \in Objects : isInBackOff(i)}

-----------------------------------------------------------------------------
(* Refinement *)

(* The events of a sequence that are from one source and about one object. *)
Of(k, e) == <<e.src, e.id>> = k
From(k, es) ==
    LET F[n \in 0 .. Len(es)] ==
            IF n = 0 THEN <<>> ELSE IF Of(k, es[n]) THEN Append(F[n - 1], es[n]) ELSE F[n - 1]
    IN  F[Len(es)]
Pending(k) ==
    From(k, batch.events \o queuePool[k[2]].events \o exitCh \o ch)

Queue == INSTANCE EventQueue WITH Events <- Event, pending <- [k \in Keys |-> Pending(k)]

\* The loop implements EventQueue: a handler that fails, and an object in back-off, delay
\* events but never reorder, drop or repeat those of one source about one object.
ImplementsEventQueue == Queue!Spec

\* While the loop runs every event is handled: the events and the handlers that fail are
\* finitely many, and in the end nothing is pending.  No object in back-off holds up the
\* events of another one for ever, and no event waits in a queue nobody retries.
EventsHandled == []EventTypeOK /\ <>[](~looping \/ \A k \in Keys : Pending(k) = <<>>)

=============================================================================
