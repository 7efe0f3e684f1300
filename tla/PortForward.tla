---------------------------- MODULE PortForward -----------------------------
(***************************************************************************)
(* One connection of a port forward client over SPDY                       *)
(* (streaming/portforward/httpstream.go) or a websocket (websocket.go) and *)
(* the forwarding itself (server/sandbox_portforward_unix.go).  For every  *)
(* TCP connection it accepts, a SPDY client opens an error stream and a    *)
(* data stream, which arrive in any order.  The loop of run pairs them by  *)
(* request id; each pair has a goroutine that waits for it to be complete  *)
(* or to time out and then takes it out of the map, and a complete pair    *)
(* has a goroutine that copies in both directions.  The streams of clients *)
(* that send no request ids are paired by their numbers.  A websocket has  *)
(* two channels for each port of the request, there from the start.        *)
(***************************************************************************)
EXTENDS Integers, Sequences, FiniteSets

CONSTANTS
    Accepted,            \* TCP connections the client accepts, or ports it names: 1..n
    MaxForwardFaults     \* bound on streams with bad headers and dials that fail

VARIABLES
    client,          \* "ids", "numbers" or "websocket": a client that sends request ids,
                     \* one that does not, one on a websocket
    identifier,      \* the number of each stream; 0 while it is not open
    delivery,        \* "none", "sent", "received" or "rejected", per stream
    pairs,           \* every httpStreamPair there was, with its two goroutines
    streamPairs,     \* httpStreamHandler.streamPairs: the indexes of the pairs in the map
    connOpen,        \* run has not seen the connection close, or not closed it
    forwardFaults

forwardVars == <<client, identifier, delivery, pairs, streamPairs, connOpen, forwardFaults>>

Clients == {"ids", "numbers", "websocket"}
Types == {"error", "data"}
Streams == Accepted \X Types
NoStream == <<>>

ForwardTypeOK ==
    /\ client \in Clients /\ connOpen \in BOOLEAN
    /\ identifier \in [Streams -> Nat]
    /\ delivery \in [Streams -> {"none", "sent", "received", "rejected"}]
    /\ streamPairs \subseteq DOMAIN pairs
    /\ \A p \in DOMAIN pairs :
          /\ pairs[p].error \in Streams \cup {NoStream}
          /\ pairs[p].data \in Streams \cup {NoStream}
          /\ pairs[p].monitor \in {"waiting", "removing", "done"}
          /\ pairs[p].forward \in {"none", "dial", "both", "one", "closed"}
    /\ forwardFaults \in 0..MaxForwardFaults

(* The channels of a websocket, from 0: the data and the error channel of the
   first port, of the second, and so on. *)
dataChannel == 0
errorChannel == 1
Channel(n) == <<n \div 2 + 1, IF n % 2 = 0 THEN "data" ELSE "error">>

handleWebSocketStreams ==
    [i \in Accepted |->
        [requestID |-> i, data |-> Channel((i - 1) * 2 + dataChannel),
         error |-> Channel((i - 1) * 2 + errorChannel), monitor |-> "done", forward |-> "dial"]]

ForwardInit ==
    /\ client \in Clients
    /\ identifier = [s \in Streams |-> 0]
    /\ delivery = [s \in Streams |-> IF client = "websocket" THEN "received" ELSE "none"]
    /\ pairs = IF client = "websocket" THEN handleWebSocketStreams ELSE <<>>
    /\ streamPairs = {} /\ connOpen = TRUE /\ forwardFaults = 0

ForwardFault == forwardFaults < MaxForwardFaults /\ forwardFaults' = forwardFaults + 1
NoForwardFault == forwardFaults' = forwardFaults
NoPairs == UNCHANGED <<pairs, streamPairs>>

----------------------------------------------------------------------------
(* The client opens the error stream of a connection before its data stream;
   streams get the odd numbers in the order in which they are opened.  The
   connections are numbered in the order of their error streams. *)
OpenStream(s) ==
    /\ delivery[s] = "none" /\ connOpen
    /\ IF s[2] = "data" THEN delivery[<<s[1], "error">>] # "none"
       ELSE \A c \in Accepted : c < s[1] => delivery[<<c, "error">>] # "none"
    /\ delivery' = [delivery EXCEPT ![s] = "sent"]
    /\ identifier' = [identifier EXCEPT ![s] =
                         2 * Cardinality({t \in Streams : identifier[t] # 0}) + 1]
    /\ NoPairs /\ NoForwardFault /\ UNCHANGED <<client, connOpen>>

(* httpStreamReceived turns away a stream whose headers are not valid. *)
httpStreamReceived(s) ==
    /\ delivery[s] = "sent" /\ ForwardFault
    /\ delivery' = [delivery EXCEPT ![s] = "rejected"]
    /\ NoPairs /\ UNCHANGED <<client, identifier, connOpen>>

(* A bug: the number of the data stream is taken as it is. *)
requestIDAsNumbered(s) == IF client = "ids" THEN s[1] ELSE identifier[s]

requestID(s) ==
    IF client = "ids" THEN s[1]
    ELSE IF s[2] = "error" THEN identifier[s] ELSE identifier[s] - 2

(* newPortForwardPair, with the goroutine that monitors it. *)
newPortForwardPair(r) ==
    [requestID |-> r, error |-> NoStream, data |-> NoStream,
     monitor |-> "waiting", forward |-> "none"]

(* add: a second stream of the same type is an error and changes nothing; the
   pair that becomes complete is handed to portForward. *)
add(p, s) ==
    LET q == [p EXCEPT ![s[2]] = s]
    IN  IF p[s[2]] # NoStream THEN p
        ELSE IF q.error # NoStream /\ q.data # NoStream THEN [q EXCEPT !.forward = "dial"] ELSE q

(* One turn of the loop of run, with getStreamPair. *)
run(s) ==
    /\ connOpen /\ delivery[s] = "sent"
    /\ delivery' = [delivery EXCEPT ![s] = "received"]
    /\ LET found == {p \in streamPairs : pairs[p].requestID = requestID(s)}
       IN  IF found # {}
           THEN /\ \E p \in found : pairs' = [pairs EXCEPT ![p] = add(@, s)]
                /\ UNCHANGED streamPairs
           ELSE /\ pairs' = Append(pairs, add(newPortForwardPair(requestID(s)), s))
                /\ streamPairs' = streamPairs \cup {Len(pairs')}
    /\ NoForwardFault /\ UNCHANGED <<client, identifier, connOpen>>

ConnectionCloses ==
    /\ client # "websocket" /\ connOpen /\ connOpen' = FALSE
    /\ NoPairs /\ NoForwardFault /\ UNCHANGED <<client, identifier, delivery>>

----------------------------------------------------------------------------
(* monitorStreamPair: the timeout may win over a pair that is complete. *)

Goroutines == UNCHANGED <<client, identifier, delivery, connOpen>>

monitorStreamPair(p) ==
    /\ pairs[p].monitor = "waiting"
    /\ pairs' = [pairs EXCEPT ![p].monitor = "removing"]
    /\ UNCHANGED streamPairs /\ NoForwardFault /\ Goroutines

(* A bug: only a pair that is complete is deleted. *)
removeStreamPairComplete(p) ==
    /\ pairs[p].monitor = "removing"
    /\ pairs' = [pairs EXCEPT ![p].monitor = "done"]
    /\ streamPairs' = IF pairs[p].forward = "none" THEN streamPairs ELSE streamPairs \ {p}
    /\ NoForwardFault /\ Goroutines

(* The pair is deleted by its request id. *)
removeStreamPair(p) ==
    /\ pairs[p].monitor = "removing"
    /\ pairs' = [pairs EXCEPT ![p].monitor = "done"]
    /\ streamPairs' = {q \in streamPairs : pairs[q].requestID # pairs[p].requestID}
    /\ NoForwardFault /\ Goroutines

(* portForward: finding the sandbox, its network namespace and the dial may
   fail; the streams are closed then, too. *)
portForwardDial(p) ==
    /\ pairs[p].forward = "dial"
    /\ \/ ForwardFault /\ pairs' = [pairs EXCEPT ![p].forward = "closed"]
       \/ NoForwardFault /\ pairs' = [pairs EXCEPT ![p].forward = "both"]
    /\ UNCHANGED streamPairs /\ Goroutines

(* One of the two directions ends: the pod or the client closes its side. *)
portForwardHalf(p) ==
    /\ pairs[p].forward = "both"
    /\ pairs' = [pairs EXCEPT ![p].forward = "one"]
    /\ UNCHANGED streamPairs /\ NoForwardFault /\ Goroutines

(* The other direction ends as well, or one second has passed. *)
portForwardClose(p) ==
    /\ pairs[p].forward = "one"
    /\ pairs' = [pairs EXCEPT ![p].forward = "closed"]
    /\ UNCHANGED streamPairs /\ NoForwardFault /\ Goroutines

(* The handler of a websocket waits for its forwards, then closes the connection. *)
websocketRun ==
    /\ client = "websocket" /\ connOpen
    /\ \A p \in DOMAIN pairs : pairs[p].forward = "closed"
    /\ connOpen' = FALSE
    /\ NoPairs /\ NoForwardFault /\ UNCHANGED <<client, identifier, delivery>>

(* The connection is closed and every goroutine has ended. *)
ForwardEnded ==
    /\ ~connOpen
    /\ \A p \in DOMAIN pairs : pairs[p].monitor = "done" /\ pairs[p].forward \in {"none", "closed"}
    /\ UNCHANGED forwardVars

PairStep(p) ==
    /\ p \in DOMAIN pairs
    /\ \/ monitorStreamPair(p) \/ removeStreamPair(p)
       \/ portForwardDial(p) \/ portForwardHalf(p) \/ portForwardClose(p)

MaxPairs == Cardinality(Streams)

ForwardNext ==
    \/ ConnectionCloses \/ websocketRun \/ ForwardEnded
    \/ \E s \in Streams : OpenStream(s) \/ httpStreamReceived(s) \/ run(s)
    \/ \E p \in 1..MaxPairs : PairStep(p)

(* The timers and the scheduler: a timeout fires, and a goroutine that can go on
   does.  That a direction of a forward ends is not assumed. *)
Timely ==
    \/ websocketRun
    \/ \E p \in DOMAIN pairs : monitorStreamPair(p) \/ removeStreamPair(p) \/ portForwardClose(p)

ForwardSpec == ForwardInit /\ [][ForwardNext]_forwardVars /\ WF_forwardVars(Timely)

----------------------------------------------------------------------------

Adjacent(c) == identifier[<<c, "data">>] = identifier[<<c, "error">>] + 2

(* The two streams of a pair were opened for the same TCP connection: always
   when the client sends request ids and, when it does not, for a connection
   whose two streams were opened next to each other.  Of such a client, two
   streams that have arrived are a pair, unless the first one has waited too
   long. *)
PairsMatch ==
    /\ ForwardTypeOK
    /\ \A p \in DOMAIN pairs :
          pairs[p].error # NoStream /\ pairs[p].data # NoStream =>
              LET c == pairs[p].error[1]
                  d == pairs[p].data[1]
              IN  c = d \/ (client = "numbers" /\ (~Adjacent(c) \/ ~Adjacent(d)))
    /\ client = "ids" \/ (\A c \in Accepted : identifier[<<c, "data">>] = 0 \/ Adjacent(c)) =>
          \A c \in Accepted :
              (\A t \in Types : delivery[<<c, t>>] = "received") =>
                  \E p \in DOMAIN pairs :
                      /\ \E t \in Types : pairs[p][t] = <<c, t>>
                      /\ pairs[p].monitor # "waiting" \/ \A t \in Types : pairs[p][t] = <<c, t>>

(* The client accepts finitely many connections, and in the end no pair is left
   in the map, whether its second
   stream came in time, late, twice or never, and no forward of which one
   direction has ended is still open because the other goes on.  A websocket is
   closed once its forwards have ended, however they did. *)
PairsReleased ==
    <>[](/\ streamPairs = {}
         /\ \A p \in DOMAIN pairs : pairs[p].forward # "one"
         /\ client # "websocket" \/ ~connOpen
              \/ \E p \in DOMAIN pairs : pairs[p].forward # "closed")
============================================================================
