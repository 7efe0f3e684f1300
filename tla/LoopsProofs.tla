---------------------------- MODULE LoopsProofs ----------------------------
(***************************************************************************)
(* Proofs about the goroutines that run beside the calls and about         *)
(* streams: the syncer of the CNI configuration (CNIConf), the pairing of  *)
(* the streams of a port forward (PortForward), and the cache of requests  *)
(* for streams (StreamServer).                                             *)
(***************************************************************************)
EXTENDS CNIConf, PortForward, StreamServer, Integers, Sequences, FiniteSets, TLAPS

-----------------------------------------------------------------------------
(* The syncer of the CNI configuration *)

\* The events that do not make the loop load.
Ignored == {"Chmod", "Create"}

\* The plugin has the directory as it is, and the status tells so.
UpToDate ==
    /\ networks = IF loadable THEN version ELSE 0
    /\ loadedByUpdate \/ lastSyncStatus = IF loadable THEN "ok" ELSE "error"

\* A version that can be loaded is not the one the plugin started with.
ConfType ==
    /\ version \in Nat /\ loadable \in BOOLEAN /\ (loadable => version # 0)
    /\ confEvents \in Seq(Ops) /\ watching \in {"no", "yes", "closed"}

\* ConfLoaded speaks of a loop that has read all events; it is inductive for one that has only
\* events left which it will ignore.
ConfInv ==
    /\ ConfType
    /\ watching = "no" => confLoop = "new"
    /\ confLoop = "loop" /\ ~unseen /\ (\A i \in DOMAIN confEvents : confEvents[i] \in Ignored)
       => UpToDate

\* A load takes the directory as it is, whatever events are on their way.
LEMMA LoadUpToDate ==
    ASSUME ConfType, Load, UNCHANGED <<version, loadable>>,
           loadedByUpdate' \/ updateLastStatus(~loadable)
    PROVE  UpToDate'
BY Zenon DEF ConfType, Load, updateLastStatus, UpToDate

\* A change of the directory comes with an event that makes the loop load, or is not seen.
LEMMA ChangedReported ==
    ASSUME ConfInv, NEW ops \in WatcherReports, NEW ok \in BOOLEAN, Changed(ops, ok),
           UNCHANGED <<watching, confLoop>>
    PROVE  ConfInv'
<1>1. ops \in Seq(Ops)
  <2>1. "Create" \in Ops /\ "Write" \in Ops /\ "Rename" \in Ops /\ "Remove" \in Ops
    BY Zenon DEF Ops
  <2>2. /\ <<"Create", "Write">> \in Seq(Ops) /\ <<"Rename", "Create">> \in Seq(Ops)
        /\ <<"Write">> \in Seq(Ops) /\ <<"Remove">> \in Seq(Ops) /\ <<"Create">> \in Seq(Ops)
    BY <2>1
  <2> QED BY <2>2, Zenon DEF WatcherReports
<1>2. ConfType'
  <2>1. confEvents \o ops \in Seq(Ops)
    BY <1>1 DEF ConfInv, ConfType
  <2> QED BY <2>1 DEF ConfInv, ConfType, Changed
<1>3. CASE watching # "yes" \/ ops = <<"Create">>
  BY <1>2, <1>3, Zenon DEF ConfInv, ConfType, Changed
<1>4. CASE watching = "yes" /\ ops # <<"Create">>
  <2>1. PICK j \in DOMAIN ops : ops[j] \notin Ignored
    <3>1. ops = <<"Create", "Write">> \/ ops = <<"Write">> \/ ops = <<"Rename", "Create">>
          \/ ops = <<"Remove">>
      BY <1>4, Zenon DEF WatcherReports
    <3> QED BY <3>1 DEF Ignored
  <2>2. confEvents' = confEvents \o ops
    BY <1>4, Zenon DEF Changed
  <2>3. /\ Len(confEvents) + j \in DOMAIN confEvents'
        /\ confEvents'[Len(confEvents) + j] = ops[j]
    BY <1>1, <2>1, <2>2 DEF ConfInv, ConfType
  <2> QED BY <1>2, <2>1, <2>3, <1>4, Zenon DEF ConfInv
<1> QED BY <1>3, <1>4, Zenon

\* One turn of the loop drops an event that is to be ignored, or loads.
LEMMA SyncLoopReported ==
    ASSUME ConfInv, syncLoopEvent
    PROVE  ConfInv'
<1>1. /\ confEvents' = IF confEvents = <<>> THEN <<>> ELSE Tail(confEvents)
      /\ UNCHANGED <<version, loadable, watching, confLoop>>
  BY Zenon DEF syncLoopEvent
<1>2. ConfType'
  BY <1>1 DEF ConfInv, ConfType
<1>3. CASE confEvents # <<>> /\ Head(confEvents) \in {"Chmod", "Create"}
  <2>1. UNCHANGED <<networks, lastSyncStatus, unseen, loadedByUpdate>>
    BY <1>3, Zenon DEF syncLoopEvent
  <2>2. (\A i \in DOMAIN confEvents' : confEvents'[i] \in Ignored)
        => \A i \in DOMAIN confEvents : confEvents[i] \in Ignored
    <3> SUFFICES ASSUME \A i \in DOMAIN confEvents' : confEvents'[i] \in Ignored,
                        NEW i \in DOMAIN confEvents
                 PROVE  confEvents[i] \in Ignored
      BY Zenon
    <3>1. CASE i = 1
      BY <1>3, <3>1 DEF Ignored, ConfInv, ConfType
    <3>2. CASE i # 1
      <4>1. i - 1 \in DOMAIN confEvents' /\ confEvents'[i - 1] = confEvents[i]
        BY <1>1, <1>3, <3>2 DEF ConfInv, ConfType
      <4> QED BY <4>1, Zenon
    <3> QED BY <3>1, <3>2, Zenon
  <2> QED BY <1>1, <1>2, <2>1, <2>2, Zenon DEF ConfInv, UpToDate
<1>4. CASE ~(confEvents # <<>> /\ Head(confEvents) \in {"Chmod", "Create"})
  <2>1. Load /\ updateLastStatus(~loadable)
    BY <1>4, Zenon DEF syncLoopEvent
  <2>2. UpToDate'
    BY <1>1, <2>1, LoadUpToDate, Zenon DEF ConfInv
  <2> QED BY <1>1, <1>2, <2>2, Zenon DEF ConfInv
<1> QED BY <1>3, <1>4, Zenon

\* The steps of newCNINetConfSyncer, the end of the loop, and stop.
LEMMA SyncerReported ==
    ASSUME ConfInv, newCNINetConfSyncer \/ syncLoopError \/ stop \/ Chmod
    PROVE  ConfInv'
<1>1. CASE newCNINetConfSyncer
  <2>1. ConfType' /\ (watching' = "no" => confLoop' = "new")
    BY <1>1 DEF newCNINetConfSyncer, ConfInv, ConfType
  <2>2. CASE confLoop' = "loop"
    <3>1. Load /\ updateLastStatus(~loadable) /\ UNCHANGED <<version, loadable>>
      BY <1>1, <2>2, Zenon DEF newCNINetConfSyncer
    <3> QED BY <2>1, <3>1, LoadUpToDate, Zenon DEF ConfInv
  <2> QED BY <2>1, <2>2, Zenon DEF ConfInv
<1>2. CASE syncLoopError
  BY <1>2, Zenon DEF syncLoopError, ConfInv, ConfType
<1>3. CASE stop
  <2>1. ConfType' /\ watching' = "closed"
    BY <1>3 DEF stop, ConfInv, ConfType
  <2>2. ~unseen' => ~unseen /\ confEvents = <<>>
    BY <1>3, Zenon DEF stop
  <2>3. UpToDate => UpToDate'
    BY <1>3, Zenon DEF stop, UpToDate
  <2> QED BY <1>3, <2>1, <2>2, <2>3, Zenon DEF stop, ConfInv
<1>4. CASE Chmod
  <2>1. ConfType' /\ confEvents = <<>>
    BY <1>4 DEF Chmod, ConfInv, ConfType, Ops
  <2>2. UNCHANGED <<watching, confLoop, unseen>> /\ (UpToDate => UpToDate')
    BY <1>4, Zenon DEF Chmod, UpToDate
  <2> QED BY <2>1, <2>2 DEF ConfInv
<1> QED BY <1>1, <1>2, <1>3, <1>4, Zenon

\* The steps of UpdateRuntimeConfig.
LEMMA UpdateReported ==
    ASSUME ConfInv,
           \/ UpdateRuntimeConfig \/ UpdateLoad \/ UpdateOpen \/ UpdateFails
           \/ \E ok \in BOOLEAN : UpdateWrite(ok)
    PROVE  ConfInv'
<1>1. CASE UpdateRuntimeConfig \/ UpdateFails
  BY <1>1 DEF UpdateRuntimeConfig, UpdateFails, ConfInv, ConfType, UpToDate
<1>2. CASE UpdateLoad
  <2>1. Load /\ loadedByUpdate' /\ UNCHANGED <<version, loadable, confEvents, watching, confLoop>>
    BY <1>2, Zenon DEF UpdateLoad
  <2>2. UpToDate'
    BY <2>1, LoadUpToDate, Zenon DEF ConfInv
  <2> QED BY <2>1, <2>2, Zenon DEF ConfInv, ConfType
<1>3. CASE UpdateOpen
  <2>1. CASE UNCHANGED <<version, loadable, confEvents, unseen>>
    BY <1>3, <2>1, Zenon DEF UpdateOpen, ConfInv, ConfType, UpToDate
  <2>2. ASSUME NEW ok \in {FALSE, loadable}, Changed(<<"Create">>, ok)
        PROVE  ConfInv'
    <3>1. ok \in BOOLEAN /\ <<"Create">> \in WatcherReports
      BY Zenon DEF ConfInv, ConfType, WatcherReports
    <3> QED BY <1>3, <2>2, <3>1, ChangedReported, Zenon DEF UpdateOpen
  <2> QED BY <1>3, <2>1, <2>2, Zenon DEF UpdateOpen
<1>4. ASSUME NEW ok \in BOOLEAN, UpdateWrite(ok)
      PROVE  ConfInv'
  BY <1>4, ChangedReported, Zenon DEF UpdateWrite, WatcherReports
<1> QED BY <1>1, <1>2, <1>3, <1>4, Zenon

\* The other types.
ConfConstants == MaxVersion \in Nat /\ MaxConfFaults \in Nat

ConfNumbers ==
    /\ version \in 0 .. MaxVersion /\ networks \in 0 .. MaxVersion
    /\ confFaults \in 0 .. MaxConfFaults
ConfWords ==
    /\ lastSyncStatus \in {"ok", "error"} /\ confLoop \in {"new", "loop", "returned"}
    /\ unseen \in BOOLEAN /\ loadedByUpdate \in BOOLEAN
    /\ updating \in {"no", "load", "open", "write", "wrote"}

\* Every step keeps the types.
LEMMA ConfRestKept ==
    ASSUME ConfConstants, ConfNumbers, ConfWords, [ConfNext]_confVars
    PROVE  ConfNumbers' /\ ConfWords'
<1>1. ConfNumbers'
  <2> USE DEF ConfNumbers, ConfConstants
  <2>1. CASE newCNINetConfSyncer \/ syncLoopEvent \/ UpdateLoad
    BY <2>1 DEF newCNINetConfSyncer, syncLoopEvent, UpdateLoad, Load
  <2>2. CASE syncLoopError \/ stop \/ Chmod
    BY <2>2 DEF syncLoopError, stop, Chmod
  <2>3. ASSUME NEW ops, NEW ok, Changed(ops, ok) PROVE version' \in 0 .. MaxVersion
    BY <2>3 DEF Changed
  <2>4. CASE UpdateRuntimeConfig \/ UpdateFails
    BY <2>4 DEF UpdateRuntimeConfig, UpdateFails
  <2>5. CASE \/ \E ops \in WatcherReports, ok \in BOOLEAN : Change(ops, ok)
             \/ UpdateOpen \/ \E ok \in BOOLEAN : UpdateWrite(ok)
    BY <2>3, <2>5, Zenon DEF Change, UpdateOpen, UpdateWrite
  <2>6. CASE UNCHANGED confVars
    BY <2>6, Zenon DEF confVars
  <2> QED BY <2>1, <2>2, <2>4, <2>5, <2>6, Zenon DEF ConfNext
<1>2. ConfWords'
  <2> USE DEF ConfWords
  <2>1. CASE newCNINetConfSyncer \/ syncLoopEvent \/ UpdateLoad
    BY <2>1, Zenon DEF newCNINetConfSyncer, syncLoopEvent, UpdateLoad, Load, updateLastStatus
  <2>2. CASE syncLoopError \/ stop \/ Chmod
    BY <2>2, Zenon DEF syncLoopError, stop, Chmod
  <2>3. CASE UpdateRuntimeConfig \/ UpdateFails
    BY <2>3, Zenon DEF UpdateRuntimeConfig, UpdateFails
  <2>4. CASE \/ \E ops \in WatcherReports, ok \in BOOLEAN : Change(ops, ok)
             \/ UpdateOpen \/ \E ok \in BOOLEAN : UpdateWrite(ok)
    BY <2>4, Zenon DEF Change, UpdateOpen, UpdateWrite, Changed
  <2>5. CASE UNCHANGED confVars
    BY <2>5, Zenon DEF confVars
  <2> QED BY <2>1, <2>2, <2>3, <2>4, <2>5, Zenon DEF ConfNext
<1> QED BY <1>1, <1>2, Zenon

\* Once the loop of cni_conf_syncer.go has read its events, the plugin has the directory as it is
\* now and Status tells whether it could be loaded, however many changes, errors and calls of
\* UpdateRuntimeConfig there are.
THEOREM ConfIsLoaded ==
    ASSUME ConfConstants
    PROVE  ConfSpec => []ConfLoaded
<1>1. ConfInit => ConfInv
  <2> SUFFICES ASSUME ConfInit PROVE ConfInv
    BY Zenon
  <2>1. version \in Nat /\ confEvents \in Seq(Ops)
    BY DEF ConfInit
  <2>2. loadable \in BOOLEAN /\ ~loadable /\ watching = "no" /\ confLoop = "new"
    BY Zenon DEF ConfInit
  <2>3. ConfType
    BY <2>1, <2>2, Zenon DEF ConfType
  <2> QED BY <2>2, <2>3, Zenon DEF ConfInv
<1>2. ConfInv /\ [ConfNext]_(confVars) => ConfInv'
  <2> SUFFICES ASSUME ConfInv, [ConfNext]_(confVars) PROVE ConfInv'
    BY Zenon
  <2>1. CASE UNCHANGED confVars
    BY <2>1, Zenon DEF confVars, ConfInv, ConfType, UpToDate
  <2>2. ASSUME NEW ops \in WatcherReports, NEW ok \in BOOLEAN, Change(ops, ok)
        PROVE  ConfInv'
    BY <2>2, ChangedReported, Zenon DEF Change
  <2> QED BY <2>1, <2>2, SyncLoopReported, SyncerReported, UpdateReported, Zenon DEF ConfNext
<1>3. ConfInit => ConfNumbers /\ ConfWords
  <2>1. ConfInit => ConfNumbers
    BY DEF ConfInit, ConfNumbers, ConfConstants
  <2> QED BY <2>1, Zenon DEF ConfInit, ConfWords
<1>4. ConfNumbers /\ ConfWords /\ [ConfNext]_confVars => ConfNumbers' /\ ConfWords'
  BY ConfRestKept, Zenon
<1>5. ConfInv /\ ConfNumbers /\ ConfWords => ConfLoaded
  <2> SUFFICES ASSUME ConfInv, ConfNumbers, ConfWords PROVE ConfLoaded
    BY Zenon
  <2>1. ConfTypeOK
    BY Zenon DEF ConfInv, ConfType, ConfNumbers, ConfWords, ConfTypeOK
  <2> QED BY <2>1 DEF ConfInv, ConfType, UpToDate, ConfLoaded, Status
<1> QED BY <1>1, <1>2, <1>3, <1>4, <1>5, PTL DEF ConfSpec

-----------------------------------------------------------------------------

(* The pairing of the streams of a port forward *)

\* The connections of a client are numbered from 1.
ForwardConstants == MaxForwardFaults \in Nat /\ \E n \in Nat : Accepted = 1 .. n

Pair == [requestID : Int, error : Streams \cup {NoStream}, data : Streams \cup {NoStream},
         monitor : {"waiting", "removing", "done"},
         forward : {"none", "dial", "both", "one", "closed"}]

ForwardType ==
    /\ client \in Clients /\ connOpen \in BOOLEAN
    /\ identifier \in [Streams -> Nat]
    /\ delivery \in [Streams -> {"none", "sent", "received", "rejected"}]
    /\ pairs \in Seq(Pair) /\ streamPairs \subseteq DOMAIN pairs
    /\ forwardFaults \in 0 .. MaxForwardFaults

\* The streams a client has opened have different numbers, none above twice their number.
Opened == {s \in Streams : identifier[s] # 0}
Numbered ==
    /\ \A s \in Opened : identifier[s] < 2 * Cardinality(Opened)
    /\ \A s, t \in Opened : identifier[s] = identifier[t] => s = t
    /\ client # "websocket" => \A s \in Streams : delivery[s] # "none" <=> s \in Opened

\* A pair has streams that were received, of its request id.
Holds(p, s) == pairs[p].error = s \/ pairs[p].data = s
PairsHold ==
    \A p \in DOMAIN pairs :
        /\ pairs[p].error # NoStream =>
              /\ pairs[p].error[2] = "error" /\ delivery[pairs[p].error] = "received"
              /\ client # "websocket" => requestID(pairs[p].error) = pairs[p].requestID
        /\ pairs[p].data # NoStream =>
              /\ pairs[p].data[2] = "data" /\ delivery[pairs[p].data] = "received"
              /\ client # "websocket" => requestID(pairs[p].data) = pairs[p].requestID

\* Every stream that was received is in a pair; the monitor of a pair ends by taking it, and no
\* other, out of the map.
Received == \A s \in Streams : delivery[s] = "received" => \E p \in DOMAIN pairs : Holds(p, s)
Mapped ==
    /\ \A p \in DOMAIN pairs : pairs[p].monitor # "done" => p \in streamPairs
    /\ \A p, q \in streamPairs : pairs[p].requestID = pairs[q].requestID => p = q

\* The channels of a websocket are paired from the start.
Channels ==
    client = "websocket" =>
        /\ \A s \in Streams : delivery[s] \notin {"none", "sent"} /\ identifier[s] = 0
        /\ \A p \in DOMAIN pairs : /\ pairs[p].monitor = "done"
                                   /\ pairs[p].error[1] = pairs[p].data[1]

PairInv == ForwardType /\ Numbered /\ PairsHold /\ Received /\ Mapped /\ Channels

\* A stream is a connection with one of two types, and there are all of them.
LEMMA StreamTypes ==
    /\ NoStream \notin Streams
    /\ \A s \in Streams : /\ s[1] \in Accepted /\ s[2] \in Types /\ s = <<s[1], s[2]>>
                          /\ s[2] = "error" \/ s[2] = "data"
    /\ \A c \in Accepted : \A t \in Types : <<c, t>> \in Streams /\ <<c, t>>[1] = c /\ <<c, t>>[2] = t
BY DEF NoStream, Streams, Types

\* The invariant implies the property.
LEMMA PairsAreMatched ==
    ASSUME ForwardConstants, PairInv
    PROVE  ForwardTypeOK /\ PairsMatch
<1> USE DEF PairInv
<1>1. \A p \in DOMAIN pairs : pairs[p] \in Pair
  BY DEF ForwardType
<1>2. ForwardTypeOK
  BY <1>1, Zenon DEF ForwardType, Pair, ForwardTypeOK
<1>3. ASSUME NEW p \in DOMAIN pairs, pairs[p].error # NoStream, pairs[p].data # NoStream
      PROVE  \/ pairs[p].error[1] = pairs[p].data[1]
             \/ client = "numbers" /\ ~Adjacent(pairs[p].data[1])
  <2> DEFINE e == pairs[p].error
             d == pairs[p].data
  <2>1. e \in Streams /\ d \in Streams
    BY <1>1, <1>3, Zenon DEF Pair
  <2>2. /\ e[2] = "error" /\ delivery[e] = "received" /\ d[2] = "data" /\ delivery[d] = "received"
        /\ client # "websocket" => requestID(e) = requestID(d)
    BY <1>3, Zenon DEF PairsHold
  <2>3. CASE client = "websocket"
    BY <2>3, Zenon DEF Channels
  <2>4. CASE client = "ids"
    BY <2>2, <2>4, Zenon DEF requestID
  <2>5. CASE client = "numbers" /\ Adjacent(d[1])
    <3> DEFINE b == <<d[1], "error">>
    <3>1. b \in Streams /\ d = <<d[1], "data">> /\ e = <<e[1], "error">>
      BY <2>1, <2>2, StreamTypes DEF Types
    <3>2. e \in Opened /\ d \in Opened /\ identifier[e] = identifier[d] - 2
      BY <2>1, <2>2, <2>5, Zenon DEF Numbered, requestID
    <3>3. identifier[d] = identifier[b] + 2
      BY <2>5, <3>1, Zenon DEF Adjacent
    <3>4. identifier[b] \in Nat /\ identifier[d] \in Nat /\ identifier[e] \in Nat
      BY <2>1, <3>1, Zenon DEF ForwardType
    <3>5. identifier[e] = identifier[b]
      BY <3>2, <3>3, <3>4
    <3>6. b \in Opened
      BY <3>1, <3>2, <3>5, Zenon DEF Opened
    <3>7. e = b
      BY <3>2, <3>5, <3>6, Zenon DEF Numbered
    <3> QED BY <3>1, <3>7
  <2> QED BY <2>3, <2>4, <2>5, Zenon DEF ForwardType, Clients
<1>4. ASSUME client = "ids" \/ (\A c \in Accepted : identifier[<<c, "data">>] = 0 \/ Adjacent(c)),
             NEW c \in Accepted, \A t \in Types : delivery[<<c, t>>] = "received"
      PROVE  \E p \in DOMAIN pairs :
                /\ \E t \in Types : pairs[p][t] = <<c, t>>
                /\ pairs[p].monitor # "waiting" \/ \A t \in Types : pairs[p][t] = <<c, t>>
  <2> DEFINE e == <<c, "error">>
             d == <<c, "data">>
  <2>1. /\ e \in Streams /\ e[2] = "error" /\ delivery[e] = "received"
        /\ d \in Streams /\ d[2] = "data" /\ delivery[d] = "received"
    BY <1>4, StreamTypes, Zenon DEF Types
  <2>2. PICK p \in DOMAIN pairs : pairs[p].error = e
    <3>1. PICK p \in DOMAIN pairs : Holds(p, e)
      BY <2>1, Zenon DEF Received
    <3>2. pairs[p].data # e
      BY <2>1, StreamTypes DEF PairsHold
    <3> QED BY <3>1, <3>2, Zenon DEF Holds
  <2>3. PICK q \in DOMAIN pairs : pairs[q].data = d
    <3>1. PICK q \in DOMAIN pairs : Holds(q, d)
      BY <2>1, Zenon DEF Received
    <3>2. pairs[q].error # d
      BY <2>1, StreamTypes DEF PairsHold
    <3> QED BY <3>1, <3>2, Zenon DEF Holds
  <2>4. CASE pairs[p].monitor # "waiting"
    BY <2>2, <2>4, Zenon DEF Types
  <2>5. CASE pairs[q].monitor # "waiting"
    BY <2>3, <2>5, Zenon DEF Types
  <2>6. CASE pairs[p].monitor = "waiting" /\ pairs[q].monitor = "waiting"
    <3>1. client # "websocket" /\ p \in streamPairs /\ q \in streamPairs
      BY <2>6, Zenon DEF Channels, Mapped
    <3>2. requestID(e) = pairs[p].requestID /\ requestID(d) = pairs[q].requestID
      BY <2>1, <2>2, <2>3, <3>1, StreamTypes DEF PairsHold
    <3>3. e \in Opened /\ d \in Opened /\ identifier[e] \in Nat /\ identifier[d] \in Nat
      BY <2>1, <3>1, Zenon DEF Numbered, ForwardType
    <3>4. requestID(e) = requestID(d)
      BY <1>4, <2>1, <3>3 DEF requestID, Adjacent, Opened
    <3>5. p = q
      BY <3>1, <3>2, <3>4, Zenon DEF Mapped
    <3> QED BY <2>2, <2>3, <3>5, Zenon DEF Types
  <2> QED BY <2>4, <2>5, <2>6, Zenon
<1>5. PairsMatch
  BY <1>2, <1>3, <1>4, Zenon DEF PairsMatch
<1> QED BY <1>2, <1>5, Zenon

-----------------------------------------------------------------------------

\* A step of the two goroutines of a pair leaves its streams alone.
LEMMA PairGoesOn ==
    ASSUME PairInv, NEW p \in DOMAIN pairs, NEW v \in Pair, pairs' = [pairs EXCEPT ![p] = v],
           v.requestID = pairs[p].requestID, v.error = pairs[p].error, v.data = pairs[p].data,
           pairs[p].monitor = "done" => v.monitor = "done",
           streamPairs' \subseteq streamPairs, streamPairs \ streamPairs' \subseteq {p},
           p \in streamPairs' \/ v.monitor = "done" \/ streamPairs' = streamPairs,
           UNCHANGED <<client, identifier, delivery, connOpen>>, forwardFaults' \in 0 .. MaxForwardFaults
    PROVE  PairInv'
<1>1. pairs' \in Seq(Pair) /\ DOMAIN pairs' = DOMAIN pairs
  BY DEF PairInv, ForwardType
<1>2. \A q \in DOMAIN pairs : /\ pairs'[q].requestID = pairs[q].requestID
                              /\ pairs'[q].error = pairs[q].error /\ pairs'[q].data = pairs[q].data
                              /\ pairs[q].monitor = "done" => pairs'[q].monitor = "done"
                              /\ q # p => pairs'[q] = pairs[q]
  BY Zenon
<1>3. pairs'[p] = v
  BY Zenon
<1> HIDE DEF Pair
<1>4. ForwardType'
  BY <1>1, Zenon DEF PairInv, ForwardType
<1>5. Numbered'
  BY Zenon DEF PairInv, Numbered, Opened
<1>6. PairsHold'
  BY <1>1, <1>2 DEF PairInv, PairsHold, requestID
<1>7. Received'
  BY <1>1, <1>2 DEF PairInv, Received, Holds
<1>8. Mapped'
  BY <1>1, <1>2, <1>3 DEF PairInv, Mapped, ForwardType
<1>9. Channels'
  BY <1>1, <1>2 DEF PairInv, Channels
<1> QED BY <1>4, <1>5, <1>6, <1>7, <1>8, <1>9 DEF PairInv

\* monitorStreamPair, removeStreamPair and portForward.
LEMMA PairSteps ==
    ASSUME ForwardConstants, PairInv, NEW p, PairStep(p)
    PROVE  PairInv'
<1>1. p \in DOMAIN pairs /\ pairs[p] \in Pair /\ Goroutines
  BY DEF PairStep, monitorStreamPair, removeStreamPair, portForwardDial, portForwardHalf,
         portForwardClose, PairInv, ForwardType
<1>2. forwardFaults' \in 0 .. MaxForwardFaults
  BY DEF PairStep, monitorStreamPair, removeStreamPair, portForwardDial, portForwardHalf,
         portForwardClose, ForwardFault, NoForwardFault, PairInv, ForwardType, ForwardConstants
<1> DEFINE mon(m) == [pairs[p] EXCEPT !.monitor = m]
           fwd(f) == [pairs[p] EXCEPT !.forward = f]
<1>3. \A m \in {"waiting", "removing", "done"} :
         /\ mon(m) \in Pair /\ mon(m).requestID = pairs[p].requestID /\ mon(m).error = pairs[p].error
         /\ mon(m).data = pairs[p].data /\ mon(m).monitor = m
  BY <1>1, Zenon DEF Pair
<1>4. \A f \in {"none", "dial", "both", "one", "closed"} :
         /\ fwd(f) \in Pair /\ fwd(f).requestID = pairs[p].requestID /\ fwd(f).error = pairs[p].error
         /\ fwd(f).data = pairs[p].data /\ fwd(f).monitor = pairs[p].monitor
  BY <1>1, Zenon DEF Pair
<1>5. CASE monitorStreamPair(p)
  <2>1. pairs' = [pairs EXCEPT ![p] = mon("removing")] /\ streamPairs' = streamPairs
    BY <1>5, Zenon DEF monitorStreamPair
  <2>2. pairs[p].monitor # "done"
    BY <1>5, Zenon DEF monitorStreamPair
  <2> HIDE DEF mon
  <2> QED BY <1>1, <1>2, <1>3, <2>1, <2>2, PairGoesOn, Zenon DEF Goroutines
<1>6. CASE removeStreamPair(p)
  <2>1. pairs' = [pairs EXCEPT ![p] = mon("done")]
    BY <1>6, Zenon DEF removeStreamPair
  <2>2. streamPairs' \subseteq streamPairs /\ streamPairs \ streamPairs' \subseteq {p}
    BY <1>1, <1>6, Zenon DEF removeStreamPair, PairInv, Mapped
  <2> HIDE DEF mon
  <2> QED BY <1>1, <1>2, <1>3, <2>1, <2>2, PairGoesOn, Zenon DEF Goroutines
<1>7. CASE portForwardDial(p) \/ portForwardHalf(p) \/ portForwardClose(p)
  <2>1. PICK f \in {"none", "dial", "both", "one", "closed"} : pairs' = [pairs EXCEPT ![p] = fwd(f)]
    BY <1>7, Zenon DEF portForwardDial, portForwardHalf, portForwardClose
  <2>2. streamPairs' = streamPairs
    BY <1>7, Zenon DEF portForwardDial, portForwardHalf, portForwardClose
  <2> HIDE DEF fwd
  <2> QED BY <1>1, <1>2, <1>4, <2>1, <2>2, PairGoesOn, Zenon DEF Goroutines
<1> QED BY <1>5, <1>6, <1>7, Zenon DEF PairStep

-----------------------------------------------------------------------------

\* What add does to a pair.
Added(pr, s, q) ==
    /\ q \in Pair /\ q.requestID = pr.requestID /\ q.monitor = pr.monitor
    /\ q.error = IF s[2] = "error" /\ pr.error = NoStream THEN s ELSE pr.error
    /\ q.data = IF s[2] = "data" /\ pr.data = NoStream THEN s ELSE pr.data
\* What add does to a pair (httpStreamPair.add).
LEMMA AddStream ==
    ASSUME NEW pr \in Pair, NEW s \in Streams
    PROVE  Added(pr, s, add(pr, s))
<1>1. CASE s[2] = "error"
  <2>1. [pr EXCEPT ![s[2]] = s] = [pr EXCEPT !.error = s] /\ pr[s[2]] = pr.error
    BY <1>1, Zenon
  <2> QED BY <1>1, <2>1, Zenon DEF add, Added, Pair
<1>2. CASE s[2] = "data"
  <2>1. [pr EXCEPT ![s[2]] = s] = [pr EXCEPT !.data = s] /\ pr[s[2]] = pr.data
    BY <1>2, Zenon
  <2> QED BY <1>2, <2>1, Zenon DEF add, Added, Pair
<1> QED BY <1>1, <1>2, StreamTypes, Zenon

\* Streams of one type that a client has opened have different request ids.
LEMMA SameRequest ==
    ASSUME PairInv, client # "websocket", NEW s \in Opened, NEW t \in Opened, s[2] = t[2],
           requestID(s) = requestID(t)
    PROVE  s = t
<1>1. s \in Streams /\ t \in Streams /\ identifier[s] \in Nat /\ identifier[t] \in Nat
  BY Zenon DEF Opened, PairInv, ForwardType
<1>2. CASE client = "ids"
  BY <1>1, <1>2, StreamTypes, Zenon DEF requestID
<1>3. CASE client = "numbers"
  <2>1. identifier[s] = identifier[t]
    BY <1>1, <1>3 DEF requestID
  <2> QED BY <2>1, Zenon DEF PairInv, Numbered
<1> QED BY <1>2, <1>3, Zenon DEF PairInv, ForwardType, Clients

\* A stream comes to the pair of its request id in the map, which has no stream of its type yet.
PairedWith(p, s) ==
    /\ pairs' \in Seq(Pair) /\ DOMAIN pairs' = DOMAIN pairs \cup {p}
    /\ \A q \in DOMAIN pairs : q # p => pairs'[q] = pairs[q]
    /\ streamPairs' = streamPairs \cup {p} /\ pairs'[p].requestID = requestID(s)
    /\ p \in DOMAIN pairs => pairs[p].requestID = requestID(s)
    /\ \A q \in streamPairs : q # p => pairs[q].requestID # requestID(s)
    /\ \/ /\ s[2] = "error" /\ pairs'[p].error = s
          /\ p \in DOMAIN pairs => pairs[p].error = NoStream /\ pairs'[p].data = pairs[p].data
          /\ p \notin DOMAIN pairs => pairs'[p].data = NoStream
       \/ /\ s[2] = "data" /\ pairs'[p].data = s
          /\ p \in DOMAIN pairs => pairs[p].data = NoStream /\ pairs'[p].error = pairs[p].error
          /\ p \notin DOMAIN pairs => pairs'[p].error = NoStream

\* One turn of the loop of run puts the stream into the pair of its request id.
LEMMA RunStep ==
    ASSUME ForwardConstants, PairInv, NEW s \in Streams, run(s)
    PROVE  PairInv'
<1>1. /\ delivery[s] = "sent" /\ delivery' = [delivery EXCEPT ![s] = "received"]
      /\ UNCHANGED <<client, identifier, connOpen, forwardFaults>>
  BY Zenon DEF run, NoForwardFault
<1>2. client # "websocket" /\ s \in Opened
  BY <1>1, Zenon DEF PairInv, Channels, Numbered
<1>3. /\ delivery' \in [Streams -> {"none", "sent", "received", "rejected"}]
      /\ delivery'[s] = "received" /\ \A t \in Streams : t # s => delivery'[t] = delivery[t]
  BY <1>1, Zenon DEF PairInv, ForwardType
<1>4. \A t : requestID(t)' = requestID(t)
  BY <1>1, Zenon DEF requestID
<1>5. pairs \in Seq(Pair) /\ streamPairs \subseteq DOMAIN pairs /\ requestID(s) \in Int
  <2>1. identifier[s] \in Nat /\ s[1] \in Int
    BY StreamTypes, <1>2 DEF PairInv, ForwardType, ForwardConstants
  <2> QED BY <2>1 DEF requestID, PairInv, ForwardType
<1>6. \E p \in DOMAIN pairs' : PairedWith(p, s)
  <2>1. ASSUME NEW p \in streamPairs, pairs[p].requestID = requestID(s),
               pairs' = [pairs EXCEPT ![p] = add(@, s)], streamPairs' = streamPairs
        PROVE  \E o \in DOMAIN pairs' : PairedWith(o, s)
    <3> DEFINE q == add(pairs[p], s)
    <3>1. pairs[p] \in Pair /\ p \in DOMAIN pairs
      BY <1>5
    <3>2. Added(pairs[p], s, q)
      BY <3>1, AddStream, Zenon
    <3>3. pairs' = [pairs EXCEPT ![p] = q]
      BY <2>1, Zenon
    <3>4. s[2] = "error" => pairs[p].error = NoStream
      <4> SUFFICES ASSUME s[2] = "error", pairs[p].error # NoStream PROVE FALSE
        BY Zenon
      <4>1. pairs[p].error \in Streams
        BY <3>1, Zenon DEF Pair
      <4>2. /\ pairs[p].error[2] = "error" /\ delivery[pairs[p].error] = "received"
            /\ requestID(pairs[p].error) = requestID(s)
        BY <1>2, <2>1, <3>1, Zenon DEF PairInv, PairsHold
      <4>3. pairs[p].error \in Opened
        BY <1>2, <4>1, <4>2, Zenon DEF PairInv, Numbered
      <4> QED BY <1>1, <1>2, <4>2, <4>3, SameRequest
    <3>5. s[2] = "data" => pairs[p].data = NoStream
      <4> SUFFICES ASSUME s[2] = "data", pairs[p].data # NoStream PROVE FALSE
        BY Zenon
      <4>1. pairs[p].data \in Streams
        BY <3>1, Zenon DEF Pair
      <4>2. /\ pairs[p].data[2] = "data" /\ delivery[pairs[p].data] = "received"
            /\ requestID(pairs[p].data) = requestID(s)
        BY <1>2, <2>1, <3>1, Zenon DEF PairInv, PairsHold
      <4>3. pairs[p].data \in Opened
        BY <1>2, <4>1, <4>2, Zenon DEF PairInv, Numbered
      <4> QED BY <1>1, <1>2, <4>2, <4>3, SameRequest, Zenon
    <3> HIDE DEF q
    <3>6. /\ pairs' \in Seq(Pair) /\ DOMAIN pairs' = DOMAIN pairs /\ pairs'[p] = q
          /\ \A o \in DOMAIN pairs : o # p => pairs'[o] = pairs[o]
      BY <1>5, <3>1, <3>2, <3>3 DEF Added
    <3>7. \A o \in streamPairs : o # p => pairs[o].requestID # requestID(s)
      BY <2>1, Zenon DEF PairInv, Mapped
    <3>8. s[2] = "error" \/ s[2] = "data"
      BY StreamTypes, Zenon
    <3>9. PairedWith(p, s)
      BY <2>1, <3>1, <3>2, <3>4, <3>5, <3>6, <3>7, <3>8, Zenon DEF Added, PairedWith
    <3> QED BY <3>1, <3>6, <3>9, Zenon
  <2>2. ASSUME \A p \in streamPairs : pairs[p].requestID # requestID(s),
               pairs' = Append(pairs, add(newPortForwardPair(requestID(s)), s)),
               streamPairs' = streamPairs \cup {Len(pairs')}
        PROVE  \E o \in DOMAIN pairs' : PairedWith(o, s)
    <3> DEFINE n == newPortForwardPair(requestID(s))
               q == add(n, s)
    <3>1. /\ n \in Pair /\ n.requestID = requestID(s) /\ n.error = NoStream
          /\ n.data = NoStream
      BY <1>5, Zenon DEF newPortForwardPair, Pair
    <3>2. Added(n, s, q)
      BY <3>1, AddStream, Zenon
    <3>3. pairs' = Append(pairs, q)
      BY <2>2, Zenon
    <3> HIDE DEF n, q
    <3>4. /\ pairs' \in Seq(Pair) /\ DOMAIN pairs' = DOMAIN pairs \cup {Len(pairs')}
          /\ pairs'[Len(pairs')] = q /\ Len(pairs') \notin DOMAIN pairs
          /\ \A o \in DOMAIN pairs : pairs'[o] = pairs[o]
      BY <1>5, <3>2, <3>3 DEF Added
    <3>5. s[2] = "error" \/ s[2] = "data"
      BY StreamTypes, Zenon
    <3>6. PairedWith(Len(pairs'), s)
      BY <1>5, <2>2, <3>1, <3>2, <3>4, <3>5 DEF Added, PairedWith
    <3> QED BY <3>4, <3>6, Zenon
  <2>3. CASE {p \in streamPairs : pairs[p].requestID = requestID(s)} # {}
    <3>1. PICK p \in {p \in streamPairs : pairs[p].requestID = requestID(s)} :
             pairs' = [pairs EXCEPT ![p] = add(@, s)]
      BY <2>3, Zenon DEF run
    <3>2. streamPairs' = streamPairs
      BY <2>3, Zenon DEF run
    <3> QED BY <2>1, <3>1, <3>2, Zenon
  <2>4. CASE {p \in streamPairs : pairs[p].requestID = requestID(s)} = {}
    <3>1. /\ pairs' = Append(pairs, add(newPortForwardPair(requestID(s)), s))
          /\ streamPairs' = streamPairs \cup {Len(pairs')}
      BY <2>4, Zenon DEF run
    <3> QED BY <2>2, <2>4, <3>1, Zenon
  <2> QED BY <2>3, <2>4, Zenon
<1>7. PICK p \in DOMAIN pairs' : PairedWith(p, s)
  BY <1>6, Zenon
<1>8. ForwardType'
  BY <1>1, <1>3, <1>5, <1>7, Zenon DEF PairedWith, PairInv, ForwardType
<1>9. Numbered'
  <2>1. Opened' = Opened
    BY <1>1, Zenon DEF Opened
  <2>2. \A t \in Streams : delivery'[t] # "none" <=> t \in Opened
    BY <1>2, <1>3, Zenon DEF PairInv, Numbered
  <2> QED BY <1>1, <2>1, <2>2, Zenon DEF PairInv, Numbered
<1>10. PairsHold'
  <2>1. \A q \in DOMAIN pairs : /\ pairs[q].error # NoStream => pairs[q].error \in Streams
                                /\ pairs[q].data # NoStream => pairs[q].data \in Streams
    <3>1. \A q \in DOMAIN pairs : pairs[q] \in Pair
      BY <1>5
    <3> QED BY <3>1, Zenon DEF Pair
  <2>2. \A q \in DOMAIN pairs :
           /\ pairs[q].error # NoStream => delivery'[pairs[q].error] = "received"
           /\ pairs[q].data # NoStream => delivery'[pairs[q].data] = "received"
    BY <1>1, <1>3, <2>1, Zenon DEF PairInv, PairsHold
  <2>3. ASSUME NEW q \in DOMAIN pairs'
        PROVE  /\ pairs'[q].error # NoStream =>
                     /\ pairs'[q].error[2] = "error" /\ delivery'[pairs'[q].error] = "received"
                     /\ requestID(pairs'[q].error) = pairs'[q].requestID
               /\ pairs'[q].data # NoStream =>
                     /\ pairs'[q].data[2] = "data" /\ delivery'[pairs'[q].data] = "received"
                     /\ requestID(pairs'[q].data) = pairs'[q].requestID
    <3>1. CASE q # p
      <4>1. q \in DOMAIN pairs /\ pairs'[q] = pairs[q]
        BY <1>7, <3>1, Zenon DEF PairedWith
      <4> QED BY <1>2, <2>2, <4>1, Zenon DEF PairInv, PairsHold
    <3>2. CASE q = p /\ p \in DOMAIN pairs
      <4>1. /\ pairs[p].error # NoStream =>
                  pairs[p].error[2] = "error" /\ requestID(pairs[p].error) = pairs[p].requestID
            /\ pairs[p].data # NoStream =>
                  pairs[p].data[2] = "data" /\ requestID(pairs[p].data) = pairs[p].requestID
        BY <1>2, <3>2, Zenon DEF PairInv, PairsHold
      <4>2. pairs[p].requestID = requestID(s) /\ pairs'[p].requestID = requestID(s)
        BY <1>7, <3>2, Zenon DEF PairedWith
      <4>3. CASE s[2] = "error"
        <5>1. pairs'[p].error = s /\ pairs'[p].data = pairs[p].data
          BY <1>7, <3>2, <4>3, Zenon DEF PairedWith
        <5> QED BY <1>3, <2>2, <3>2, <4>1, <4>2, <4>3, <5>1
      <4>4. CASE s[2] = "data"
        <5>1. pairs'[p].data = s /\ pairs'[p].error = pairs[p].error
          BY <1>7, <3>2, <4>4, Zenon DEF PairedWith
        <5> QED BY <1>3, <2>2, <3>2, <4>1, <4>2, <4>4, <5>1
      <4> QED BY <4>3, <4>4, StreamTypes, Zenon
    <3>3. CASE q = p /\ p \notin DOMAIN pairs
      BY <1>2, <1>3, <1>7, <3>3, Zenon DEF PairedWith
    <3> QED BY <3>1, <3>2, <3>3, Zenon
  <2> QED BY <1>1, <1>4, <2>3, Zenon DEF PairsHold
<1>11. Received'
  <2>1. \A t \in Streams : t # NoStream
    BY StreamTypes, Zenon
  <2>2. \A q \in DOMAIN pairs, t \in Streams : Holds(q, t) => Holds(q, t)'
    BY <1>7, <2>1, Zenon DEF PairedWith, Holds
  <2>3. Holds(p, s)'
    BY <1>7, Zenon DEF PairedWith, Holds
  <2>4. DOMAIN pairs \subseteq DOMAIN pairs'
    BY <1>7, Zenon DEF PairedWith
  <2> QED BY <1>3, <1>7, <2>2, <2>3, <2>4, Zenon DEF PairInv, Received
<1>12. Mapped'
  <2>1. \A q \in DOMAIN pairs : q # p => pairs'[q] = pairs[q]
    BY <1>7, Zenon DEF PairedWith
  <2> QED BY <1>5, <1>7, <2>1 DEF PairedWith, PairInv, Mapped
<1>13. Channels'
  BY <1>1, <1>2, Zenon DEF Channels
<1> QED BY <1>8, <1>9, <1>10, <1>11, <1>12, <1>13, Zenon DEF PairInv

\* httpStreamReceived turns a stream away.
LEMMA RejectStep ==
    ASSUME ForwardConstants, PairInv, NEW s \in Streams, httpStreamReceived(s)
    PROVE  PairInv'
<1>1. /\ delivery[s] = "sent" /\ delivery' = [delivery EXCEPT ![s] = "rejected"]
      /\ UNCHANGED <<client, identifier, pairs, streamPairs, connOpen>>
      /\ forwardFaults' \in 0 .. MaxForwardFaults
  BY DEF httpStreamReceived, NoPairs, ForwardFault, PairInv, ForwardType, ForwardConstants
<1>2. /\ delivery' \in [Streams -> {"none", "sent", "received", "rejected"}]
      /\ delivery'[s] = "rejected" /\ \A t \in Streams : t # s => delivery'[t] = delivery[t]
  BY <1>1, Zenon DEF PairInv, ForwardType
<1>3. ForwardType'
  BY <1>1, <1>2, Zenon DEF PairInv, ForwardType
<1>4. Numbered'
  <2>1. Opened' = Opened
    BY <1>1, Zenon DEF Opened
  <2>2. client # "websocket" => \A t \in Streams : delivery'[t] # "none" <=> t \in Opened
    BY <1>1, <1>2, Zenon DEF PairInv, Numbered
  <2> QED BY <1>1, <2>1, <2>2, Zenon DEF PairInv, Numbered
<1>5. PairsHold'
  <2>1. \A q \in DOMAIN pairs : pairs[q] \in Pair
    BY DEF PairInv, ForwardType
  <2>2. \A q \in DOMAIN pairs : /\ pairs[q].error # NoStream => pairs[q].error \in Streams \ {s}
                                /\ pairs[q].data # NoStream => pairs[q].data \in Streams \ {s}
    BY <1>1, <2>1, Zenon DEF Pair, PairInv, PairsHold
  <2> QED BY <1>1, <1>2, <2>2 DEF PairInv, PairsHold, requestID
<1>6. Received'
  BY <1>1, <1>2, Zenon DEF PairInv, Received, Holds
<1>7. Mapped' /\ Channels'
  BY <1>1, Zenon DEF PairInv, Mapped, Channels
<1> QED BY <1>3, <1>4, <1>5, <1>6, <1>7, Zenon DEF PairInv

-----------------------------------------------------------------------------

(* Sequences *)

\* The length of a sequence is that of its domain.
LEMMA Lengths ==
    ASSUME NEW V, NEW s \in Seq(V)
    PROVE  Len(s) \in Nat /\ s \in [1 .. Len(s) -> V] /\ DOMAIN s = 1 .. Len(s)
OBVIOUS

\* An element of a sequence is one of the values.
LEMMA Element == ASSUME NEW V, NEW s \in Seq(V), NEW i \in 1 .. Len(s) PROVE s[i] \in V
OBVIOUS

\* A function of the first n numbers is a sequence.
LEMMA FunctionOfNumbers == ASSUME NEW V, NEW n \in Nat, NEW s \in [1 .. n -> V] PROVE s \in Seq(V)
OBVIOUS

\* The empty sequence.
LEMMA Empty == ASSUME NEW V PROVE <<>> \in Seq(V) /\ Len(<<>>) = 0
OBVIOUS

\* What is in two sequences, one after the other.
LEMMA Concatenation ==
    ASSUME NEW V, NEW s \in Seq(V), NEW t \in Seq(V)
    PROVE  /\ s \o t \in Seq(V) /\ Len(s \o t) = Len(s) + Len(t)
           /\ \A i \in 1 .. Len(s) + Len(t) :
                 (s \o t)[i] = IF i <= Len(s) THEN s[i] ELSE t[i - Len(s)]
OBVIOUS

\* A sequence with one more element, or with another one in a place.
LEMMA OneAppended ==
    ASSUME NEW V, NEW s \in Seq(V), NEW e \in V
    PROVE  /\ Append(s, e) \in Seq(V) /\ Len(Append(s, e)) = Len(s) + 1
           /\ \A i \in 1 .. Len(s) : Append(s, e)[i] = s[i]
           /\ Append(s, e)[Len(s) + 1] = e
OBVIOUS

\* A sequence with another element in a place.
LEMMA ElementChanged ==
    ASSUME NEW V, NEW s \in Seq(V), NEW i \in 1 .. Len(s), NEW e \in V
    PROVE  /\ [s EXCEPT ![i] = e] \in Seq(V) /\ Len([s EXCEPT ![i] = e]) = Len(s)
           /\ \A j \in 1 .. Len(s) : [s EXCEPT ![i] = e][j] = IF j = i THEN e ELSE s[j]
OBVIOUS

\* The first elements of a sequence, and those after them.
LEMMA FirstPart ==
    ASSUME NEW V, NEW s \in Seq(V), NEW k \in 0 .. Len(s)
    PROVE  /\ SubSeq(s, 1, k) \in Seq(V) /\ Len(SubSeq(s, 1, k)) = k
           /\ \A i \in 1 .. k : SubSeq(s, 1, k)[i] = s[i]
<1>1. SubSeq(s, 1, k) \in Seq(V) /\ Len(SubSeq(s, 1, k)) = k
  OBVIOUS
<1>2. \A i \in 1 .. k : SubSeq(s, 1, k)[i] = s[i]
  OBVIOUS
<1> QED BY <1>1, <1>2, Zenon

\* The elements after the first ones.
LEMMA LastPart ==
    ASSUME NEW V, NEW s \in Seq(V), NEW k \in 0 .. Len(s)
    PROVE  /\ SubSeq(s, k + 1, Len(s)) \in Seq(V) /\ Len(SubSeq(s, k + 1, Len(s))) = Len(s) - k
           /\ \A j \in 1 .. Len(s) - k : SubSeq(s, k + 1, Len(s))[j] = s[k + j]
<1>1. k \in Nat /\ Len(s) \in Nat /\ k <= Len(s)
  OBVIOUS
<1>2. SubSeq(s, k + 1, Len(s)) \in Seq(V) /\ Len(SubSeq(s, k + 1, Len(s))) = Len(s) - k
  BY <1>1
<1>3. \A j \in 1 .. Len(s) - k : SubSeq(s, k + 1, Len(s))[j] = s[k + j]
  BY <1>1
<1> QED BY <1>2, <1>3, Zenon

-----------------------------------------------------------------------------

(* The requests for streams *)


RequestConstants ==
    maxInFlight \in Nat /\ cacheTTL \in Nat /\ MaxRequests \in Nat /\ MaxStreamTime \in Nat

Entries == [token : Tokens, req : Nat]
Requests == [endpoint : Endpoints, fate : Fates, expireTime : Nat]

RequestType ==
    /\ ll \in Seq(Entries) /\ Len(ll) <= maxInFlight
    /\ tokens \in [Tokens -> 0 .. MaxRequests] /\ streamNow \in 0 .. MaxStreamTime
    /\ made \in Seq(Requests) /\ Len(made) <= MaxRequests

(* An entry of the list has a token that leads to it, and was not handed out; entries differ in
   their tokens and requests. *)
Listed ==
    /\ \A i \in 1 .. Len(ll) : /\ ll[i].req \in 1 .. Len(made) /\ tokens[ll[i].token] = ll[i].req
                               /\ made[ll[i].req].fate = "cached"
    /\ \A i, j \in 1 .. Len(ll) : i # j => ll[i].token # ll[j].token /\ ll[i].req # ll[j].req

(* A token in use is that of an entry. *)
TokensListed == \A t \in Tokens : tokens[t] # 0 => \E i \in 1 .. Len(ll) : ll[i].token = t

CachedListed ==
    \A r \in 1 .. Len(made) :
        made[r].fate = "cached" /\ ~Expired(r) => \E i \in 1 .. Len(ll) : ll[i].req = r

RequestInv == RequestType /\ Listed /\ TokensListed /\ CachedListed

(* What gc leaves. *)
LEMMA Collected ==
    ASSUME RequestConstants, RequestInv, NEW n \in 0 .. Len(ll), gc(n)
    PROVE  LET kept == SubSeq(ll, 1, n)
           IN  /\ kept \in Seq(Entries) /\ Len(kept) = n /\ DOMAIN kept = 1 .. n
               /\ \A i \in 1 .. n : kept[i] = ll[i]
               /\ gcTokens(kept) \in [Tokens -> 0 .. MaxRequests]
               /\ \A i \in 1 .. n : gcTokens(kept)[ll[i].token] = tokens[ll[i].token]
               /\ \A t \in Tokens : gcTokens(kept)[t] # 0 => \E i \in 1 .. n : ll[i].token = t
<1> DEFINE kept == SubSeq(ll, 1, n)
<1>0. Len(ll) \in Nat /\ DOMAIN ll = 1 .. Len(ll) /\ \A i \in 1 .. Len(ll) : ll[i] \in Entries
  BY Lengths, Element, Zenon DEF RequestInv, RequestType
<1>1. kept \in Seq(Entries) /\ Len(kept) = n /\ \A i \in 1 .. n : kept[i] = ll[i]
  BY FirstPart, Zenon DEF RequestInv, RequestType
<1>2. DOMAIN kept = 1 .. n
  BY <1>1, Lengths, Zenon
<1>3. \A t \in Tokens : gcTokens(kept)[t] = IF \E i \in 1 .. n : ll[i].token = t THEN tokens[t] ELSE 0
  BY <1>1, <1>2, Zenon DEF gcTokens
<1>4. gcTokens(kept) \in [Tokens -> 0 .. MaxRequests]
  <2>1. 0 \in 0 .. MaxRequests
    BY DEF RequestConstants
  <2> QED BY <2>1, Zenon DEF gcTokens, RequestInv, RequestType
<1>5. \A i \in 1 .. n : ll[i].token \in Tokens
  BY <1>0 DEF Entries
<1> HIDE DEF kept
<1> QED BY <1>1, <1>2, <1>3, <1>4, <1>5, Zenon DEF kept

(* A new request is at the end of the requests, whatever becomes of it. *)
LEMMA MakesRequest ==
    ASSUME RequestConstants, RequestInv, NEW e \in Endpoints, NEW fate \in {"cached", "refused"},
           made' = Append(made, [endpoint |-> e, fate |-> fate, expireTime |-> streamNow + cacheTTL])
    PROVE  /\ made' \in Seq(Requests) /\ Len(made') = Len(made) + 1 /\ Len(made) \in Nat
           /\ \A r \in 1 .. Len(made) : made'[r] = made[r]
           /\ made'[Len(made) + 1].fate = fate
<1> DEFINE new == [endpoint |-> e, fate |-> fate, expireTime |-> streamNow + cacheTTL]
<1>1. new \in Requests
  BY DEF Requests, Fates, RequestConstants, RequestInv, RequestType
<1>2. new.fate = fate
  BY Zenon
<1>3. made' = Append(made, new) /\ made \in Seq(Requests) /\ Len(made) \in Nat
  BY Lengths, Zenon DEF RequestInv, RequestType
<1> HIDE DEF new
<1>4. /\ made' \in Seq(Requests) /\ Len(made') = Len(made) + 1 /\ made'[Len(made) + 1] = new
      /\ \A r \in 1 .. Len(made) : made'[r] = made[r]
  BY <1>1, <1>3, OneAppended
<1> QED BY <1>2, <1>3, <1>4, Zenon

(* A request that is refused leaves what gc keeps. *)
LEMMA RefusedStep ==
    ASSUME RequestConstants, RequestInv, Len(made) < MaxRequests, NEW e \in Endpoints,
           NEW n \in 0 .. Len(ll), gc(n), n <= maxInFlight, streamNow' = streamNow,
           ll' = SubSeq(ll, 1, n), tokens' = gcTokens(ll'),
           made' = Append(made, [endpoint |-> e, fate |-> "refused", expireTime |-> streamNow + cacheTTL])
    PROVE  RequestInv'
<1>1. /\ made' \in Seq(Requests) /\ Len(made') = Len(made) + 1 /\ Len(made) \in Nat
      /\ \A r \in 1 .. Len(made) : made'[r] = made[r]
      /\ made'[Len(made) + 1].fate = "refused"
  BY MakesRequest, Zenon
<1>2. /\ ll' \in Seq(Entries) /\ Len(ll') = n
      /\ \A i \in 1 .. n : ll'[i] = ll[i]
      /\ tokens' \in [Tokens -> 0 .. MaxRequests]
      /\ \A i \in 1 .. n : tokens'[ll[i].token] = tokens[ll[i].token]
      /\ \A t \in Tokens : tokens'[t] # 0 => \E i \in 1 .. n : ll[i].token = t
  BY Collected, Zenon
<1>3. Len(ll) \in Nat /\ \A i \in 1 .. n : i \in 1 .. Len(ll)
  BY Lengths DEF RequestInv, RequestType
<1>4. RequestType'
  BY <1>1, <1>2 DEF RequestInv, RequestType, RequestConstants
<1>5. Listed'
  BY <1>1, <1>2, <1>3 DEF RequestInv, Listed
<1>6. TokensListed'
  BY <1>2 DEF TokensListed
<1>7. CachedListed'
  <2> SUFFICES ASSUME NEW r \in 1 .. Len(made'), made'[r].fate = "cached", ~Expired(r)'
               PROVE  \E i \in 1 .. n : ll'[i].req = r
    BY <1>2, Zenon DEF CachedListed
  <2>1. r \in 1 .. Len(made) /\ made'[r] = made[r]
    BY <1>1
  <2>2. ~Expired(r)
    BY <2>1, Zenon DEF Expired
  <2>3. PICK i \in 1 .. Len(ll) : ll[i].req = r
    BY <2>1, <2>2, Zenon DEF RequestInv, CachedListed
  <2>4. i \in 1 .. n
    BY <1>3, <2>2, <2>3 DEF gc
  <2> QED BY <1>2, <2>3, <2>4
<1> QED BY <1>4, <1>5, <1>6, <1>7, Zenon DEF RequestInv

\* A number up to n is one up to n + 1.
LEMMA OneMore == ASSUME NEW n \in Nat, NEW q \in 1 .. n PROVE q \in 1 .. n + 1
  OBVIOUS

(* A function that is changed at one place keeps its type. *)
LEMMA ExceptType ==
    ASSUME NEW S, NEW T, NEW f \in [S -> T], NEW x, NEW v \in T
    PROVE  [f EXCEPT ![x] = v] \in [S -> T]
  BY Zenon

(* A request that is cached is the first entry, under a token that is not in use. *)
LEMMA CachedStep ==
    ASSUME RequestConstants, RequestInv, Len(made) < MaxRequests, NEW e \in Endpoints,
           NEW n \in 0 .. Len(ll), gc(n), n < maxInFlight, streamNow' = streamNow,
           NEW t \in Tokens, gcTokens(SubSeq(ll, 1, n))[t] = 0,
           ll' = <<[token |-> t, req |-> Len(made) + 1]>> \o SubSeq(ll, 1, n),
           tokens' = [gcTokens(SubSeq(ll, 1, n)) EXCEPT ![t] = Len(made) + 1],
           made' = Append(made, [endpoint |-> e, fate |-> "cached", expireTime |-> streamNow + cacheTTL])
    PROVE  RequestInv'
<1> DEFINE kept == SubSeq(ll, 1, n)
           old == gcTokens(kept)
           new == [token |-> t, req |-> Len(made) + 1]
<1>1. /\ made' \in Seq(Requests) /\ Len(made') = Len(made) + 1 /\ Len(made) \in Nat
      /\ \A r \in 1 .. Len(made) : made'[r] = made[r]
      /\ made'[Len(made) + 1].fate = "cached"
  BY MakesRequest, Zenon
<1>2. /\ kept \in Seq(Entries) /\ Len(kept) = n
      /\ \A i \in 1 .. n : kept[i] = ll[i]
      /\ old \in [Tokens -> 0 .. MaxRequests]
      /\ \A i \in 1 .. n : old[ll[i].token] = tokens[ll[i].token]
      /\ \A u \in Tokens : old[u] # 0 => \E i \in 1 .. n : ll[i].token = u
  BY Collected, Zenon
<1>3. Len(ll) \in Nat /\ \A i \in 1 .. n : i \in 1 .. Len(ll) /\ ll[i].token \in Tokens
  <2>1. ll \in Seq(Entries) /\ Len(ll) \in Nat
    BY Lengths, Zenon DEF RequestInv, RequestType
  <2>2. \A i \in 1 .. n : i \in 1 .. Len(ll)
    BY <2>1
  <2>3. \A i \in 1 .. n : ll[i] \in Entries
    BY <2>1, <2>2, Element, Zenon
  <2> QED BY <2>1, <2>2, <2>3, Zenon DEF Entries
<1>4. ll' = <<new>> \o kept /\ tokens' = [old EXCEPT ![t] = Len(made) + 1] /\ old[t] = 0
  BY Zenon
<1>5. new \in Entries /\ new.token = t /\ new.req = Len(made) + 1
  BY <1>1 DEF Entries
<1> HIDE DEF kept, old, new
<1>6. /\ ll' \in Seq(Entries) /\ Len(ll') = n + 1 /\ ll'[1] = new
      /\ \A i \in 2 .. n + 1 : ll'[i] = ll[i - 1] /\ i - 1 \in 1 .. n
  <2>1. <<new>> \in Seq(Entries) /\ Len(<<new>>) = 1 /\ <<new>>[1] = new
    BY <1>5
  <2>2. /\ ll' \in Seq(Entries) /\ Len(ll') = 1 + n
        /\ \A i \in 1 .. 1 + n : ll'[i] = IF i <= 1 THEN <<new>>[i] ELSE kept[i - 1]
    BY <1>2, <1>4, <2>1, Concatenation
  <2> QED BY <1>2, <2>1, <2>2, n \in Nat
<1>7. \A i \in 1 .. n : /\ ll[i].token # t /\ tokens'[ll[i].token] = ll[i].req
                        /\ ll[i].req \in 1 .. Len(made) /\ made[ll[i].req].fate = "cached"
  <2> TAKE i \in 1 .. n
  <2>1. /\ ll[i].req \in 1 .. Len(made) /\ made[ll[i].req].fate = "cached"
        /\ old[ll[i].token] = ll[i].req /\ ll[i].token \in Tokens
    BY <1>2, <1>3, Zenon DEF RequestInv, Listed
  <2>2. ll[i].token # t
    BY <1>1, <1>4, <2>1, SMTT(60)
  <2>3. tokens'[ll[i].token] = old[ll[i].token]
    BY <1>2, <1>4, <2>1, <2>2, Zenon
  <2> QED BY <2>1, <2>2, <2>3, Zenon
<1>8. RequestType'
  <2>1. Len(made) + 1 \in 0 .. MaxRequests
    BY <1>1 DEF RequestConstants
  <2>2. old \in [Tokens -> 0 .. MaxRequests]
    BY <1>2, Zenon
  <2>3. [old EXCEPT ![t] = Len(made) + 1] \in [Tokens -> 0 .. MaxRequests]
    BY <2>1, <2>2, ExceptType, Zenon
  <2>4. tokens' \in [Tokens -> 0 .. MaxRequests]
    BY <1>4, <2>3, Zenon
  <2> QED BY <1>1, <1>6, <2>1, <2>4 DEF RequestInv, RequestType, RequestConstants
<1>9. Listed'
  <2>1. tokens'[t] = Len(made) + 1
    BY <1>2, <1>4, Zenon
  <2>2. \A i \in 1 .. Len(ll') : i = 1 \/ i \in 2 .. n + 1
    BY <1>6, n \in Nat
  <2>3. ASSUME NEW i \in 1 .. Len(ll')
        PROVE  /\ ll'[i].req \in 1 .. Len(made') /\ tokens'[ll'[i].token] = ll'[i].req
               /\ made'[ll'[i].req].fate = "cached"
    <3>1. CASE i = 1
      BY <1>1, <1>5, <1>6, <2>1, <3>1
    <3>2. CASE i \in 2 .. n + 1
      <4>1. i - 1 \in 1 .. n /\ ll'[i] = ll[i - 1]
        BY <1>6, <3>2, Zenon
      <4>2. /\ ll'[i].req \in 1 .. Len(made) /\ tokens'[ll'[i].token] = ll'[i].req
            /\ made[ll'[i].req].fate = "cached"
        BY <1>7, <4>1, Zenon
      <4>3. ll'[i].req \in 1 .. Len(made')
        BY <1>1, <4>2, OneMore, Zenon
      <4> QED BY <1>1, <4>2, <4>3, Zenon
    <3> QED BY <2>2, <3>1, <3>2, Zenon
  <2>4. \A i \in 2 .. n + 1 : ll'[i].token # t /\ ll'[i].req # Len(made) + 1
    BY <1>1, <1>6, <1>7
  <2>5. \A i, j \in 2 .. n + 1 : i # j => ll'[i].token # ll'[j].token /\ ll'[i].req # ll'[j].req
    <3>1. \A i, j \in 1 .. n : i # j => ll[i].token # ll[j].token /\ ll[i].req # ll[j].req
      BY <1>3, Zenon DEF RequestInv, Listed
    <3>2. \A i, j \in 2 .. n + 1 : i # j => i - 1 # j - 1
      OBVIOUS
    <3> QED BY <1>6, <3>1, <3>2, SMTT(60)
  <2>6. \A i, j \in 1 .. Len(ll') : i # j => ll'[i].token # ll'[j].token /\ ll'[i].req # ll'[j].req
    <3> TAKE i, j \in 1 .. Len(ll')
    <3>1. CASE i = 1
      BY <1>5, <1>6, <2>2, <2>4, <3>1, SMTT(60)
    <3>2. CASE j = 1
      BY <1>5, <1>6, <2>2, <2>4, <3>2, SMTT(60)
    <3>3. CASE i # 1 /\ j # 1
      BY <2>2, <2>5, <3>3, SMTT(60)
    <3> QED BY <3>1, <3>2, <3>3, Zenon
  <2> QED BY <2>3, <2>6, Zenon DEF Listed
<1>10. \A i \in 1 .. n : i + 1 \in 1 .. Len(ll') /\ ll'[i + 1] = ll[i]
  <2> TAKE i \in 1 .. n
  <2>1. i + 1 \in 2 .. n + 1 /\ i + 1 \in 1 .. n + 1 /\ (i + 1) - 1 = i
    OBVIOUS
  <2> QED BY <1>6, <2>1, Zenon
<1>11. 1 \in 1 .. Len(ll') /\ ll'[1].token = t /\ ll'[1].req = Len(made) + 1
  BY <1>5, <1>6
<1>12. TokensListed'
  BY <1>2, <1>4, <1>10, <1>11 DEF TokensListed
<1>13. CachedListed'
  <2> SUFFICES ASSUME NEW r \in 1 .. Len(made'), made'[r].fate = "cached", ~Expired(r)'
               PROVE  \E i \in 1 .. Len(ll') : ll'[i].req = r
    BY Zenon DEF CachedListed
  <2>1. CASE r = Len(made) + 1
    BY <1>11, <2>1, Zenon
  <2>2. CASE r # Len(made) + 1
    <3>1. r \in 1 .. Len(made) /\ made'[r] = made[r]
      BY <1>1, <2>2
    <3>2. ~Expired(r)
      BY <3>1, Zenon DEF Expired
    <3>3. PICK i \in 1 .. Len(ll) : ll[i].req = r
      BY <3>1, <3>2, Zenon DEF RequestInv, CachedListed
    <3>4. i \in 1 .. n
      BY <1>3, <3>2, <3>3 DEF gc
    <3> QED BY <1>10, <3>3, <3>4, Zenon
  <2> QED BY <2>1, <2>2, Zenon
<1> QED BY <1>8, <1>9, <1>12, <1>13 DEF RequestInv

(* A sequence without its i-th element. *)
LEMMA Without ==
    ASSUME NEW S, NEW s \in Seq(S), NEW i \in 1 .. Len(s)
    PROVE  LET u == SubSeq(s, 1, i - 1) \o SubSeq(s, i + 1, Len(s))
           IN  /\ u \in Seq(S) /\ Len(u) = Len(s) - 1
               /\ \A j \in 1 .. Len(s) - 1 : u[j] = s[IF j < i THEN j ELSE j + 1]
<1> DEFINE a == SubSeq(s, 1, i - 1)
           b == SubSeq(s, i + 1, Len(s))
<1>1. Len(s) \in Nat /\ i \in Nat /\ \A j \in 1 .. Len(s) : s[j] \in S
  BY Lengths, Element
<1>2. a \in Seq(S) /\ Len(a) = i - 1 /\ \A j \in 1 .. i - 1 : a[j] = s[j]
  <2>1. i - 1 \in 0 .. Len(s)
    BY <1>1
  <2> QED BY <2>1, FirstPart, Zenon
<1>3. b \in Seq(S) /\ Len(b) = Len(s) - i /\ \A j \in 1 .. Len(s) - i : b[j] = s[i + j]
  <2>1. i \in 0 .. Len(s)
    BY <1>1
  <2> QED BY <2>1, LastPart, Zenon
<1> HIDE DEF a, b
<1>4. /\ a \o b \in Seq(S) /\ Len(a \o b) = Len(a) + Len(b)
      /\ \A j \in 1 .. Len(a) + Len(b) : (a \o b)[j] = IF j <= Len(a) THEN a[j] ELSE b[j - Len(a)]
  BY <1>2, <1>3, Concatenation, Zenon
<1>5. Len(a) + Len(b) = Len(s) - 1
  BY <1>1, <1>2, <1>3
<1>6. \A j \in 1 .. Len(s) - 1 : (a \o b)[j] = s[IF j < i THEN j ELSE j + 1]
  <2> SUFFICES ASSUME NEW j \in 1 .. Len(s) - 1 PROVE (a \o b)[j] = s[IF j < i THEN j ELSE j + 1]
    BY Zenon
  <2>1. CASE j < i
    BY <1>1, <1>2, <1>4, <1>5, <2>1
  <2>2. CASE ~(j < i)
    <3>1. j - Len(a) \in 1 .. Len(s) - i /\ i + (j - Len(a)) = j + 1 /\ ~(j <= Len(a))
      BY <1>1, <1>2, <2>2
    <3> QED BY <1>3, <1>4, <1>5, <2>2, <3>1, Zenon
  <2> QED BY <2>1, <2>2, Zenon
<1> QED BY <1>4, <1>5, <1>6, Zenon DEF a, b

(* A request that is fetched is out of the list, and its fate is known. *)
LEMMA ConsumeStep ==
    ASSUME RequestConstants, RequestInv, NEW t \in Tokens, NEW e, Consume(t, e), streamNow' = streamNow
    PROVE  RequestInv'
<1> DEFINE r == tokens[t]
           fate == IF Expired(r) \/ made[r].endpoint # e THEN "dropped" ELSE "served"
<1>1. PICK i \in DOMAIN ll : /\ ll[i].req = r
                             /\ ll' = SubSeq(ll, 1, i - 1) \o SubSeq(ll, i + 1, Len(ll))
  BY Zenon DEF Consume
<1>2. /\ r # 0 /\ tokens' = [tokens EXCEPT ![t] = 0]
      /\ made' = [made EXCEPT ![r] = [made[r] EXCEPT !.fate = fate]]
  BY Zenon DEF Consume
<1>3. /\ Len(ll) \in Nat /\ DOMAIN ll = 1 .. Len(ll) /\ Len(made) \in Nat
      /\ \A j \in 1 .. Len(ll) : ll[j].token \in Tokens
  <2>1. ll \in Seq(Entries) /\ made \in Seq(Requests)
    BY Zenon DEF RequestInv, RequestType
  <2>2. \A j \in 1 .. Len(ll) : ll[j] \in Entries
    BY <2>1, Element, Zenon
  <2> QED BY <2>1, <2>2, Lengths, Zenon DEF Entries
<1>4. ll[i].token = t /\ i \in 1 .. Len(ll) /\ r \in 1 .. Len(made)
  <2>1. PICK j \in 1 .. Len(ll) : ll[j].token = t
    BY <1>2, Zenon DEF RequestInv, TokensListed
  <2>2. ll[j].req = r /\ ll[j].req \in 1 .. Len(made)
    BY <2>1, Zenon DEF RequestInv, Listed
  <2>3. i \in 1 .. Len(ll) /\ i = j
    BY <1>1, <1>3, <2>2, Zenon DEF RequestInv, Listed
  <2> QED BY <2>1, <2>2, <2>3
<1>5. /\ ll' \in Seq(Entries) /\ Len(ll') = Len(ll) - 1
      /\ \A j \in 1 .. Len(ll) - 1 : ll'[j] = ll[IF j < i THEN j ELSE j + 1]
  BY <1>1, <1>4, Without, Zenon DEF RequestInv, RequestType
<1>6. /\ made' \in Seq(Requests) /\ Len(made') = Len(made)
      /\ \A q \in 1 .. Len(made) : q # r => made'[q] = made[q]
      /\ made'[r].fate \in {"dropped", "served"}
  <2>1. made \in Seq(Requests) /\ made[r] \in Requests
    BY <1>4, Element, Zenon DEF RequestInv, RequestType
  <2>2. [made[r] EXCEPT !.fate = fate] \in Requests
    BY <2>1, Zenon DEF Requests, Fates
  <2>3. [made[r] EXCEPT !.fate = fate].fate \in {"dropped", "served"}
    BY <2>1, Zenon DEF Requests
  <2> HIDE DEF r, fate
  <2>4. /\ made' \in Seq(Requests) /\ Len(made') = Len(made)
        /\ \A q \in 1 .. Len(made) : made'[q] = IF q = r THEN [made[r] EXCEPT !.fate = fate] ELSE made[q]
    BY <1>2, <1>4, <2>1, <2>2, ElementChanged
  <2> QED BY <1>4, <2>3, <2>4, Zenon
<1> HIDE DEF r, fate
<1> DEFINE at(j) == IF j < i THEN j ELSE j + 1
<1>7. \A j \in 1 .. Len(ll') : at(j) \in 1 .. Len(ll) /\ at(j) # i /\ ll'[j] = ll[at(j)]
  <2> TAKE j \in 1 .. Len(ll')
  <2>1. j \in 1 .. Len(ll) - 1 /\ Len(ll) \in Nat /\ i \in 1 .. Len(ll)
    BY <1>3, <1>4, <1>5, Zenon
  <2>2. at(j) \in 1 .. Len(ll) /\ at(j) # i
    BY <2>1
  <2>3. ll'[j] = ll[at(j)]
    BY <1>5, <2>1, Zenon
  <2> QED BY <2>2, <2>3, Zenon
<1>8. \A j, k \in 1 .. Len(ll') : j # k => at(j) # at(k)
  <2> TAKE j, k \in 1 .. Len(ll')
  <2>1. j \in Nat /\ k \in Nat /\ i \in Nat
    BY <1>3, <1>4, <1>5
  <2> QED BY <2>1
<1>9. \A j \in 1 .. Len(ll) : j # i => \E k \in 1 .. Len(ll') : at(k) = j
  <2> TAKE j \in 1 .. Len(ll)
  <2> HAVE j # i
  <2>1. CASE j < i
    BY <1>3, <1>4, <1>5, <2>1
  <2>2. CASE j > i
    <3>1. j - 1 \in 1 .. Len(ll') /\ at(j - 1) = j
      BY <1>3, <1>4, <1>5, <2>2
    <3> QED BY <3>1, Zenon
  <2> QED BY <1>3, <1>4, <2>1, <2>2
<1> HIDE DEF at
<1>10. RequestType'
  <2>1. tokens' \in [Tokens -> 0 .. MaxRequests]
    BY <1>2 DEF RequestInv, RequestType, RequestConstants
  <2> QED BY <1>3, <1>5, <1>6, <2>1, SMTT(60) DEF RequestInv, RequestType, RequestConstants
<1>11. \A j \in 1 .. Len(ll) : j # i =>
           /\ ll[j].req # r /\ ll[j].req \in 1 .. Len(made') /\ tokens'[ll[j].token] = ll[j].req
           /\ made'[ll[j].req].fate = "cached"
  <2> TAKE j \in 1 .. Len(ll)
  <2> HAVE j # i
  <2>1. ll[j].token # t /\ ll[j].req # r
    BY <1>1, <1>4, Zenon DEF RequestInv, Listed
  <2>2. tokens'[ll[j].token] = tokens[ll[j].token]
    BY <1>2, <1>3, <2>1, Zenon DEF RequestInv, RequestType
  <2> QED BY <1>6, <2>1, <2>2, Zenon DEF RequestInv, Listed
<1>12. Listed'
  <2>1. \A j \in 1 .. Len(ll') : /\ ll'[j].req \in 1 .. Len(made') /\ tokens'[ll'[j].token] = ll'[j].req
                                 /\ made'[ll'[j].req].fate = "cached"
    BY <1>7, <1>11, Zenon
  <2>2. \A j, k \in 1 .. Len(ll') : j # k => ll'[j].token # ll'[k].token /\ ll'[j].req # ll'[k].req
    <3> SUFFICES ASSUME NEW j \in 1 .. Len(ll'), NEW k \in 1 .. Len(ll'), j # k
                 PROVE  ll'[j].token # ll'[k].token /\ ll'[j].req # ll'[k].req
      BY Zenon
    <3>1. /\ at(j) \in 1 .. Len(ll) /\ ll'[j] = ll[at(j)] /\ at(k) \in 1 .. Len(ll) /\ ll'[k] = ll[at(k)]
          /\ at(j) # at(k)
      BY <1>7, <1>8, Zenon
    <3> QED BY <3>1, ZenonT(60) DEF RequestInv, Listed
  <2> QED BY <2>1, <2>2, Zenon DEF Listed
<1>13. TokensListed'
  <2> SUFFICES ASSUME NEW u \in Tokens, tokens'[u] # 0 PROVE \E k \in 1 .. Len(ll') : ll'[k].token = u
    BY Zenon DEF TokensListed
  <2>1. u # t /\ tokens[u] # 0
    BY <1>2, Zenon DEF RequestInv, RequestType
  <2>2. PICK j \in 1 .. Len(ll) : ll[j].token = u
    BY <2>1, Zenon DEF RequestInv, TokensListed
  <2>3. j # i
    BY <1>4, <2>1, <2>2, Zenon
  <2>4. PICK k \in 1 .. Len(ll') : at(k) = j
    BY <1>9, <2>3, Zenon
  <2> QED BY <1>7, <2>2, <2>4, Zenon
<1>14. CachedListed'
  <2> SUFFICES ASSUME NEW q \in 1 .. Len(made'), made'[q].fate = "cached", ~Expired(q)'
               PROVE  \E k \in 1 .. Len(ll') : ll'[k].req = q
    BY Zenon DEF CachedListed
  <2>1. q \in 1 .. Len(made) /\ q # r /\ made'[q] = made[q]
    BY <1>4, <1>6, Zenon
  <2>2. ~Expired(q)
    BY <2>1, Zenon DEF Expired
  <2>3. PICK j \in 1 .. Len(ll) : ll[j].req = q
    BY <2>1, <2>2 DEF RequestInv, CachedListed
  <2>4. PICK k \in 1 .. Len(ll') : at(k) = j
    BY <1>1, <1>9, <2>1, <2>3, Zenon
  <2> QED BY <1>7, <2>3, <2>4, Zenon
<1> QED BY <1>10, <1>12, <1>13, <1>14 DEF RequestInv

\* Time passing expires requests, and keeps the invariant.
LEMMA StreamTickStep ==
    ASSUME RequestConstants, RequestInv, StreamTick
    PROVE  RequestInv'
<1>1. /\ ll' = ll /\ tokens' = tokens /\ made' = made /\ streamNow' = streamNow + 1
      /\ streamNow' \in 0 .. MaxStreamTime /\ streamNow \in Nat
  BY DEF StreamTick, RequestInv, RequestType, RequestConstants
<1>2. \A r \in 1 .. Len(made) : ~Expired(r)' => ~Expired(r)
  <2>1. \A r \in 1 .. Len(made) : made[r].expireTime \in Nat
    <3>1. \A r \in 1 .. Len(made) : made[r] \in Requests
      BY Element, Zenon DEF RequestInv, RequestType
    <3> QED BY <3>1, Zenon DEF Requests
  <2> QED BY <1>1, <2>1 DEF Expired
<1>3. RequestType' /\ Listed' /\ TokensListed'
  BY <1>1 DEF RequestInv, RequestType, Listed, TokensListed
<1>4. CachedListed'
  BY <1>1, <1>2, Zenon DEF RequestInv, CachedListed
<1> QED BY <1>3, <1>4, Zenon DEF RequestInv

(* A request whose URL was handed out can be fetched until it expires or is fetched, whatever
   other requests come and go, and is served at most once (requestCache: Insert, Consume, gc). *)
THEOREM RequestsAreKept ==
    ASSUME RequestConstants
    PROVE  StreamSpec => []RequestsKept
<1>1. StreamInit => RequestInv
  <2> SUFFICES ASSUME StreamInit PROVE RequestInv
    BY Zenon
  <2>1. ll = <<>> /\ made = <<>> /\ Len(<<>>) = 0 /\ <<>> \in Seq(Entries) /\ <<>> \in Seq(Requests)
    BY Empty, Zenon DEF StreamInit
  <2>2. tokens \in [Tokens -> 0 .. MaxRequests] /\ \A t \in Tokens : tokens[t] = 0
    BY DEF StreamInit, RequestConstants
  <2>3. streamNow \in 0 .. MaxStreamTime
    BY DEF StreamInit, RequestConstants
  <2> QED BY <2>1, <2>2, <2>3
          DEF RequestInv, RequestType, Listed, TokensListed, CachedListed, RequestConstants
<1>2. RequestInv /\ [StreamNext]_(streamVars) => RequestInv'
  <2> SUFFICES ASSUME RequestInv, [StreamNext]_(streamVars) PROVE RequestInv'
    BY Zenon
  <2>1. CASE UNCHANGED streamVars
    <3>1. ll' = ll /\ tokens' = tokens /\ streamNow' = streamNow /\ made' = made
      BY <2>1, Zenon DEF streamVars
    <3>2. CachedListed'
      BY <3>1, Zenon DEF RequestInv, CachedListed, Expired
    <3> QED BY <3>1, <3>2 DEF RequestInv, RequestType, Listed, TokensListed
  <2>2. CASE StreamTick
    BY <2>2, StreamTickStep, Zenon
  <2>3. ASSUME NEW e \in Endpoints, GetURL(e) PROVE RequestInv'
    <3>1. Len(made) < MaxRequests /\ streamNow' = streamNow /\ Insert(e)
      BY <2>3, Zenon DEF GetURL
    <3>2. PICK n \in 0 .. Len(ll) :
              /\ gc(n)
              /\ \/ /\ n = maxInFlight \/ (n < maxInFlight /\ n > 0)
                    /\ ll' = SubSeq(ll, 1, n) /\ tokens' = gcTokens(SubSeq(ll, 1, n))
                    /\ made' = Append(made, [endpoint |-> e, fate |-> "refused",
                                             expireTime |-> streamNow + cacheTTL])
                 \/ \E t \in Tokens :
                      /\ n < maxInFlight /\ gcTokens(SubSeq(ll, 1, n))[t] = 0
                      /\ ll' = <<[token |-> t, req |-> Len(made) + 1]>> \o SubSeq(ll, 1, n)
                      /\ tokens' = [gcTokens(SubSeq(ll, 1, n)) EXCEPT ![t] = Len(made) + 1]
                      /\ made' = Append(made, [endpoint |-> e, fate |-> "cached",
                                               expireTime |-> streamNow + cacheTTL])
      BY <3>1, Zenon DEF Insert
    <3>3. CASE /\ n = maxInFlight \/ (n < maxInFlight /\ n > 0)
               /\ ll' = SubSeq(ll, 1, n) /\ tokens' = gcTokens(SubSeq(ll, 1, n))
               /\ made' = Append(made, [endpoint |-> e, fate |-> "refused",
                                        expireTime |-> streamNow + cacheTTL])
      <4>1. n <= maxInFlight
        BY <3>3 DEF RequestConstants
      <4>2. tokens' = gcTokens(ll')
        BY <3>3, Zenon
      <4> QED BY <3>1, <3>2, <3>3, <4>1, <4>2, RefusedStep, Zenon
    <3>4. ASSUME NEW t \in Tokens,
                 n < maxInFlight, gcTokens(SubSeq(ll, 1, n))[t] = 0,
                 ll' = <<[token |-> t, req |-> Len(made) + 1]>> \o SubSeq(ll, 1, n),
                 tokens' = [gcTokens(SubSeq(ll, 1, n)) EXCEPT ![t] = Len(made) + 1],
                 made' = Append(made, [endpoint |-> e, fate |-> "cached",
                                       expireTime |-> streamNow + cacheTTL])
          PROVE  RequestInv'
      BY <3>1, <3>2, <3>4, CachedStep, Zenon
    <3> QED BY <3>2, <3>3, <3>4, Zenon
  <2>4. ASSUME NEW t \in Tokens, NEW e, ServeURL(t, e) PROVE RequestInv'
    BY <2>4, ConsumeStep, Zenon DEF ServeURL
  <2> QED BY <2>1, <2>2, <2>3, <2>4 DEF StreamNext
<1>3. RequestInv => RequestsKept
  <2> SUFFICES ASSUME RequestInv PROVE RequestsKept
    BY Zenon
  <2>1. /\ DOMAIN ll = 1 .. Len(ll) /\ DOMAIN made = 1 .. Len(made) /\ Len(ll) \in Nat
        /\ \A i \in 1 .. Len(ll) : ll[i] \in Entries
        /\ \A r \in 1 .. Len(made) : made[r] \in Requests
    BY Lengths, Element, Zenon DEF RequestInv, RequestType
  <2>2. StreamTypeOK
    BY <2>1, Zenon DEF StreamTypeOK, RequestInv, RequestType, Entries, Requests, Listed
  <2>3. ASSUME NEW r \in DOMAIN made, made[r].fate = "cached", ~Expired(r)
        PROVE  \E i \in DOMAIN ll : ll[i].req = r /\ tokens[ll[i].token] = r
    <3>1. PICK i \in 1 .. Len(ll) : ll[i].req = r
      BY <2>1, <2>3, Zenon DEF RequestInv, CachedListed
    <3> QED BY <2>1, <3>1, Zenon DEF RequestInv, Listed
  <2>4. \A i, j \in 1 .. Len(ll) : i < j => i # j
    BY <2>1
  <2>5. ASSUME NEW i \in DOMAIN ll
        PROVE  /\ made[ll[i].req].fate = "cached"
               /\ \A j \in DOMAIN ll : i < j => ll[i].token # ll[j].token
    BY <2>1, <2>4, Zenon DEF RequestInv, Listed
  <2> QED BY <2>2, <2>3, <2>5, Zenon DEF RequestsKept
<1> QED BY <1>1, <1>2, <1>3, PTL DEF StreamSpec

-----------------------------------------------------------------------------

(* The streams of a port forward, once more: the client numbers them, by counting *)

INSTANCE FiniteSetTheorems

\* The client opens a stream, with the next odd number.
LEMMA OpenStep ==
    ASSUME ForwardConstants, PairInv, NEW s \in Streams, OpenStream(s)
    PROVE  PairInv'
<1>1. /\ delivery[s] = "none" /\ delivery' = [delivery EXCEPT ![s] = "sent"]
      /\ identifier' = [identifier EXCEPT ![s] = 2 * Cardinality(Opened) + 1]
      /\ UNCHANGED <<client, pairs, streamPairs, connOpen, forwardFaults>>
  BY Zenon DEF OpenStream, NoPairs, NoForwardFault, Opened
<1>2. IsFiniteSet(Opened)
  <2>1. IsFiniteSet(Streams)
    <3>1. IsFiniteSet(Accepted)
      BY FS_Interval DEF ForwardConstants
    <3>2. IsFiniteSet(Types)
      <4>1. Types = {"error"} \cup {"data"}
        BY Zenon DEF Types
      <4>2. IsFiniteSet({"error"}) /\ IsFiniteSet({"data"})
        BY FS_Singleton, Zenon
      <4> QED BY <4>1, <4>2, FS_Union, Zenon
    <3> QED BY <3>1, <3>2, FS_Product, Zenon DEF Streams
  <2>2. Opened \in SUBSET Streams
    BY Zenon DEF Opened
  <2> QED BY <2>1, <2>2, FS_Subset, Zenon
<1>3. client # "websocket" /\ Cardinality(Opened) \in Nat
  BY <1>1, <1>2, FS_CardinalityType, Zenon DEF PairInv, Channels
<1> DEFINE n == 2 * Cardinality(Opened) + 1
<1>4. n \in Nat /\ n # 0
  BY <1>3
<1>5. /\ identifier' \in [Streams -> Nat] /\ identifier'[s] = n
      /\ \A t \in Streams : t # s => identifier'[t] = identifier[t]
  BY <1>1, <1>4, Zenon DEF PairInv, ForwardType
<1>6. /\ delivery' \in [Streams -> {"none", "sent", "received", "rejected"}]
      /\ delivery'[s] = "sent" /\ \A t \in Streams : t # s => delivery'[t] = delivery[t]
  BY <1>1, Zenon DEF PairInv, ForwardType
<1>7. Opened' = Opened \cup {s}
  BY <1>4, <1>5, Zenon DEF Opened
<1>8. s \notin Opened /\ Cardinality(Opened') = Cardinality(Opened) + 1
  <2>1. s \notin Opened
    BY <1>1, <1>3, Zenon DEF PairInv, Numbered
  <2> QED BY <1>2, <1>7, <2>1, FS_AddElement, Zenon
<1> HIDE DEF n
<1>9. ForwardType'
  BY <1>1, <1>5, <1>6, Zenon DEF PairInv, ForwardType
<1>10. Numbered'
  <2>1. \A t \in Opened : identifier'[t] \in Nat /\ identifier'[t] < 2 * Cardinality(Opened)
    BY <1>5, <1>8, Zenon DEF PairInv, Numbered, Opened, ForwardType
  <2>2. \A t, u \in Opened : identifier'[t] = identifier'[u] => t = u
    BY <1>5, <1>8, Zenon DEF PairInv, Numbered, Opened
  <2>3. identifier'[s] = 2 * Cardinality(Opened) + 1
    BY <1>5, Zenon DEF n
  <2>4. \A t \in Opened' : identifier'[t] < 2 * Cardinality(Opened')
    BY <1>3, <1>7, <1>8, <2>1, <2>3, SMTT(60)
  <2>5. \A t, u \in Opened' : identifier'[t] = identifier'[u] => t = u
    BY <1>3, <1>7, <2>1, <2>2, <2>3
  <2>6. \A t \in Streams : delivery'[t] # "none" <=> t \in Opened'
    BY <1>3, <1>6, <1>7, Zenon DEF PairInv, Numbered
  <2> QED BY <1>1, <2>4, <2>5, <2>6, Zenon DEF Numbered
<1>11. PairsHold'
  <2>1. \A q \in DOMAIN pairs : pairs[q] \in Pair
    BY DEF PairInv, ForwardType
  <2>2. \A q \in DOMAIN pairs : /\ pairs[q].error # NoStream => pairs[q].error \in Streams \ {s}
                                /\ pairs[q].data # NoStream => pairs[q].data \in Streams \ {s}
    BY <1>1, <2>1, Zenon DEF Pair, PairInv, PairsHold
  <2>3. \A q \in DOMAIN pairs :
           /\ pairs[q].error # NoStream =>
                 /\ delivery'[pairs[q].error] = delivery[pairs[q].error]
                 /\ identifier'[pairs[q].error] = identifier[pairs[q].error]
           /\ pairs[q].data # NoStream =>
                 /\ delivery'[pairs[q].data] = delivery[pairs[q].data]
                 /\ identifier'[pairs[q].data] = identifier[pairs[q].data]
    <3>1. \A t \in Streams \ {s} : delivery'[t] = delivery[t] /\ identifier'[t] = identifier[t]
      BY <1>5, <1>6
    <3>2. ASSUME NEW q \in DOMAIN pairs, pairs[q].error # NoStream
          PROVE  /\ delivery'[pairs[q].error] = delivery[pairs[q].error]
                 /\ identifier'[pairs[q].error] = identifier[pairs[q].error]
      <4>1. pairs[q].error \in Streams \ {s}
        BY <2>2, <3>2, Zenon
      <4> QED BY <3>1, <4>1
    <3>3. ASSUME NEW q \in DOMAIN pairs, pairs[q].data # NoStream
          PROVE  /\ delivery'[pairs[q].data] = delivery[pairs[q].data]
                 /\ identifier'[pairs[q].data] = identifier[pairs[q].data]
      <4>1. pairs[q].data \in Streams \ {s}
        BY <2>2, <3>3, Zenon
      <4> QED BY <3>1, <4>1, Zenon
    <3> QED BY <3>2, <3>3
  <2>4. client' = client /\ pairs' = pairs
    BY <1>1, Zenon
  <2>5. ASSUME NEW q \in DOMAIN pairs
        PROVE  /\ pairs[q].error # NoStream => requestID(pairs[q].error)' = requestID(pairs[q].error)
               /\ pairs[q].data # NoStream => requestID(pairs[q].data)' = requestID(pairs[q].data)
    BY <2>3, <2>4, Zenon DEF requestID
  <2> QED BY <2>3, <2>4, <2>5, ZenonT(60) DEF PairInv, PairsHold
<1>12. Received'
  BY <1>1, <1>6, Zenon DEF PairInv, Received, Holds
<1>13. Mapped'
  BY <1>1, Zenon DEF PairInv, Mapped
<1>14. Channels'
  BY <1>1, <1>3, Zenon DEF Channels
<1> QED BY <1>9, <1>10, <1>11, <1>12, <1>13, <1>14, Zenon DEF PairInv

\* The two streams of a pair belong to one connection, and those that have arrived are paired,
\* for any number of connections, orders of arrival, timeouts and faults (getStreamPair, add,
\* requestID, monitorStreamPair, removeStreamPair).
THEOREM PairsDoMatch ==
    ASSUME ForwardConstants
    PROVE  ForwardSpec => []PairsMatch
<1>1. ForwardInit => PairInv
  <2> SUFFICES ASSUME ForwardInit PROVE PairInv
    BY Zenon
  <2>1. identifier \in [Streams -> Nat] /\ \A s \in Streams : identifier[s] = 0
    BY Zenon DEF ForwardInit
  <2>2. Opened = {}
    BY <2>1, Zenon DEF Opened
  <2>3. /\ delivery \in [Streams -> {"none", "sent", "received", "rejected"}]
        /\ \A s \in Streams : delivery[s] = IF client = "websocket" THEN "received" ELSE "none"
    BY Zenon DEF ForwardInit
  <2>4. client \in Clients /\ connOpen /\ streamPairs = {} /\ forwardFaults = 0
    BY Zenon DEF ForwardInit
  <2>5. CASE client # "websocket"
    <3>1. pairs = <<>>
      BY <2>5, Zenon DEF ForwardInit
    <3> QED BY <2>1, <2>2, <2>3, <2>4, <2>5, <3>1
        DEF PairInv, ForwardType, Numbered, PairsHold, Received, Mapped, Channels, ForwardConstants
  <2>6. CASE client = "websocket"
    <3>1. PICK n \in Nat : Accepted = 1 .. n
      BY Zenon DEF ForwardConstants
    <3>2. pairs = handleWebSocketStreams
      BY <2>6, Zenon DEF ForwardInit
    <3>3. \A i \in Accepted :
             /\ Channel((i - 1) * 2 + dataChannel) = <<i, "data">>
             /\ Channel((i - 1) * 2 + errorChannel) = <<i, "error">>
      BY <3>1 DEF Channel, dataChannel, errorChannel
    <3>4. /\ DOMAIN pairs = 1 .. n
          /\ \A i \in 1 .. n : pairs[i] = [requestID |-> i, data |-> <<i, "data">>,
                                            error |-> <<i, "error">>, monitor |-> "done",
                                            forward |-> "dial"]
      BY <3>1, <3>2, <3>3, Zenon DEF handleWebSocketStreams
    <3>5. \A i \in 1 .. n : pairs[i] \in Pair /\ <<i, "data">> \in Streams /\ <<i, "error">> \in Streams
      <4>1. \A i \in 1 .. n : <<i, "data">> \in Streams /\ <<i, "error">> \in Streams
        BY <3>1, Zenon DEF Streams, Types
      <4>2. \A i \in 1 .. n : i \in Int
        BY <3>1
      <4> HIDE DEF Streams
      <4>3. ASSUME NEW i \in 1 .. n PROVE pairs[i] \in Pair
        BY <3>4, <4>1, <4>2 DEF Pair
      <4> QED BY <4>1, <4>3, Zenon
    <3>6. pairs \in Seq(Pair)
      <4>1. pairs \in [1 .. n -> Pair]
        BY <3>1, <3>2, <3>4, <3>5, Zenon DEF handleWebSocketStreams
      <4> QED BY <3>1, <4>1, FunctionOfNumbers, Zenon
    <3>7. ForwardType /\ Numbered
      BY <2>1, <2>2, <2>3, <2>4, <2>6, <3>6, SMTT(60) DEF ForwardType, Numbered, ForwardConstants
    <3>8. PairsHold
      BY <2>3, <2>6, <3>4, <3>5, SMTT(60) DEF PairsHold
    <3>9. Received
      BY <3>1, <3>4, StreamTypes, SMTT(60) DEF Received, Holds
    <3>10. Mapped
      BY <2>4, <3>4, SMTT(60) DEF Mapped
    <3>11. Channels
      BY <2>1, <2>3, <2>6, <3>4 DEF Channels
    <3> QED BY <3>7, <3>8, <3>9, <3>10, <3>11, Zenon DEF PairInv
  <2> QED BY <2>5, <2>6, Zenon
<1>2. PairInv /\ [ForwardNext]_(forwardVars) => PairInv'
  <2> SUFFICES ASSUME PairInv, [ForwardNext]_(forwardVars) PROVE PairInv'
    BY Zenon
  <2>1. CASE UNCHANGED <<client, identifier, delivery, pairs, streamPairs, forwardFaults>> /\ connOpen' \in BOOLEAN
    <3>1. ForwardType' /\ Opened' = Opened
      BY <2>1, Zenon DEF PairInv, ForwardType, Opened
    <3>2. Numbered' /\ Received' /\ Mapped' /\ Channels'
      BY <2>1, <3>1, Zenon DEF PairInv, Numbered, Received, Holds, Mapped, Channels
    <3>3. PairsHold'
      BY <2>1, Zenon DEF PairInv, PairsHold, requestID
    <3> QED BY <3>1, <3>2, <3>3, Zenon DEF PairInv
  <2>2. CASE ConnectionCloses \/ websocketRun \/ ForwardEnded \/ UNCHANGED forwardVars
    <3>1. UNCHANGED <<client, identifier, delivery, pairs, streamPairs, forwardFaults>> /\ connOpen' \in BOOLEAN
      BY <2>2, Zenon DEF ConnectionCloses, websocketRun, ForwardEnded, forwardVars, NoPairs, NoForwardFault,
                  PairInv, ForwardType
    <3> QED BY <2>1, <3>1, Zenon
  <2> QED BY <2>2, OpenStep, RejectStep, RunStep, PairSteps, Zenon DEF ForwardNext
<1> QED BY <1>1, <1>2, PairsAreMatched, PTL DEF ForwardSpec

=============================================================================
