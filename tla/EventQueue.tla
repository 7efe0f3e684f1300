----------------------------- MODULE EventQueue -----------------------------
(***************************************************************************)
(* What the event monitor promises: the events that one source reports     *)
(* about one object are handled in the order they were reported, each is   *)
(* handled once, and none is dropped.                                      *)
(***************************************************************************)
EXTENDS Naturals, Sequences

CONSTANTS Keys, Events

VARIABLE pending    \* the unhandled events of each key, oldest first

Init == pending = [k \in Keys |-> <<>>]

Report(k) ==
    \E e \in Events : pending' = [pending EXCEPT ![k] = Append(@, e)]

Handle(k) == pending[k] # <<>> /\ pending' = [pending EXCEPT ![k] = Tail(@)]

Next == pending' # pending /\ \E k \in Keys : Handle(k) \/ Report(k)

Spec == Init /\ [][Next]_pending

=============================================================================
