------------------------------ MODULE Joining -------------------------------
(***************************************************************************)
(* Sequences put together from others.  A selection joins a sequence of at *)
(* most one element for each element it looks at.                          *)
(***************************************************************************)
EXTENDS Naturals, Sequences

(* The sequences of ss, one after the other. *)
Join(ss) ==
    LET join[n \in 0 .. Len(ss)] == IF n = 0 THEN <<>> ELSE join[n - 1] \o ss[n]
    IN  join[Len(ss)]

(* The elements of s at the positions in I, in their order. *)
Select(s, I) == Join([i \in DOMAIN s |-> IF i \in I THEN <<s[i]>> ELSE <<>>])
=============================================================================
