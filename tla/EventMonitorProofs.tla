------------------------- MODULE EventMonitorProofs --------------------------
(***************************************************************************)
(* The proof that the event loop implements EventQueue, for any number of  *)
(* objects, events, channel sizes and faults, with the facts about         *)
(* sequences and induction it rests on.                                    *)
(***************************************************************************)
EXTENDS EventMonitor, WellFoundedInduction, TLAPS

-----------------------------------------------------------------------------
(* Sequences *)

\* An element of a sequence is one of the values, of which there may be more.
LEMMA Element == ASSUME NEW V, NEW s \in Seq(V), NEW i \in 1 .. Len(s) PROVE s[i] \in V
OBVIOUS

\* There may be more values.
LEMMA MoreValues == ASSUME NEW V, NEW W, NEW s \in Seq(V), V \subseteq W PROVE s \in Seq(W)
OBVIOUS

\* The empty sequence is the one of length 0.
LEMMA Empty ==
    ASSUME NEW V
    PROVE  <<>> \in Seq(V) /\ \A s \in Seq(V) : s = <<>> <=> Len(s) = 0
OBVIOUS

\* The first element of a sequence, and the others.
LEMMA HeadAndTail ==
    ASSUME NEW V, NEW s \in Seq(V), s # <<>>
    PROVE  /\ Head(s) \in V /\ Tail(s) \in Seq(V) /\ Len(Tail(s)) = Len(s) - 1
           /\ \A i \in 1 .. Len(Tail(s)) : Tail(s)[i] = s[i + 1]
OBVIOUS

\* Concatenation may be regrouped.
LEMMA Grouping ==
    ASSUME NEW V, NEW s \in Seq(V), NEW t \in Seq(V), NEW u \in Seq(V)
    PROVE  (s \o t) \o u = s \o (t \o u)
OBVIOUS

-----------------------------------------------------------------------------
(* Induction over the naturals, as a fact about sets *)

\* A set of naturals that is not empty has a least element.
LEMMA LeastNatural == \A T \in SUBSET Nat : T # {} => \E n \in T : \A m \in T : n <= m
<1> DEFINE R == OpToRel(<, Nat)
<1>1. IsWellFoundedOn(R, Nat)
  BY NatLessThanWellFounded, Zenon
<1>2. \A x, y \in Nat : <<x, y>> \in R <=> x < y
  BY Zenon DEF OpToRel
<1> HIDE DEF R
<1> SUFFICES ASSUME NEW T \in SUBSET Nat, T # {} PROVE \E n \in T : \A m \in T : n <= m
  BY Zenon
<1>3. PICK n \in T : \A m \in T : ~ (<<m, n>> \in R)
  BY <1>1, WFMin, Zenon
<1>4. ASSUME NEW m \in T PROVE n <= m
  <2>1. m \in Nat /\ n \in Nat /\ ~ (<<m, n>> \in R)
    BY <1>3, Zenon
  <2>2. ~ (m < n)
    BY <1>2, <2>1, Zenon
  <2> QED BY <2>1, <2>2
<1> QED BY <1>4, Zenon

\* A set that has 0 and, with each number below N, the next one has all up to N.
LEMMA UpTo ==
    ASSUME NEW N \in Nat, NEW S, 0 \in S, \A n \in 0 .. N - 1 : n \in S => n + 1 \in S
    PROVE  0 .. N \subseteq S
<1> DEFINE T == (0 .. N) \ S
<1> SUFFICES ASSUME T # {} PROVE FALSE
  BY Zenon
<1>1. T \in SUBSET Nat
  OBVIOUS
<1>2. PICK n \in T : \A m \in T : n <= m
  BY <1>1, LeastNatural, Zenon
<1>3. n \in 0 .. N /\ n \notin S /\ n # 0
  BY Zenon
<1>4. n - 1 \in 0 .. N - 1 /\ n - 1 \notin T
  BY <1>2, <1>3
<1>5. n - 1 \in S
  BY <1>4
<1>6. n - 1 + 1 \in S
  BY <1>4, <1>5, Zenon
<1> QED BY <1>3, <1>6

\* f[n] is what the steps G[1], ..., G[n] make of v.
Iterates(N, G, v, f) == f[0] = v /\ \A n \in 1 .. N : f[n] = G[n][f[n - 1]]

\* A step that is given as a function can be iterated.
LEMMA Iteration ==
    ASSUME NEW N \in Nat, NEW V, NEW v \in V, NEW G \in [1 .. N -> [V -> V]]
    PROVE  \E f \in [0 .. N -> V] : Iterates(N, G, v, f)
<1> DEFINE Upto(f, m) == f[0] = v /\ \A n \in 1 .. m : f[n] = G[n][f[n - 1]]
           S == {m \in 0 .. N : \E f \in [0 .. N -> V] : Upto(f, m)}
<1>1. 0 \in S
  <2> DEFINE f == [n \in 0 .. N |-> v]
  <2>1. f \in [0 .. N -> V] /\ Upto(f, 0) /\ 0 \in 0 .. N
    OBVIOUS
  <2> HIDE DEF f, Upto
  <2> QED BY <2>1, Zenon
<1>2. ASSUME NEW m \in 0 .. N - 1, m \in S PROVE m + 1 \in S
  <2>1. PICK f \in [0 .. N -> V] : Upto(f, m)
    BY <1>2, Zenon
  <2>2. f[m] \in V /\ m + 1 \in 1 .. N /\ G[m + 1] \in [V -> V] /\ G[m + 1][f[m]] \in V
    OBVIOUS
  <2> DEFINE g == [f EXCEPT ![m + 1] = G[m + 1][f[m]]]
  <2>3. g \in [0 .. N -> V] /\ g[0] = f[0] /\ g[m + 1] = G[m + 1][f[m]]
    BY <2>2
  <2>4. \A n \in 0 .. m : g[n] = f[n]
    BY <2>2
  <2> HIDE DEF g
  <2>5. Upto(g, m + 1)
    <3>1. ASSUME NEW n \in 1 .. m + 1 PROVE g[n] = G[n][g[n - 1]]
      <4>1. CASE n = m + 1
        <5>1. n - 1 = m /\ g[m] = f[m]
          BY <2>4, <4>1
        <5> QED BY <2>3, <4>1, <5>1, Zenon
      <4>2. CASE n \in 1 .. m
        BY <2>1, <2>4, <4>2
      <4> QED BY <4>1, <4>2
    <3> QED BY <2>1, <2>3, <3>1, Zenon
  <2> HIDE DEF Upto
  <2> QED BY <2>2, <2>3, <2>5
<1> HIDE DEF S
<1>3. 0 .. N \subseteq S
  BY <1>1, <1>2, UpTo, Zenon
<1>4. N \in S
  BY <1>3
<1> QED BY <1>4, Zenon DEF S, Upto, Iterates

-----------------------------------------------------------------------------
(* The events of one key in a sequence *)

\* f[n] is what From selects of the first n elements of es.
Selects(k, es, f) ==
    /\ f[0] = <<>>
    /\ \A n \in 1 .. Len(es) :
          f[n] = IF Of(k, es[n]) THEN Append(f[n - 1], es[n]) ELSE f[n - 1]

\* f describes what From selects of es, a sequence over V.
Selection(V, k, es, f) ==
    f \in [0 .. Len(es) -> Seq(V)] /\ Selects(k, es, f) /\ From(k, es) = f[Len(es)]

\* What From selects, without its recursion.
LEMMA FromSelects ==
    ASSUME NEW V, NEW k, NEW es \in Seq(V)
    PROVE  \E f : Selection(V, k, es, f)
<1> DEFINE N == Len(es)
           G == [n \in 1 .. N |->
                    [s \in Seq(V) |-> IF Of(k, es[n]) THEN Append(s, es[n]) ELSE s]]
           sel[n \in 0 .. N] ==
              IF n = 0 THEN <<>> ELSE IF Of(k, es[n]) THEN Append(sel[n - 1], es[n]) ELSE sel[n - 1]
           Def(f) == f = [n \in 0 .. N |->
              IF n = 0 THEN <<>> ELSE IF Of(k, es[n]) THEN Append(f[n - 1], es[n]) ELSE f[n - 1]]
<1>1. N \in Nat /\ <<>> \in Seq(V)
  OBVIOUS
<1>2. G \in [1 .. N -> [Seq(V) -> Seq(V)]]
  <2>1. ASSUME NEW n \in 1 .. N, NEW s \in Seq(V)
        PROVE  (IF Of(k, es[n]) THEN Append(s, es[n]) ELSE s) \in Seq(V)
    <3>1. es[n] \in V
      BY Element, Zenon
    <3>2. Append(s, es[n]) \in Seq(V)
      BY <3>1
    <3> QED BY <3>2, Zenon
  <2> QED BY <2>1, Zenon
<1>3. \A n \in 1 .. N, s \in Seq(V) : G[n][s] = IF Of(k, es[n]) THEN Append(s, es[n]) ELSE s
  BY Zenon
<1>4. \A n \in 1 .. N : n # 0 /\ n - 1 \in 0 .. N
  BY <1>1
<1>5. \A n \in 0 .. N : n # 0 => n \in 1 .. N
  BY <1>1
<1> HIDE DEF N, G, sel, Def
<1>6. PICK f \in [0 .. N -> Seq(V)] : Iterates(N, G, <<>>, f)
  BY <1>1, <1>2, Iteration, Zenon
<1>7. \A n \in 1 .. N : f[n] = IF Of(k, es[n]) THEN Append(f[n - 1], es[n]) ELSE f[n - 1]
  <2> TAKE n \in 1 .. N
  <2>1. f[n - 1] \in Seq(V)
    BY <1>4, Zenon
  <2> QED BY <1>3, <1>6, <2>1, Zenon DEF Iterates
<1>8. Selects(k, es, f)
  BY <1>6, <1>7, Zenon DEF Iterates, Selects, N
<1>9. Def(f)
  <2>1. \A n \in 0 .. N : f[n] =
           IF n = 0 THEN <<>> ELSE IF Of(k, es[n]) THEN Append(f[n - 1], es[n]) ELSE f[n - 1]
    BY <1>5, <1>6, <1>7, Zenon DEF Iterates
  <2> QED BY <2>1, Zenon DEF Def
<1>10. sel = CHOOSE g : Def(g)
  BY Zenon DEF sel, Def
<1>11. Def(sel)
  BY <1>9, <1>10, Zenon
<1>12. From(k, es) = sel[Len(es)]
  BY Zenon DEF From, sel, N
<1>13. sel[N] = f[N]
  <2> DEFINE S == {n \in 0 .. N : sel[n] = f[n]}
  <2>1. \A n \in 0 .. N : sel[n] =
           IF n = 0 THEN <<>> ELSE IF Of(k, es[n]) THEN Append(sel[n - 1], es[n]) ELSE sel[n - 1]
    BY <1>11, Zenon DEF Def
  <2>2. 0 \in S
    <3>1. 0 \in 0 .. N
      BY <1>1
    <3> QED BY <1>6, <2>1, <3>1, Zenon DEF Iterates
  <2>3. ASSUME NEW n \in 0 .. N - 1, n \in S PROVE n + 1 \in S
    <3>1. n + 1 \in 1 .. N /\ n + 1 \in 0 .. N /\ n + 1 # 0 /\ n + 1 - 1 = n
      BY <1>1
    <3>2. f[n + 1] = IF Of(k, es[n + 1]) THEN Append(f[n], es[n + 1]) ELSE f[n]
      BY <1>7, <3>1
    <3>3. sel[n + 1] = IF Of(k, es[n + 1]) THEN Append(sel[n], es[n + 1]) ELSE sel[n]
      BY <2>1, <3>1
    <3>4. sel[n] = f[n]
      BY <2>3, Zenon
    <3>5. sel[n + 1] = f[n + 1]
      BY <3>2, <3>3, <3>4
    <3> QED BY <3>1, <3>5, Zenon
  <2> HIDE DEF S
  <2>4. 0 .. N \subseteq S
    BY <1>1, <2>2, <2>3, UpTo, Zenon
  <2> QED BY <1>1, <2>4 DEF S
<1> QED BY <1>8, <1>12, <1>13, Zenon DEF N, Selection

\* Nothing is selected of nothing.
LEMMA FromEmpty == \A k : From(k, <<>>) = <<>>
<1> TAKE k
<1> DEFINE es == <<>>
           V == {}
<1>1. es \in Seq(V) /\ Len(es) = 0
  OBVIOUS
<1> HIDE DEF es, V
<1>2. PICK f : Selection(V, k, es, f)
  BY <1>1, FromSelects, Zenon
<1> QED BY <1>1, <1>2, Zenon DEF Selection, Selects, es

\* An element is selected in the place it has.
LEMMA FromAppend ==
    ASSUME NEW V, NEW k, NEW es \in Seq(V), NEW e \in V
    PROVE  From(k, Append(es, e)) =
              IF Of(k, e) THEN Append(From(k, es), e) ELSE From(k, es)
<1> DEFINE N == Len(es)
           fs == Append(es, e)
<1>1. fs \in Seq(V) /\ Len(fs) = N + 1 /\ fs[N + 1] = e /\ N \in Nat /\ \A n \in 1 .. N : fs[n] = es[n]
  OBVIOUS
<1>2. PICK f : Selection(V, k, es, f)
  BY FromSelects, Zenon
<1> HIDE DEF fs
<1>3. PICK g : Selection(V, k, fs, g)
  BY <1>1, FromSelects, Zenon
<1> DEFINE S == {n \in 0 .. N : g[n] = f[n]}
<1>4. 0 \in S
  BY <1>1, <1>2, <1>3 DEF Selection, Selects
<1>5. ASSUME NEW n \in 0 .. N - 1, n \in S PROVE n + 1 \in S
  <2>1. n + 1 \in 1 .. N /\ n + 1 \in 1 .. N + 1 /\ n + 1 \in 0 .. N /\ n + 1 - 1 = n
    BY <1>1
  <2>2. f[n + 1] = IF Of(k, es[n + 1]) THEN Append(f[n], es[n + 1]) ELSE f[n]
    BY <1>2, <2>1 DEF Selection, Selects
  <2>3. g[n + 1] = IF Of(k, fs[n + 1]) THEN Append(g[n], fs[n + 1]) ELSE g[n]
    BY <1>1, <1>3, <2>1 DEF Selection, Selects
  <2>4. g[n] = f[n] /\ fs[n + 1] = es[n + 1]
    BY <1>1, <1>5, <2>1, Zenon
  <2>5. g[n + 1] = f[n + 1]
    BY <2>2, <2>3, <2>4
  <2> QED BY <2>1, <2>5, Zenon
<1> HIDE DEF S
<1>6. 0 .. N \subseteq S
  BY <1>1, <1>4, <1>5, UpTo, Zenon
<1>7. g[N] = f[N]
  BY <1>1, <1>6 DEF S
<1>8. g[N + 1] = IF Of(k, fs[N + 1]) THEN Append(g[N], fs[N + 1]) ELSE g[N]
  BY <1>1, <1>3 DEF Selection, Selects
<1> QED BY <1>1, <1>2, <1>3, <1>7, <1>8, Zenon DEF Selection, fs

\* Nothing but elements of the sequence is selected.
LEMMA FromType ==
    ASSUME NEW V, NEW k, NEW es \in Seq(V) PROVE From(k, es) \in Seq(V)
<1> DEFINE N == Len(es)
<1>1. PICK f : Selection(V, k, es, f)
  BY FromSelects, Zenon
<1>2. N \in 0 .. N
  OBVIOUS
<1> QED BY <1>1, <1>2, Zenon DEF Selection

\* What is selected of a \o c is what is selected of a and then of c.
Splits(k, a, c) == From(k, a \o c) = From(k, a) \o From(k, c)

\* One more element in the second of two parts.
LEMMA FromLonger ==
    ASSUME NEW V, NEW k, NEW a \in Seq(V), NEW c \in Seq(V), NEW e \in V, Splits(k, a, c)
    PROVE  Splits(k, a, Append(c, e))
<1> DEFINE sa == From(k, a)
           sc == From(k, c)
<1>1. a \o c \in Seq(V) /\ a \o Append(c, e) = Append(a \o c, e)
  OBVIOUS
<1>2. sa \in Seq(V) /\ sc \in Seq(V)
  BY FromType, Zenon
<1>3. From(k, Append(c, e)) = IF Of(k, e) THEN Append(sc, e) ELSE sc
  BY FromAppend, Zenon
<1>4. From(k, Append(a \o c, e)) =
         IF Of(k, e) THEN Append(From(k, a \o c), e) ELSE From(k, a \o c)
  BY <1>1, FromAppend, ZenonT(60)
<1> HIDE DEF sa, sc
<1>5. sa \o Append(sc, e) = Append(sa \o sc, e)
  BY <1>2
<1>6. From(k, a \o c) = sa \o sc
  BY Zenon DEF Splits, sa, sc
<1> QED BY <1>1, <1>3, <1>4, <1>5, <1>6, Zenon DEF Splits, sa

\* A sequence is selected from part by part.
LEMMA FromConcat ==
    ASSUME NEW V, NEW k, NEW a \in Seq(V), NEW b \in Seq(V)
    PROVE  Splits(k, a, b)
<1> DEFINE N == Len(b)
           Part(n) == SubSeq(b, 1, n)
           S == {n \in 0 .. N : Splits(k, a, Part(n))}
<1>1. N \in Nat /\ Part(0) = <<>> /\ Part(N) = b /\ a \o <<>> = a
  OBVIOUS
<1>2. \A n \in 0 .. N : Part(n) \in Seq(V)
  OBVIOUS
<1>3. ASSUME NEW n \in 0 .. N - 1
      PROVE  b[n + 1] \in V /\ Part(n + 1) = Append(Part(n), b[n + 1])
  OBVIOUS
<1> HIDE DEF N, Part
<1>4. 0 \in S
  <2>1. From(k, a) \in Seq(V) /\ From(k, <<>>) = <<>>
    BY FromType, FromEmpty, Zenon
  <2>2. From(k, a) \o <<>> = From(k, a)
    BY <2>1
  <2>3. 0 \in 0 .. N
    BY <1>1
  <2>4. Splits(k, a, Part(0))
    BY <1>1, <2>1, <2>2, Zenon DEF Splits
  <2> QED BY <2>3, <2>4, Zenon
<1>5. ASSUME NEW n \in 0 .. N - 1, n \in S PROVE n + 1 \in S
  <2>1. n \in 0 .. N /\ n + 1 \in 0 .. N
    BY <1>1
  <2>2. Part(n) \in Seq(V) /\ b[n + 1] \in V /\ Part(n + 1) = Append(Part(n), b[n + 1])
    BY <1>2, <1>3, <2>1, Zenon
  <2>3. Splits(k, a, Append(Part(n), b[n + 1]))
    BY <1>5, <2>2, FromLonger, Zenon
  <2> QED BY <2>1, <2>2, <2>3, Zenon
<1> HIDE DEF S
<1>6. 0 .. N \subseteq S
  BY <1>1, <1>4, <1>5, UpTo, Zenon
<1>7. N \in S
  BY <1>1, <1>6
<1> QED BY <1>1, <1>7, Zenon DEF S

\* Of one element.
LEMMA FromOne ==
    ASSUME NEW k, NEW e PROVE From(k, <<e>>) = IF Of(k, e) THEN <<e>> ELSE <<>>
<1>1. <<>> \in Seq({e}) /\ e \in {e} /\ Append(<<>>, e) = <<e>>
  OBVIOUS
<1>2. From(k, Append(<<>>, e)) = IF Of(k, e) THEN Append(From(k, <<>>), e) ELSE From(k, <<>>)
  BY <1>1, FromAppend, Zenon
<1> QED BY <1>1, <1>2, FromEmpty, Zenon

\* Of the first element and the others.
LEMMA FromHead ==
    ASSUME NEW V, NEW k, NEW es \in Seq(V), es # <<>>
    PROVE  From(k, es) = IF Of(k, Head(es)) THEN <<Head(es)>> \o From(k, Tail(es))
                                                ELSE From(k, Tail(es))
<1> DEFINE h == <<Head(es)>>
           t == Tail(es)
<1>1. h \in Seq(V) /\ t \in Seq(V) /\ es = h \o t
  OBVIOUS
<1>2. From(k, h) = IF Of(k, Head(es)) THEN h ELSE <<>>
  BY FromOne, Zenon
<1> HIDE DEF h, t
<1>3. From(k, es) = From(k, h) \o From(k, t)
  <2>1. Splits(k, h, t)
    BY <1>1, FromConcat, Zenon
  <2> QED BY <1>1, <2>1, Zenon DEF Splits
<1>4. From(k, t) \in Seq(V)
  BY <1>1, FromType, Zenon
<1>5. <<>> \o From(k, t) = From(k, t)
  BY <1>4
<1> QED BY <1>2, <1>3, <1>5, Zenon DEF h, t

\* Of elements none of which is of the key.
LEMMA FromNone ==
    ASSUME NEW V, NEW k, NEW es \in Seq(V), \A e \in V : ~ Of(k, e)
    PROVE  From(k, es) = <<>>
<1>1. PICK f : Selection(V, k, es, f)
  BY FromSelects, Zenon
<1> DEFINE N == Len(es)
           S == {n \in 0 .. N : f[n] = <<>>}
<1>2. N \in Nat /\ 0 \in S
  BY <1>1 DEF Selection, Selects
<1>3. ASSUME NEW n \in 0 .. N - 1, n \in S PROVE n + 1 \in S
  <2>1. n + 1 \in 1 .. N /\ n + 1 - 1 = n /\ es[n + 1] \in V
    BY <1>2
  <2>2. f[n + 1] = f[n]
    BY <1>1, <2>1 DEF Selection, Selects
  <2> QED BY <1>3, <2>1, <2>2
<1> HIDE DEF S
<1>4. 0 .. N \subseteq S
  BY <1>2, <1>3, UpTo, Zenon
<1> QED BY <1>1, <1>2, <1>4 DEF S, Selection

-----------------------------------------------------------------------------
(* The event monitor *)

\* What the proof needs of the constants.
EventConstants ==
    MaxReports \in Nat /\ MinDuration \in Nat /\ MaxDuration \in Nat /\ NoObject \notin Objects

Reports == Event \cup {Foreign}
ExitReports == {e \in Event : e.src = "exit"}
PublishedReports == {e \in Event : e.src = "containerd"} \cup {Foreign}
EventsOf(i) == {e \in Event : e.id = i}
BackOffQueue == [events : Seq(Event), duration : Int, left : Int]

\* What lies where: the queue of an object has events of that object, and it is empty while a
\* batch of the object is being retried.
QueueInv ==
    /\ exitCh \in Seq(ExitReports) /\ ch \in Seq(PublishedReports) /\ reported \in Nat
    /\ queuePool \in [Objects -> BackOffQueue]
    /\ \A i \in Objects : queuePool[i].events \in Seq(EventsOf(i))
    /\ expired \subseteq Objects /\ \A i \in expired : isInBackOff(i)
    /\ batch # NoBatch =>
          /\ batch \in [id : Objects, events : Seq(Event), duration : Int]
          /\ batch.events \in Seq(EventsOf(batch.id)) /\ batch.events # <<>>
          /\ queuePool[batch.id].events = <<>>

\* What a step does to the events that are pending.
Same == \A k \in Keys : Pending(k)' = Pending(k)
SameBut(k0) == \A k \in Keys : k # k0 => Pending(k)' = Pending(k)
Handled(k) == Pending(k) # <<>> /\ Pending(k)' = Tail(Pending(k)) /\ SameBut(k)
Arrived(k) ==
    (\E e \in Event : Pending(k)' = Append(Pending(k), e)) /\ SameBut(k)
Effect == Same \/ \E k \in Keys : Handled(k) \/ Arrived(k)

\* Each of them is a step of EventQueue.
LEMMA EffectIsStep == Effect => [Queue!Next]_([k \in Keys |-> Pending(k)])
<1> DEFINE pending == [k \in Keys |-> Pending(k)]
<1>1. pending' = [k \in Keys |-> Pending(k)']
  BY Zenon
<1>2. CASE Same
  BY <1>1, <1>2, Zenon DEF Same
<1>3. ASSUME NEW k \in Keys, Handled(k) PROVE pending' = pending \/ Queue!Next
  <2>1. pending[k] # <<>> /\ pending' = [pending EXCEPT ![k] = Tail(@)]
    BY <1>1, <1>3, Zenon DEF Handled, SameBut
  <2> QED BY <2>1, Zenon DEF Queue!Next, Queue!Handle
<1>4. ASSUME NEW k \in Keys, Arrived(k) PROVE pending' = pending \/ Queue!Next
  <2>1. PICK e \in Event : pending' = [pending EXCEPT ![k] = Append(@, e)]
    BY <1>1, <1>4, Zenon DEF Arrived, SameBut
  <2> QED BY <2>1, Zenon DEF Queue!Next, Queue!Report
<1> QED BY <1>2, <1>3, <1>4, Zenon DEF Effect

-----------------------------------------------------------------------------
(* Sequences *)

\* Four places one after the other.
Joined(a, b, c, d) == a \o b \o c \o d

\* Nothing before or after a sequence.
LEMMA Nothing == ASSUME NEW V PROVE \A s \in Seq(V) : s \o <<>> = s /\ <<>> \o s = s
  OBVIOUS

\* An element at the end of a sequence, or at the start of the next one.
EndOrStart(a, b, s, e) == a \o Append(b, e) \o s = a \o b \o (<<e>> \o s)

\* An element at the end of one part may be one at the start of the next.
LEMMA Between ==
    ASSUME NEW V, NEW a \in Seq(V), NEW b \in Seq(V), NEW s \in Seq(V), NEW e \in V
    PROVE  EndOrStart(a, b, s, e)
<1>1. a \o Append(b, e) = a \o b \o <<e>>
  OBVIOUS
<1>2. a \o b \in Seq(V) /\ <<e>> \in Seq(V)
  OBVIOUS
<1>3. a \o b \o <<e>> \o s = a \o b \o (<<e>> \o s)
  BY <1>2, Grouping
<1> QED BY <1>1, <1>3, Zenon DEF EndOrStart

\* From the third place to the second.
LEMMA MovedFromThird ==
    ASSUME NEW V, NEW a \in Seq(V), NEW b \in Seq(V), NEW c \in Seq(V), NEW d \in Seq(V), NEW e \in V
    PROVE  Joined(a, Append(b, e), c, d) = Joined(a, b, <<e>> \o c, d)
<1>1. EndOrStart(a, b, c, e)
  BY Between, Zenon
<1> QED BY <1>1, Zenon DEF EndOrStart, Joined

\* From the fourth place to the second, when nothing is in the third.
LEMMA MovedFromFourth ==
    ASSUME NEW V, NEW a \in Seq(V), NEW b \in Seq(V), NEW d \in Seq(V), NEW e \in V
    PROVE  Joined(a, Append(b, e), <<>>, d) = Joined(a, b, <<>>, <<e>> \o d)
<1>1. EndOrStart(a, b, d, e)
  BY Between, Zenon
<1>2. a \o Append(b, e) \o <<>> = a \o Append(b, e) /\ a \o b \o <<>> = a \o b
  <2>1. a \o Append(b, e) \in Seq(V) /\ a \o b \in Seq(V)
    OBVIOUS
  <2> QED BY <2>1, Nothing, Zenon
<1> QED BY <1>1, <1>2, Zenon DEF EndOrStart, Joined

\* From the first place to the second, when nothing is in the second.
LEMMA MovedFromFirst ==
    ASSUME NEW V, NEW a \in Seq(V), NEW c \in Seq(V), NEW d \in Seq(V)
    PROVE  Joined(<<>>, a, c, d) = Joined(a, <<>>, c, d)
<1>1. <<>> \o a = a \o <<>>
  BY Nothing, Zenon
<1> QED BY <1>1, Zenon DEF Joined

\* At the end of the fourth place.
AddedLast(a, b, c, d, e) == Joined(a, b, c, Append(d, e)) = Append(Joined(a, b, c, d), e)

\* An event is added at the end of the last place.
LEMMA AddedToFourth ==
    ASSUME NEW V, NEW a \in Seq(V), NEW b \in Seq(V), NEW c \in Seq(V), NEW d \in Seq(V), NEW e \in V
    PROVE  AddedLast(a, b, c, d, e)
<1>1. a \o b \o c \in Seq(V)
  OBVIOUS
<1>2. ASSUME NEW s \in Seq(V) PROVE s \o Append(d, e) = Append(s \o d, e)
  BY SMTT(60)
<1> QED BY <1>1, <1>2, Zenon DEF AddedLast, Joined

\* At the end of the third place, when nothing is in the fourth.
LEMMA AddedToThird ==
    ASSUME NEW V, NEW a \in Seq(V), NEW b \in Seq(V), NEW c \in Seq(V), NEW e \in V
    PROVE  Joined(a, b, Append(c, e), <<>>) = Append(Joined(a, b, c, <<>>), e)
<1>1. a \o b \in Seq(V) /\ a \o b \o c \in Seq(V) /\ a \o b \o Append(c, e) \in Seq(V)
  OBVIOUS
<1>2. ASSUME NEW s \in Seq(V) PROVE s \o Append(c, e) = Append(s \o c, e)
  OBVIOUS
<1>3. a \o b \o Append(c, e) \o <<>> = a \o b \o Append(c, e) /\ a \o b \o c \o <<>> = a \o b \o c
  BY <1>1, Nothing, Zenon
<1> QED BY <1>1, <1>2, <1>3, Zenon DEF Joined

\* Taking the first element of a sequence away.
TailIs(t, s) == t # <<>> /\ Tail(t) = s

\* What follows the first event.
LEMMA TailOfOne == ASSUME NEW V, NEW e \in V, NEW s \in Seq(V) PROVE TailIs(<<e>> \o s, s)
  BY DEF TailIs

\* From the first place.
LEMMA TakenFromFirst ==
    ASSUME NEW V, NEW e \in V, NEW a \in Seq(V), NEW b \in Seq(V), NEW c \in Seq(V), NEW d \in Seq(V)
    PROVE  TailIs(Joined(<<e>> \o a, b, c, d), Joined(a, b, c, d))
<1>1. <<e>> \in Seq(V) /\ a \o b \in Seq(V) /\ a \o b \o c \in Seq(V) /\ a \o b \o c \o d \in Seq(V)
  OBVIOUS
<1>2. \A t, u \in Seq(V) : (<<e>> \o t) \o u = <<e>> \o (t \o u)
  <2> SUFFICES ASSUME NEW t \in Seq(V), NEW u \in Seq(V) PROVE (<<e>> \o t) \o u = <<e>> \o (t \o u)
    BY Zenon
  <2> QED BY <1>1, Grouping, SMTT(60)
<1>3. (<<e>> \o a) \o b = <<e>> \o (a \o b)
  BY <1>1, <1>2, Zenon
<1>4. (<<e>> \o (a \o b)) \o c = <<e>> \o (a \o b \o c)
  BY <1>1, <1>2, Zenon
<1>5. (<<e>> \o (a \o b \o c)) \o d = <<e>> \o (a \o b \o c \o d)
  BY <1>1, <1>2, Zenon
<1>6. Joined(<<e>> \o a, b, c, d) = <<e>> \o Joined(a, b, c, d)
  BY <1>3, <1>4, <1>5, Zenon DEF Joined
<1> QED BY <1>1, <1>6, TailOfOne, Zenon DEF Joined

\* From the third place, when nothing is before it.
LEMMA TakenFromThird ==
    ASSUME NEW V, NEW e \in V, NEW c \in Seq(V), NEW d \in Seq(V)
    PROVE  TailIs(Joined(<<>>, <<>>, <<e>> \o c, d), Joined(<<>>, <<>>, c, d))
<1>1. <<e>> \in Seq(V) /\ <<e>> \o c \in Seq(V) /\ c \o d \in Seq(V) /\ <<>> \in Seq(V)
  OBVIOUS
<1>2. <<>> \o <<>> = <<>> /\ <<>> \o (<<e>> \o c) = <<e>> \o c /\ <<>> \o c = c
  BY <1>1, Nothing, Zenon
<1>3. (<<e>> \o c) \o d = <<e>> \o (c \o d)
  BY <1>1, Grouping
<1>4. Joined(<<>>, <<>>, <<e>> \o c, d) = <<e>> \o (c \o d) /\ Joined(<<>>, <<>>, c, d) = c \o d
  BY <1>2, <1>3, Zenon DEF Joined
<1> QED BY <1>1, <1>4, TailOfOne, Zenon

\* From the fourth place, when nothing is before it.
LEMMA TakenFromFourth ==
    ASSUME NEW V, NEW e \in V, NEW d \in Seq(V)
    PROVE  TailIs(Joined(<<>>, <<>>, <<>>, <<e>> \o d), Joined(<<>>, <<>>, <<>>, d))
<1>1. <<e>> \o d \in Seq(V) /\ <<>> \in Seq(V)
  OBVIOUS
<1>2. <<>> \o <<>> = <<>> /\ <<>> \o (<<e>> \o d) = <<e>> \o d /\ <<>> \o d = d
  BY <1>1, Nothing, Zenon
<1>3. Joined(<<>>, <<>>, <<>>, <<e>> \o d) = <<e>> \o d /\ Joined(<<>>, <<>>, <<>>, d) = d
  BY <1>2, Zenon DEF Joined
<1> QED BY <1>3, TailOfOne, Zenon

-----------------------------------------------------------------------------
(* The events that are pending *)

\* What is selected of the four places an event can be in.
SplitsFour(k, b, q, x, c) ==
    From(k, b \o q \o x \o c) = From(k, b) \o From(k, q) \o From(k, x) \o From(k, c)

\* The events of one key in the four places, one after the other.
LEMMA FromFour ==
    ASSUME NEW V, NEW k, NEW b \in Seq(V), NEW q \in Seq(V), NEW x \in Seq(V), NEW c \in Seq(V)
    PROVE  SplitsFour(k, b, q, x, c)
<1>1. b \o q \in Seq(V) /\ b \o q \o x \in Seq(V)
  OBVIOUS
<1>2. Splits(k, b, q)
  BY FromConcat, Zenon
<1>3. Splits(k, b \o q, x)
  BY <1>1, FromConcat, Zenon
<1>4. Splits(k, b \o q \o x, c)
  BY <1>1, FromConcat, Zenon
<1> QED BY <1>2, <1>3, <1>4, Zenon DEF Splits, SplitsFour

\* The four places hold events.
Places ==
    /\ batch.events \in Seq(Reports) /\ exitCh \in Seq(Reports) /\ ch \in Seq(Reports)
    /\ \A i \in Objects : queuePool[i].events \in Seq(Reports)

\* The four places hold events.
LEMMA PlacesHold == QueueInv => Places
<1> SUFFICES ASSUME QueueInv PROVE Places
  BY Zenon
<1>1. /\ Seq(ExitReports) \subseteq Seq(Reports) /\ Seq(PublishedReports) \subseteq Seq(Reports)
      /\ Seq(Event) \subseteq Seq(Reports)
  BY MoreValues, Zenon DEF ExitReports, PublishedReports, Reports
<1>2. batch.events \in Seq(Event)
  <2>1. CASE batch = NoBatch
    BY <2>1 DEF NoBatch
  <2>2. CASE batch # NoBatch
    BY <2>2, Zenon DEF QueueInv
  <2> QED BY <2>1, <2>2, Zenon
<1>3. \A i \in Objects : queuePool[i].events \in Seq(Event)
  BY Zenon DEF QueueInv, BackOffQueue
<1> QED BY <1>1, <1>2, <1>3, Zenon DEF QueueInv, Places

\* So they do in the next state.
LEMMA PlacesHoldPrime == QueueInv' => Places'
  BY PlacesHold, PTL

\* What is pending, place by place.
PendingOf(k) ==
    Pending(k) = From(k, batch.events) \o From(k, queuePool[k[2]].events)
                      \o From(k, exitCh) \o From(k, ch)
Selected(k) ==
    /\ From(k, batch.events) \in Seq(Reports) /\ From(k, queuePool[k[2]].events) \in Seq(Reports)
    /\ From(k, exitCh) \in Seq(Reports) /\ From(k, ch) \in Seq(Reports)

\* What is pending of one key is in the four places.
LEMMA PendingParts == Places => \A k \in Keys : PendingOf(k) /\ Selected(k)
<1> SUFFICES ASSUME Places, NEW k \in Keys PROVE PendingOf(k) /\ Selected(k)
  BY Zenon
<1>1. k[2] \in Objects
  BY Zenon DEF Keys
<1> DEFINE b == batch.events
           q == queuePool[k[2]].events
<1>2. b \in Seq(Reports) /\ q \in Seq(Reports) /\ exitCh \in Seq(Reports) /\ ch \in Seq(Reports)
  BY <1>1, Zenon DEF Places
<1>3. Pending(k) = From(k, b \o q \o exitCh \o ch)
  BY Zenon DEF Pending
<1> HIDE DEF b, q
<1>4. SplitsFour(k, b, q, exitCh, ch)
  BY <1>2, FromFour, Zenon
<1>5. PendingOf(k)
  BY <1>3, <1>4, Zenon DEF PendingOf, SplitsFour, b, q
<1>6. Selected(k)
  BY <1>2, FromType, Zenon DEF Selected, b, q
<1> QED BY <1>5, <1>6, Zenon

\* So it is in the next state.
LEMMA PendingPartsPrime == Places' => (\A k \in Keys : PendingOf(k) /\ Selected(k))'
  BY PendingParts, PTL

-----------------------------------------------------------------------------
(* Events that are received *)

\* The key of an event.
LEMMA KeyOf ==
    \A e \in Event : /\ <<e.src, e.id>> \in Keys /\ e \in Reports /\ e.id \in Objects
                     /\ \A k \in Keys : Of(k, e) <=> k = <<e.src, e.id>>
  BY Zenon DEF Event, Keys, Sources, Of, Reports

\* A foreign event is of no key.
LEMMA ForeignOf == ASSUME EventConstants PROVE \A k \in Keys : ~ Of(k, Foreign)
  BY DEF EventConstants, Foreign, Of, Keys

\* enBackOff puts an event behind those of its object.
LEMMA EnBackOffEffect ==
    ASSUME EventConstants, QueueInv, NEW e \in Event, enBackOff(e)
    PROVE  /\ queuePool' \in [Objects -> BackOffQueue]
           /\ queuePool'[e.id].events = Append(queuePool[e.id].events, e)
           /\ \A i \in Objects : i # e.id => queuePool'[i] = queuePool[i]
           /\ \A i \in Objects : queuePool'[i].events \in Seq(EventsOf(i))
<1> DEFINE q == queuePool[e.id]
           new == IF isInBackOff(e.id) THEN [q EXCEPT !.events = Append(q.events, e)]
                                         ELSE newBackOffQueue(<<e>>, MinDuration)
<1>1. e.id \in Objects /\ e \in EventsOf(e.id)
  BY KeyOf, Zenon DEF EventsOf
<1>2. q \in BackOffQueue /\ q.events \in Seq(EventsOf(e.id)) /\ queuePool \in [Objects -> BackOffQueue]
  BY <1>1, Zenon DEF QueueInv
<1>3. Append(q.events, e) \in Seq(Event) /\ Append(q.events, e) \in Seq(EventsOf(e.id))
  BY <1>1, <1>2 DEF BackOffQueue
<1>4. new \in BackOffQueue /\ new.events = Append(q.events, e)
  <2>1. CASE isInBackOff(e.id)
    BY <1>2, <1>3, <2>1, Zenon DEF BackOffQueue
  <2>2. CASE ~ isInBackOff(e.id)
    <3>1. q.events = <<>> /\ Append(<<>>, e) = <<e>>
      BY <2>2 DEF isInBackOff
    <3>2. new = [events |-> Append(q.events, e), duration |-> MinDuration, left |-> MinDuration]
      BY <2>2, <3>1, Zenon DEF newBackOffQueue
    <3> HIDE DEF new, q
    <3> QED BY <1>3, <3>2 DEF BackOffQueue, EventConstants
  <2> QED BY <2>1, <2>2, Zenon
<1>5. queuePool' = [queuePool EXCEPT ![e.id] = new]
  <2>1. CASE isInBackOff(e.id)
    BY <1>2, <2>1, Zenon DEF enBackOff
  <2>2. CASE ~ isInBackOff(e.id)
    BY <1>2, <2>2, Zenon DEF enBackOff
  <2> QED BY <2>1, <2>2, Zenon
<1> HIDE DEF new
<1>6. queuePool' \in [Objects -> BackOffQueue] /\ queuePool'[e.id] = new
  BY <1>1, <1>2, <1>4, <1>5, Zenon
<1>7. \A i \in Objects : i # e.id => queuePool'[i] = queuePool[i]
  BY <1>1, <1>2, <1>5, Zenon
<1>8. \A i \in Objects : queuePool'[i].events \in Seq(EventsOf(i))
  BY <1>3, <1>4, <1>6, <1>7, Zenon DEF QueueInv
<1> QED BY <1>4, <1>6, <1>7, <1>8, Zenon

\* So it is selected last of those.
LEMMA EnBackOffSelected ==
    ASSUME EventConstants, QueueInv, NEW e \in Event, enBackOff(e), NEW k \in Keys
    PROVE  From(k, queuePool'[k[2]].events) =
              IF Of(k, e) THEN Append(From(k, queuePool[k[2]].events), e)
                            ELSE From(k, queuePool[k[2]].events)
<1>1. k[2] \in Objects /\ (Of(k, e) => k[2] = e.id)
  BY KeyOf DEF Keys, Of
<1>2. CASE k[2] = e.id
  <2> DEFINE q == queuePool[e.id].events
  <2>1. q \in Seq(Event) /\ queuePool'[e.id].events = Append(q, e)
    BY <1>1, <1>2, EnBackOffEffect, Zenon DEF QueueInv, BackOffQueue
  <2> HIDE DEF q
  <2>2. From(k, Append(q, e)) = IF Of(k, e) THEN Append(From(k, q), e) ELSE From(k, q)
    BY <2>1, FromAppend, ZenonT(60)
  <2> QED BY <1>2, <2>1, <2>2, Zenon DEF q
<1>3. CASE k[2] # e.id
  BY <1>1, <1>3, EnBackOffEffect, Zenon
<1> QED BY <1>2, <1>3, Zenon

\* What is selected of each place.
Retried(k) == From(k, batch.events)
Queued(k) == From(k, queuePool[k[2]].events)
Exits(k) == From(k, exitCh)
Published(k) == From(k, ch)

\* What is pending before and after a step, place by place.
LEMMA Parts ==
    ASSUME QueueInv, QueueInv', NEW k \in Keys
    PROVE  /\ Pending(k) = Joined(Retried(k), Queued(k), Exits(k), Published(k))
           /\ Pending(k)' = Joined(Retried(k)', Queued(k)', Exits(k)', Published(k)')
           /\ Retried(k) \in Seq(Reports) /\ Queued(k) \in Seq(Reports)
           /\ Exits(k) \in Seq(Reports) /\ Published(k) \in Seq(Reports)
           /\ Retried(k)' \in Seq(Reports) /\ Queued(k)' \in Seq(Reports)
           /\ Exits(k)' \in Seq(Reports) /\ Published(k)' \in Seq(Reports)
<1>1. PendingOf(k) /\ Selected(k)
  BY PlacesHold, PendingParts, Zenon
<1>2. (PendingOf(k) /\ Selected(k))'
  BY PlacesHoldPrime, PendingPartsPrime, Zenon
<1> QED BY <1>1, <1>2, Zenon DEF PendingOf, Selected, Joined, Retried, Queued, Exits, Published

\* An exit event is handled, or put behind the others of its object.
LEMMA ReceiveExitStep == ASSUME EventConstants, QueueInv, ReceiveExit PROVE QueueInv' /\ Effect
<1> DEFINE e == Head(exitCh)
<1>1. /\ exitCh \in Seq(ExitReports) /\ exitCh # <<>> /\ exitCh' = Tail(exitCh)
      /\ exitCh' \in Seq(ExitReports) /\ e \in ExitReports
  BY DEF ReceiveExit, QueueInv
<1>2. e \in Event /\ e.src = "exit"
  BY <1>1, Zenon DEF ExitReports
<1>3. /\ batch = NoBatch /\ batch' = NoBatch /\ expired' = {} /\ ch' = ch /\ reported' = reported
      /\ \/ enBackOff(e)
         \/ ~ isInBackOff(e.id) /\ queuePool' = queuePool
  BY Zenon DEF ReceiveExit, Idle, Receive
<1> HIDE DEF e
<1>4. QueueInv'
  <2>1. queuePool' \in [Objects -> BackOffQueue] /\ \A i \in Objects : queuePool'[i].events \in Seq(EventsOf(i))
    BY <1>2, <1>3, EnBackOffEffect, Zenon DEF QueueInv
  <2> QED BY <1>1, <1>3, <2>1, Zenon DEF QueueInv
<1>5. \A k \in Keys : /\ Retried(k)' = Retried(k) /\ Published(k)' = Published(k)
                      /\ Exits(k) = IF Of(k, e) THEN <<e>> \o Exits(k)' ELSE Exits(k)'
  <2> TAKE k \in Keys
  <2>1. Retried(k)' = Retried(k) /\ Published(k)' = Published(k)
    BY <1>3, Zenon DEF Retried, Published
  <2>2. From(k, exitCh) = IF Of(k, e) THEN <<e>> \o From(k, Tail(exitCh)) ELSE From(k, Tail(exitCh))
    BY <1>1, FromHead, Zenon DEF e
  <2>3. Exits(k)' = From(k, Tail(exitCh))
    BY <1>1, Zenon DEF Exits
  <2> QED BY <2>1, <2>2, <2>3, Zenon DEF Exits
<1>6. CASE enBackOff(e)
  <2>1. ASSUME NEW k \in Keys PROVE Pending(k)' = Pending(k)
    <3>1. Queued(k)' = IF Of(k, e) THEN Append(Queued(k), e) ELSE Queued(k)
      BY <1>2, <1>6, EnBackOffSelected, Zenon DEF Queued
    <3>2. e \in Reports
      BY <1>2, KeyOf, Zenon
    <3>3. CASE Of(k, e)
      <4>1. Joined(Retried(k), Append(Queued(k), e), Exits(k)', Published(k))
            = Joined(Retried(k), Queued(k), <<e>> \o Exits(k)', Published(k))
        <5>1. /\ Retried(k) \in Seq(Reports) /\ Queued(k) \in Seq(Reports) /\ Exits(k)' \in Seq(Reports)
              /\ Published(k) \in Seq(Reports)
          BY <1>4, Parts, Zenon
        <5> QED BY <3>2, <5>1, MovedFromThird
      <4> QED BY <1>4, <1>5, <3>1, <3>3, <4>1, Parts, Zenon
    <3>4. CASE ~ Of(k, e)
      BY <1>4, <1>5, <3>1, <3>4, Parts, Zenon
    <3> QED BY <3>3, <3>4, Zenon
  <2> QED BY <1>4, <2>1, Zenon DEF Effect, Same
<1>7. CASE ~ isInBackOff(e.id) /\ queuePool' = queuePool
  <2>1. PICK k0 \in Keys : k0[2] = e.id /\ e \in Reports /\ \A k \in Keys : Of(k, e) <=> k = k0
    BY <1>2, KeyOf, Zenon
  <2>2. \A k \in Keys : Queued(k)' = Queued(k)
    BY <1>7, Zenon DEF Queued
  <2>3. Retried(k0) = <<>> /\ Queued(k0) = <<>>
    BY <1>3, <1>7, <2>1, FromEmpty, Zenon DEF Retried, Queued, NoBatch, isInBackOff
  <2>4. TailIs(Joined(<<>>, <<>>, <<e>> \o Exits(k0)', Published(k0)), Joined(<<>>, <<>>, Exits(k0)', Published(k0)))
    <3>1. Exits(k0)' \in Seq(Reports) /\ Published(k0) \in Seq(Reports) /\ <<>> \in Seq(Reports)
      BY <1>4, <2>1, Parts
    <3> QED BY <2>1, <3>1, TakenFromThird, Zenon
  <2>5. Pending(k0) # <<>> /\ Pending(k0)' = Tail(Pending(k0))
    <3>1. /\ Pending(k0) = Joined(<<>>, <<>>, <<e>> \o Exits(k0)', Published(k0))
          /\ Pending(k0)' = Joined(<<>>, <<>>, Exits(k0)', Published(k0))
      BY <1>4, <1>5, <2>1, <2>2, <2>3, Parts, Zenon
    <3> QED BY <2>4, <3>1, Zenon DEF TailIs
  <2>6. SameBut(k0)
    BY <1>4, <1>5, <2>1, <2>2, Parts, Zenon DEF SameBut
  <2> QED BY <1>4, <2>1, <2>5, <2>6, Zenon DEF Effect, Handled
<1> QED BY <1>3, <1>6, <1>7, Zenon

\* The channels have no events of the other source.
LEMMA OtherSource ==
    ASSUME QueueInv, NEW k \in Keys
    PROVE  (k[1] = "containerd" => Exits(k) = <<>>) /\ (k[1] = "exit" => Published(k) = <<>>)
<1>1. ASSUME k[1] = "containerd" PROVE Exits(k) = <<>>
  <2>1. exitCh \in Seq(ExitReports) /\ \A e \in ExitReports : ~ Of(k, e)
    BY <1>1 DEF QueueInv, ExitReports, Of
  <2> QED BY <2>1, FromNone, Zenon DEF Exits
<1>2. ASSUME k[1] = "exit" PROVE Published(k) = <<>>
  <2>1. ch \in Seq(PublishedReports) /\ \A e \in PublishedReports : ~ Of(k, e)
    BY <1>2 DEF QueueInv, PublishedReports, Foreign, Of
  <2> QED BY <2>1, FromNone, Zenon DEF Published
<1> QED BY <1>1, <1>2, Zenon

\* An event of containerd is handled, put behind the others of its object, or ignored.
LEMMA ReceiveEventStep == ASSUME EventConstants, QueueInv, ReceiveEvent PROVE QueueInv' /\ Effect
<1> DEFINE e == Head(ch)
<1>1. /\ ch \in Seq(PublishedReports) /\ ch # <<>> /\ ch' = Tail(ch)
      /\ ch' \in Seq(PublishedReports) /\ e \in PublishedReports
  BY DEF ReceiveEvent, QueueInv
<1>2. /\ batch = NoBatch /\ batch' = NoBatch /\ expired' = {} /\ exitCh' = exitCh
      /\ reported' = reported
      /\ \/ e = Foreign /\ queuePool' = queuePool
         \/ e # Foreign /\ enBackOff(e)
         \/ e # Foreign /\ ~ isInBackOff(e.id) /\ queuePool' = queuePool
  BY Zenon DEF ReceiveEvent, Idle, Receive
<1> HIDE DEF e
<1>3. e # Foreign => e \in Event /\ e.src = "containerd"
  BY <1>1, Zenon DEF PublishedReports
<1>4. QueueInv'
  <2>1. queuePool' \in [Objects -> BackOffQueue] /\ \A i \in Objects : queuePool'[i].events \in Seq(EventsOf(i))
    BY <1>2, <1>3, EnBackOffEffect, Zenon DEF QueueInv
  <2> QED BY <1>1, <1>2, <2>1, Zenon DEF QueueInv
<1>5. \A k \in Keys : /\ Retried(k)' = Retried(k) /\ Exits(k)' = Exits(k)
                      /\ Published(k) = IF Of(k, e) THEN <<e>> \o Published(k)' ELSE Published(k)'
  <2> TAKE k \in Keys
  <2>1. Retried(k)' = Retried(k) /\ Exits(k)' = Exits(k)
    BY <1>2, Zenon DEF Retried, Exits
  <2>2. From(k, ch) = IF Of(k, e) THEN <<e>> \o From(k, Tail(ch)) ELSE From(k, Tail(ch))
    BY <1>1, FromHead, Zenon DEF e
  <2>3. Published(k)' = From(k, Tail(ch))
    BY <1>1, Zenon DEF Published
  <2> QED BY <2>1, <2>2, <2>3, Zenon DEF Published
<1>6. CASE e = Foreign /\ queuePool' = queuePool
  <2>1. ASSUME NEW k \in Keys PROVE Pending(k)' = Pending(k)
    <3>1. Queued(k)' = Queued(k) /\ ~ Of(k, e)
      BY <1>6, ForeignOf, Zenon DEF Queued
    <3> QED BY <1>4, <1>5, <3>1, Parts, Zenon
  <2> QED BY <1>4, <2>1, Zenon DEF Effect, Same
<1>7. CASE e # Foreign /\ enBackOff(e)
  <2>1. ASSUME NEW k \in Keys PROVE Pending(k)' = Pending(k)
    <3>1. Queued(k)' = IF Of(k, e) THEN Append(Queued(k), e) ELSE Queued(k)
      BY <1>3, <1>7, EnBackOffSelected, Zenon DEF Queued
    <3>2. e \in Reports
      BY <1>3, <1>7, KeyOf, Zenon
    <3>3. CASE Of(k, e)
      <4>1. Joined(Retried(k), Append(Queued(k), e), <<>>, Published(k)')
            = Joined(Retried(k), Queued(k), <<>>, <<e>> \o Published(k)')
        <5>1. Retried(k) \in Seq(Reports) /\ Queued(k) \in Seq(Reports) /\ Published(k)' \in Seq(Reports)
          BY <1>4, Parts, Zenon
        <5> QED BY <3>2, <5>1, MovedFromFourth
      <4>2. Exits(k) = <<>>
        BY <1>3, <1>7, <3>3, OtherSource, Zenon DEF Of
      <4> QED BY <1>4, <1>5, <3>1, <3>3, <4>1, <4>2, Parts, Zenon
    <3>4. CASE ~ Of(k, e)
      BY <1>4, <1>5, <3>1, <3>4, Parts, Zenon
    <3> QED BY <3>3, <3>4, Zenon
  <2> QED BY <1>4, <2>1, Zenon DEF Effect, Same
<1>8. CASE e # Foreign /\ ~ isInBackOff(e.id) /\ queuePool' = queuePool
  <2>1. PICK k0 \in Keys : /\ k0[1] = e.src /\ k0[2] = e.id /\ e \in Reports
                           /\ \A k \in Keys : Of(k, e) <=> k = k0
    BY <1>3, <1>8, KeyOf, Zenon
  <2>2. \A k \in Keys : Queued(k)' = Queued(k)
    BY <1>8, Zenon DEF Queued
  <2>3. Retried(k0) = <<>> /\ Queued(k0) = <<>> /\ Exits(k0) = <<>>
    <3>1. Retried(k0) = <<>> /\ Queued(k0) = <<>>
      BY <1>2, <1>8, <2>1, FromEmpty, Zenon DEF Retried, Queued, NoBatch, isInBackOff
    <3> QED BY <1>3, <1>8, <2>1, <3>1, OtherSource, Zenon
  <2>4. TailIs(Joined(<<>>, <<>>, <<>>, <<e>> \o Published(k0)'), Joined(<<>>, <<>>, <<>>, Published(k0)'))
    <3>1. Published(k0)' \in Seq(Reports)
      BY <1>4, <2>1, Parts, Zenon
    <3> QED BY <2>1, <3>1, TakenFromFourth, Zenon
  <2>5. Pending(k0) # <<>> /\ Pending(k0)' = Tail(Pending(k0))
    <3>1. /\ Pending(k0) = Joined(<<>>, <<>>, <<>>, <<e>> \o Published(k0)')
          /\ Pending(k0)' = Joined(<<>>, <<>>, <<>>, Published(k0)')
      BY <1>4, <1>5, <2>1, <2>2, <2>3, Parts, Zenon
    <3> QED BY <2>4, <3>1, Zenon DEF TailIs
  <2>6. SameBut(k0)
    BY <1>4, <1>5, <2>1, <2>2, Parts, Zenon DEF SameBut
  <2> QED BY <1>4, <2>1, <2>5, <2>6, Zenon DEF Effect, Handled
<1> QED BY <1>2, <1>6, <1>7, <1>8, Zenon

-----------------------------------------------------------------------------
(* Events that are retried *)

\* Events of one object are of no key of another.
LEMMA OtherObject ==
    ASSUME NEW i, NEW es \in Seq(EventsOf(i)), NEW k \in Keys, k[2] # i
    PROVE  From(k, es) = <<>>
<1>1. \A e \in EventsOf(i) : ~ Of(k, e)
  BY DEF EventsOf, Of
<1> QED BY <1>1, FromNone, Zenon

\* deBackOff takes the queue of an object out of the pool.
LEMMA DeBackOffStep ==
    ASSUME EventConstants, QueueInv, NEW i \in Objects, deBackOff(i) PROVE QueueInv' /\ Effect
<1> DEFINE es == queuePool[i].events
<1>1. /\ batch = NoBatch /\ i \in expired /\ expired' = expired \ {i}
      /\ batch' = [id |-> i, events |-> es, duration |-> queuePool[i].duration]
      /\ queuePool' = [queuePool EXCEPT ![i] = NoQueue]
      /\ exitCh' = exitCh /\ ch' = ch /\ reported' = reported
  BY Zenon DEF deBackOff
<1>2. /\ es \in Seq(Event) /\ es \in Seq(EventsOf(i)) /\ es # <<>> /\ queuePool[i].duration \in Int
      /\ queuePool \in [Objects -> BackOffQueue]
  BY <1>1, Zenon DEF QueueInv, BackOffQueue, isInBackOff
<1>3. NoQueue \in BackOffQueue /\ NoQueue.events = <<>>
  BY DEF NoQueue, BackOffQueue
<1>4. /\ queuePool' \in [Objects -> BackOffQueue] /\ queuePool'[i].events = <<>>
      /\ \A j \in Objects : j # i => queuePool'[j] = queuePool[j]
  BY <1>1, <1>2, <1>3, Zenon
<1>5. batch'.events = es /\ batch'.id = i /\ batch.events = <<>>
      /\ batch' \in [id : Objects, events : Seq(Event), duration : Int]
  BY <1>1, <1>2, Zenon DEF NoBatch
<1> HIDE DEF es
<1>6. QueueInv'
  <2>1. ASSUME NEW j \in Objects PROVE queuePool'[j].events \in Seq(EventsOf(j))
    <3>1. CASE j = i
      <4>1. <<>> \in Seq(EventsOf(j))
        BY Empty, Zenon
      <4> QED BY <1>4, <3>1, <4>1, Zenon
    <3>2. CASE j # i
      BY <1>4, <3>2, Zenon DEF QueueInv
    <3> QED BY <3>1, <3>2, Zenon
  <2>2. expired' \subseteq Objects /\ \A j \in expired' : isInBackOff(j)'
    BY <1>1, <1>4, Zenon DEF QueueInv, isInBackOff
  <2> QED BY <1>1, <1>2, <1>4, <1>5, <2>1, <2>2, Zenon DEF QueueInv
<1>7. ASSUME NEW k \in Keys PROVE Pending(k)' = Pending(k)
  <2>1. k[2] \in Objects /\ Exits(k)' = Exits(k) /\ Published(k)' = Published(k) /\ Retried(k) = <<>>
    <3>1. k[2] \in Objects
      BY Zenon DEF Keys
    <3>2. Exits(k)' = Exits(k) /\ Published(k)' = Published(k)
      BY <1>1, Zenon DEF Exits, Published
    <3>3. Retried(k) = <<>>
      BY <1>5, FromEmpty, Zenon DEF Retried
    <3> QED BY <3>1, <3>2, <3>3, Zenon
  <2>2. CASE k[2] = i
    <3>1. Retried(k)' = Queued(k) /\ Queued(k)' = <<>>
      BY <1>4, <1>5, <2>2, FromEmpty, Zenon DEF Retried, Queued, es
    <3>2. Joined(<<>>, Queued(k), Exits(k), Published(k)) = Joined(Queued(k), <<>>, Exits(k), Published(k))
      BY <1>6, Parts, MovedFromFirst
    <3> QED BY <1>6, <2>1, <3>1, <3>2, Parts, Zenon
  <2>3. CASE k[2] # i
    <3>1. Queued(k)' = Queued(k)
      BY <1>4, <2>1, <2>3, Zenon DEF Queued
    <3>2. Retried(k)' = <<>>
      BY <1>2, <1>5, <2>3, OtherObject, Zenon DEF Retried
    <3> QED BY <1>6, <2>1, <3>1, <3>2, Parts, Zenon
  <2> QED BY <2>2, <2>3, Zenon
<1> QED BY <1>6, <1>7, Zenon DEF Effect, Same

\* The handler of the first event of the batch succeeds.
LEMMA RetrySucceeds ==
    ASSUME EventConstants, QueueInv, batch # NoBatch,
           batch' = IF Len(batch.events) = 1 THEN NoBatch ELSE [batch EXCEPT !.events = Tail(@)],
           UNCHANGED <<exitCh, ch, queuePool, expired, reported>>
    PROVE  QueueInv' /\ Effect
<1> DEFINE es == batch.events
           e == Head(es)
<1>1. /\ batch \in [id : Objects, events : Seq(Event), duration : Int] /\ batch.id \in Objects
      /\ es \in Seq(Event) /\ es \in Seq(EventsOf(batch.id)) /\ es # <<>>
      /\ queuePool[batch.id].events = <<>>
  BY Zenon DEF QueueInv
<1>2. e \in Event /\ Tail(es) \in Seq(Event) /\ Tail(es) \in Seq(EventsOf(batch.id))
      /\ (Len(es) = 1 => Tail(es) = <<>>) /\ (Len(es) # 1 => Tail(es) # <<>>)
  <2> HIDE DEF es
  <2>1. /\ Head(es) \in Event /\ Tail(es) \in Seq(Event) /\ Tail(es) \in Seq(EventsOf(batch.id))
        /\ Len(Tail(es)) = Len(es) - 1 /\ Len(es) \in Nat
    BY <1>1, HeadAndTail
  <2>2. Len(Tail(es)) = 0 <=> Tail(es) = <<>>
    BY <2>1, Empty, Zenon
  <2> QED BY <2>1, <2>2
<1>3. /\ batch'.events = Tail(es)
      /\ Len(es) # 1 => /\ batch' \in [id : Objects, events : Seq(Event), duration : Int]
                        /\ batch'.id = batch.id
  <2>1. CASE Len(es) = 1
    BY <1>2, <2>1, Zenon DEF NoBatch
  <2>2. CASE Len(es) # 1
    BY <1>1, <1>2, <2>2, Zenon
  <2> QED BY <2>1, <2>2, Zenon
<1> HIDE DEF e, es
<1>4. QueueInv'
  <2>1. batch' # NoBatch =>
           /\ batch' \in [id : Objects, events : Seq(Event), duration : Int]
           /\ batch'.events \in Seq(EventsOf(batch'.id)) /\ batch'.events # <<>>
           /\ queuePool'[batch'.id].events = <<>>
    BY <1>1, <1>2, <1>3, Zenon DEF es
  <2> QED BY <2>1, Zenon DEF QueueInv, isInBackOff
<1>5. PICK k0 \in Keys : e \in Reports /\ \A k \in Keys : Of(k, e) <=> k = k0
  BY <1>2, KeyOf, Zenon
<1>6. \A k \in Keys : /\ Queued(k)' = Queued(k) /\ Exits(k)' = Exits(k) /\ Published(k)' = Published(k)
                      /\ Retried(k) = IF Of(k, e) THEN <<e>> \o Retried(k)' ELSE Retried(k)'
  <2> TAKE k \in Keys
  <2>1. Queued(k)' = Queued(k) /\ Exits(k)' = Exits(k) /\ Published(k)' = Published(k)
    BY Zenon DEF Queued, Exits, Published
  <2>2. From(k, es) = IF Of(k, e) THEN <<e>> \o From(k, Tail(es)) ELSE From(k, Tail(es))
    BY <1>1, FromHead, Zenon DEF e
  <2>3. Retried(k)' = From(k, Tail(es)) /\ Retried(k) = From(k, es)
    BY <1>3, Zenon DEF Retried, es
  <2> QED BY <2>1, <2>2, <2>3, Zenon
<1>7. TailIs(Joined(<<e>> \o Retried(k0)', Queued(k0), Exits(k0), Published(k0)),
             Joined(Retried(k0)', Queued(k0), Exits(k0), Published(k0)))
  <2>1. /\ Retried(k0)' \in Seq(Reports) /\ Queued(k0) \in Seq(Reports) /\ Exits(k0) \in Seq(Reports)
        /\ Published(k0) \in Seq(Reports)
    BY <1>4, Parts, Zenon
  <2> QED BY <1>5, <2>1, TakenFromFirst, Zenon
<1>8. Pending(k0) # <<>> /\ Pending(k0)' = Tail(Pending(k0))
  <2>1. /\ Pending(k0) = Joined(<<e>> \o Retried(k0)', Queued(k0), Exits(k0), Published(k0))
        /\ Pending(k0)' = Joined(Retried(k0)', Queued(k0), Exits(k0), Published(k0))
    BY <1>4, <1>5, <1>6, Parts, Zenon
  <2> QED BY <1>7, <2>1, Zenon DEF TailIs
<1>9. SameBut(k0)
  BY <1>4, <1>5, <1>6, Parts, Zenon DEF SameBut
<1> QED BY <1>4, <1>5, <1>8, <1>9, Zenon DEF Effect, Handled

\* The handler of the first event of the batch fails: the batch is the object's queue again.
LEMMA RetryFails ==
    ASSUME EventConstants, QueueInv, batch # NoBatch,
           reBackOff(batch.id, batch.events, batch.duration), batch' = NoBatch,
           UNCHANGED <<exitCh, ch, expired, reported>>
    PROVE  QueueInv' /\ Effect
<1> DEFINE es == batch.events
           i == batch.id
           d == IF 2 * batch.duration > MaxDuration THEN MaxDuration ELSE 2 * batch.duration
           new == newBackOffQueue(es, d)
<1>1. /\ i \in Objects /\ es \in Seq(Event) /\ es \in Seq(EventsOf(i)) /\ es # <<>>
      /\ batch.duration \in Int /\ queuePool[i].events = <<>> /\ queuePool \in [Objects -> BackOffQueue]
  BY Zenon DEF QueueInv
<1>2. d \in Int
  BY <1>1 DEF EventConstants
<1>3. queuePool' = [queuePool EXCEPT ![i] = new]
  BY Zenon DEF reBackOff
<1> HIDE DEF d, i, es
<1>4. new \in BackOffQueue /\ new.events = es
  BY <1>1, <1>2, Zenon DEF newBackOffQueue, BackOffQueue
<1> HIDE DEF new
<1>5. /\ queuePool' \in [Objects -> BackOffQueue] /\ queuePool'[i] = new
      /\ \A j \in Objects : j # i => queuePool'[j] = queuePool[j]
  BY <1>1, <1>3, <1>4, Zenon
<1>6. QueueInv'
  <2>1. \A j \in Objects : queuePool'[j].events \in Seq(EventsOf(j))
    BY <1>1, <1>4, <1>5, Zenon DEF QueueInv
  <2>2. \A j \in expired' : isInBackOff(j)'
    BY <1>1, <1>4, <1>5, Zenon DEF QueueInv, isInBackOff
  <2> QED BY <1>5, <2>1, <2>2, Zenon DEF QueueInv
<1>7. ASSUME NEW k \in Keys PROVE Pending(k)' = Pending(k)
  <2>1. k[2] \in Objects
    BY Zenon DEF Keys
  <2>2. Exits(k)' = Exits(k) /\ Published(k)' = Published(k)
    BY Zenon DEF Exits, Published
  <2>3. Retried(k)' = <<>>
    BY FromEmpty, Zenon DEF Retried, NoBatch
  <2>4. CASE k[2] = i
    <3>1. Queued(k)' = Retried(k) /\ Queued(k) = <<>>
      BY <1>1, <1>4, <1>5, <2>4, FromEmpty, Zenon DEF Retried, Queued, es
    <3>2. Joined(<<>>, Retried(k), Exits(k), Published(k)) = Joined(Retried(k), <<>>, Exits(k), Published(k))
      BY <1>6, Parts, MovedFromFirst, Zenon
    <3> QED BY <1>6, <2>2, <2>3, <3>1, <3>2, Parts, Zenon
  <2>5. CASE k[2] # i
    <3>1. Queued(k)' = Queued(k)
      BY <1>5, <2>1, <2>5, Zenon DEF Queued
    <3>2. Retried(k) = <<>>
      BY <1>1, <2>5, OtherObject, Zenon DEF Retried, es
    <3> QED BY <1>6, <2>2, <2>3, <3>1, <3>2, Parts, Zenon
  <2> QED BY <2>4, <2>5, Zenon
<1> QED BY <1>6, <1>7, Zenon DEF Effect, Same

\* One event of a queue is retried, and succeeds or fails.
LEMMA RetryStep == ASSUME EventConstants, QueueInv, Retry PROVE QueueInv' /\ Effect
  BY RetrySucceeds, RetryFails, Zenon DEF Retry

-----------------------------------------------------------------------------
(* Events that are reported, and the other steps *)

\* The event that is reported.
LEMMA ReportedEvent ==
    ASSUME EventConstants, QueueInv, Report, NEW i \in Objects, NEW src \in Sources
    PROVE  /\ Reported(src, i) \in Event /\ Reported(src, i).src = src
           /\ reported' \in Nat
           /\ \A k \in Keys : Of(k, Reported(src, i)) <=> k = <<src, i>>
<1>1. reported + 1 \in 1 .. MaxReports /\ reported' \in Nat
  BY DEF Report, EventConstants, QueueInv
<1>2. Reported(src, i) \in Event /\ Reported(src, i).src = src /\ Reported(src, i).id = i
  BY <1>1, Zenon DEF Reported, Event
<1> QED BY <1>1, <1>2, Zenon DEF Of

\* An exit monitor reports.
LEMMA ExitReportedStep ==
    ASSUME EventConstants, QueueInv, NEW i \in Objects, ExitReported(i) PROVE QueueInv' /\ Effect
<1> DEFINE e == Reported("exit", i)
           k0 == <<"exit", i>>
<1>1. /\ Report /\ exitCh' = Append(exitCh, e) /\ ch' = ch /\ queuePool' = queuePool
      /\ expired' = expired /\ batch' = batch
  BY Zenon DEF ExitReported
<1>2. /\ e \in Event /\ e.src = "exit" /\ reported' \in Nat
      /\ \A k \in Keys : Of(k, e) <=> k = k0
  BY <1>1, ReportedEvent, Zenon DEF Sources
<1>3. k0 \in Keys /\ k0[1] = "exit" /\ e \in Reports
  BY <1>2, Zenon DEF Keys, Sources, Reports
<1> HIDE DEF e, k0
<1>4. exitCh \in Seq(ExitReports) /\ e \in ExitReports /\ exitCh' \in Seq(ExitReports)
  BY <1>1, <1>2 DEF QueueInv, ExitReports
<1>5. QueueInv'
  BY <1>1, <1>2, <1>4, Zenon DEF QueueInv, isInBackOff
<1>6. \A k \in Keys : /\ Retried(k)' = Retried(k) /\ Queued(k)' = Queued(k) /\ Published(k)' = Published(k)
                      /\ Exits(k)' = IF Of(k, e) THEN Append(Exits(k), e) ELSE Exits(k)
  <2> TAKE k \in Keys
  <2>1. Retried(k)' = Retried(k) /\ Queued(k)' = Queued(k) /\ Published(k)' = Published(k)
    BY <1>1, Zenon DEF Retried, Queued, Published
  <2>2. From(k, Append(exitCh, e)) =
           IF Of(k, e) THEN Append(From(k, exitCh), e) ELSE From(k, exitCh)
    BY <1>4, FromAppend, ZenonT(60)
  <2>3. Exits(k)' = From(k, Append(exitCh, e))
    BY <1>1, Zenon DEF Exits
  <2> QED BY <2>1, <2>2, <2>3, Zenon DEF Exits
<1>7. Pending(k0)' = Append(Pending(k0), e)
  <2>1. Published(k0) = <<>>
    BY <1>3, OtherSource, Zenon
  <2>2. Joined(Retried(k0), Queued(k0), Append(Exits(k0), e), <<>>)
        = Append(Joined(Retried(k0), Queued(k0), Exits(k0), <<>>), e)
    <3>1. Retried(k0) \in Seq(Reports) /\ Queued(k0) \in Seq(Reports) /\ Exits(k0) \in Seq(Reports)
      BY <1>3, <1>5, Parts, Zenon
    <3> QED BY <1>3, <3>1, AddedToThird
  <2> QED BY <1>2, <1>3, <1>5, <1>6, <2>1, <2>2, Parts, Zenon
<1>8. SameBut(k0)
  BY <1>2, <1>5, <1>6, Parts, Zenon DEF SameBut
<1> QED BY <1>2, <1>3, <1>5, <1>7, <1>8, Zenon DEF Effect, Arrived

\* containerd publishes, perhaps after an event that is not the plugin's.
LEMMA ContainerdPublishesStep ==
    ASSUME EventConstants, QueueInv, NEW i \in Objects, ContainerdPublishes(i)
    PROVE  QueueInv' /\ Effect
<1> DEFINE e == Reported("containerd", i)
           k0 == <<"containerd", i>>
<1>1. /\ Report /\ exitCh' = exitCh /\ queuePool' = queuePool /\ expired' = expired /\ batch' = batch
      /\ ch' = Append(ch, e) \/ ch' = ch \o <<Foreign, e>>
  BY Zenon DEF ContainerdPublishes
<1>2. /\ e \in Event /\ e.src = "containerd" /\ reported' \in Nat
      /\ \A k \in Keys : Of(k, e) <=> k = k0
  BY <1>1, ReportedEvent, Zenon DEF Sources
<1>3. k0 \in Keys /\ e \in Reports
  BY <1>2, Zenon DEF Keys, Sources, Reports
<1> HIDE DEF e, k0
<1>4. ch \in Seq(PublishedReports) /\ e \in PublishedReports /\ Foreign \in PublishedReports
  BY <1>2, Zenon DEF QueueInv, PublishedReports
<1>5. PICK c \in {ch, Append(ch, Foreign)} : ch' = Append(c, e)
  <2>1. ASSUME NEW f \in PublishedReports PROVE ch \o <<f, e>> = Append(Append(ch, f), e)
    BY <1>4
  <2> QED BY <1>1, <1>4, <2>1, Zenon
<1>6. c \in Seq(PublishedReports) /\ ch' \in Seq(PublishedReports)
  BY <1>4, <1>5, SMTT(60)
<1>7. QueueInv'
  BY <1>1, <1>2, <1>6, Zenon DEF QueueInv, isInBackOff
<1>8. \A k \in Keys : /\ Retried(k)' = Retried(k) /\ Queued(k)' = Queued(k) /\ Exits(k)' = Exits(k)
                      /\ Published(k)' = IF Of(k, e) THEN Append(Published(k), e) ELSE Published(k)
  <2> TAKE k \in Keys
  <2>1. Retried(k)' = Retried(k) /\ Queued(k)' = Queued(k) /\ Exits(k)' = Exits(k)
    BY <1>1, Zenon DEF Retried, Queued, Exits
  <2>2. From(k, c) = From(k, ch)
    <3>1. From(k, Append(ch, Foreign)) =
             IF Of(k, Foreign) THEN Append(From(k, ch), Foreign) ELSE From(k, ch)
      BY <1>4, FromAppend, ZenonT(60)
    <3> QED BY <1>5, <3>1, ForeignOf, Zenon
  <2>3. From(k, Append(c, e)) = IF Of(k, e) THEN Append(From(k, c), e) ELSE From(k, c)
    <3>1. c \in Seq(PublishedReports) /\ e \in PublishedReports
      BY <1>4, <1>6, Zenon
    <3> QED BY <3>1, FromAppend, ZenonT(60)
  <2>4. Published(k)' = From(k, Append(c, e))
    BY <1>5, Zenon DEF Published
  <2> QED BY <2>1, <2>2, <2>3, <2>4, Zenon DEF Published
<1>9. Pending(k0)' = Append(Pending(k0), e)
  <2>1. Joined(Retried(k0), Queued(k0), Exits(k0), Append(Published(k0), e))
        = Append(Joined(Retried(k0), Queued(k0), Exits(k0), Published(k0)), e)
    <3>1. /\ Retried(k0) \in Seq(Reports) /\ Queued(k0) \in Seq(Reports) /\ Exits(k0) \in Seq(Reports)
          /\ Published(k0) \in Seq(Reports)
      BY <1>3, <1>7, Parts, Zenon
    <3>2. AddedLast(Retried(k0), Queued(k0), Exits(k0), Published(k0), e)
      BY <1>3, <3>1, AddedToFourth, Zenon
    <3> QED BY <3>2, Zenon DEF AddedLast
  <2> QED BY <1>2, <1>3, <1>7, <1>8, <2>1, Parts, Zenon
<1>10. SameBut(k0)
  BY <1>2, <1>7, <1>8, Parts, Zenon DEF SameBut
<1> QED BY <1>2, <1>3, <1>7, <1>9, <1>10, Zenon DEF Effect, Arrived

\* Steps that leave the events where they are: BackOffCheck, Stop, and the ticks of the clock.
LEMMA QuietStep ==
    ASSUME QueueInv, QueueInv', exitCh' = exitCh, ch' = ch, batch' = batch,
           \A i \in Objects : queuePool'[i].events = queuePool[i].events
    PROVE  Effect
<1>1. ASSUME NEW k \in Keys PROVE Pending(k)' = Pending(k)
  <2>1. k[2] \in Objects
    BY Zenon DEF Keys
  <2>2. Retried(k)' = Retried(k) /\ Exits(k)' = Exits(k) /\ Published(k)' = Published(k)
    BY Zenon DEF Retried, Exits, Published
  <2>3. Queued(k)' = Queued(k)
    BY <2>1, Zenon DEF Queued
  <2> QED BY <2>2, <2>3, Parts, Zenon
<1> QED BY <1>1, Zenon DEF Effect, Same

\* The check of the back-off only notes which queues are due.
LEMMA BackOffCheckStep == ASSUME QueueInv, BackOffCheck PROVE QueueInv' /\ Effect
<1>1. QueueInv'
  BY Zenon DEF QueueInv, BackOffCheck, getExpiredIDs, isInBackOff
<1> QED BY <1>1, QuietStep, Zenon DEF BackOffCheck

\* A step that leaves the places alone.
LEMMA UnchangedStep ==
    ASSUME QueueInv, UNCHANGED <<exitCh, ch, queuePool, expired, batch, reported>>
    PROVE  QueueInv' /\ Effect
<1>1. QueueInv'
  BY Zenon DEF QueueInv, isInBackOff
<1> QED BY <1>1, QuietStep, Zenon

\* Time passing leaves all events where they are.
LEMMA TickStep == ASSUME QueueInv, Tick PROVE QueueInv' /\ Effect
<1>1. /\ queuePool' = [i \in Objects |->
                          [queuePool[i] EXCEPT !.left = IF @ > 0 THEN @ - 1 ELSE 0]]
      /\ UNCHANGED <<exitCh, ch, expired, batch, reported>>
  BY Zenon DEF Tick
<1>2. ASSUME NEW i \in Objects
      PROVE  queuePool'[i] \in BackOffQueue /\ queuePool'[i].events = queuePool[i].events
  <2> DEFINE q == queuePool[i]
             l == IF q.left > 0 THEN q.left - 1 ELSE 0
  <2>1. q \in BackOffQueue /\ l \in Int
    BY DEF QueueInv, BackOffQueue
  <2>2. queuePool'[i] = [q EXCEPT !.left = l]
    BY <1>1, Zenon
  <2> HIDE DEF q, l
  <2>3. [q EXCEPT !.left = l] \in BackOffQueue /\ [q EXCEPT !.left = l].events = q.events
    BY <2>1, Zenon DEF BackOffQueue
  <2> QED BY <2>2, <2>3, Zenon DEF q
<1>3. queuePool' \in [Objects -> BackOffQueue]
  BY <1>1, <1>2, Zenon
<1>4. QueueInv'
  BY <1>1, <1>2, <1>3, Zenon DEF QueueInv, isInBackOff
<1> QED BY <1>1, <1>2, <1>4, QuietStep, Zenon

\* A step of the loop, of a source of events or of the clock.
LEMMA QueueNext == EventConstants /\ QueueInv /\ [EventNext]_eventVars => QueueInv' /\ Effect
<1> SUFFICES ASSUME EventConstants, QueueInv, [EventNext]_eventVars PROVE QueueInv' /\ Effect
  BY Zenon
<1>1. CASE \E i \in Objects : ExitReported(i) \/ ContainerdPublishes(i) \/ deBackOff(i)
  BY <1>1, ExitReportedStep, ContainerdPublishesStep, DeBackOffStep, Zenon
<1>2. CASE ReceiveExit \/ ReceiveEvent \/ BackOffCheck \/ Retry \/ Tick
  BY <1>2, ReceiveExitStep, ReceiveEventStep, BackOffCheckStep, RetryStep, TickStep, Zenon
<1>3. CASE Stop \/ UNCHANGED eventVars
  BY <1>3, UnchangedStep, Zenon DEF Stop, eventVars
<1> QED BY <1>1, <1>2, <1>3, Zenon DEF EventNext

\* The event monitor implements EventQueue: failing handlers and back-off never reorder, drop
\* or repeat the events of one source about one object.
THEOREM EventsAreQueued == ASSUME EventConstants PROVE EventSpec => ImplementsEventQueue
<1>1. EventInit => QueueInv
  <2> SUFFICES ASSUME EventInit PROVE QueueInv
    BY Zenon
  <2>1. NoQueue \in BackOffQueue /\ NoQueue.events = <<>> /\ \A S : <<>> \in Seq(S)
    BY DEF NoQueue, BackOffQueue
  <2>2. /\ queuePool \in [Objects -> BackOffQueue]
        /\ \A i \in Objects : queuePool[i].events \in Seq(EventsOf(i))
    BY <2>1, Zenon DEF EventInit
  <2> QED BY <2>1, <2>2, Zenon DEF EventInit, QueueInv
<1>2. EventInit => Queue!Init
  <2> SUFFICES ASSUME EventInit PROVE [k \in Keys |-> Pending(k)] = [k \in Keys |-> <<>>]
    BY Zenon DEF Queue!Init
  <2>1. ASSUME NEW k \in Keys PROVE Pending(k) = <<>>
    <3>1. batch.events \o queuePool[k[2]].events \o exitCh \o ch = <<>>
      BY DEF EventInit, Keys, NoQueue, NoBatch
    <3> QED BY <3>1, FromEmpty, Zenon DEF Pending
  <2> QED BY <2>1, Zenon
<1>3. QueueInv /\ [EventNext]_eventVars => QueueInv'
  BY QueueNext, Zenon
<1>4. QueueInv /\ [EventNext]_eventVars => [Queue!Next]_([k \in Keys |-> Pending(k)])
  BY QueueNext, EffectIsStep, Zenon
<1> QED BY <1>1, <1>2, <1>3, <1>4, PTL DEF EventSpec, ImplementsEventQueue, Queue!Spec

=============================================================================
