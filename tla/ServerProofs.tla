---------------------------- MODULE ServerProofs ----------------------------
(***************************************************************************)
(* Proofs about Server and its two parts.                                  *)
(*                                                                         *)
(* The heap of the updater comes first: what one turn of up and of down    *)
(* does, then what Push, Pop, Remove and Fix leave, whatever the length.   *)
(* up and down are recursive functions; that they are defined, and that    *)
(* their turns suffice, is by induction on the turns, with the least       *)
(* counterexample (LeastNumber).  The invariants follow: UpdaterIInv of    *)
(* Updater, ListenerIInv of Listener, each for every step of its module,   *)
(* and ServerIInv of the two together, under which every step of the       *)
(* server is a step of either part or leaves it alone.                     *)
(***************************************************************************)
EXTENDS Server, SequenceTheorems, WellFoundedInduction, TLAPS

Entry == [ts : Instant, s : Sessions]

\* A queue of entries, and the places of the sessions.
IsHeap(h) == h \in [q : Seq(Entry), idx : [Sessions -> Nat]]
Places(h) == 1..Len(h.q)

\* Every entry's session knows its place.
Placed(h) == \A i \in Places(h) : h.idx[h.q[i].s] = i

\* The sessions that know a place are those that have one.
NoneElse(h) == \A s \in Sessions : h.idx[s] # 0 => h.idx[s] \in Places(h) /\ h.q[h.idx[s]].s = s

\* What is in the heap, wherever.
Entries(h) == {h.q[i] : i \in Places(h)}

\* g has the entries of h, perhaps in other places, and every session in it knows its own.
Rearranged(h, g) ==
    /\ IsHeap(g) /\ Len(g.q) = Len(h.q) /\ Placed(g) /\ Entries(g) = Entries(h)
    /\ \A s \in Sessions : (\A i \in Places(h) : h.q[i].s # s) => g.idx[s] = h.idx[s]

-----------------------------------------------------------------------------
(* Numbers *)

\* A set of numbers that is not empty has a least one.
LEMMA LeastNumber ==
    ASSUME NEW S, S \subseteq Nat, S # {}
    PROVE  \E n \in S : \A m \in S : n <= m
  <1>1. IsWellFoundedOn(OpToRel(<, Nat), Nat)
    BY NatLessThanWellFounded
  <1>2. PICK n \in S : \A m \in S : <<m, n>> \notin OpToRel(<, Nat)
    BY <1>1, WFMin
  <1>3. \A m \in S : ~(m < n)
    BY <1>2 DEF OpToRel
  <1>4. QED
    BY <1>3

\* The place of a parent.
LEMMA Half ==
    ASSUME NEW j \in Nat, j >= 2
    PROVE  /\ j \div 2 \in Nat /\ j \div 2 >= 1 /\ j \div 2 < j
           /\ \A c \in Nat : j \div 2 = c <=> j \in {2 * c, 2 * c + 1}
  OBVIOUS

-----------------------------------------------------------------------------
(* Heaps *)

\* A function of the first numbers is a sequence.
LEMMA SeqOfFunction ==
    ASSUME NEW S, NEW n \in Nat, NEW q \in [1..n -> S]
    PROVE  q \in Seq(S) /\ Len(q) = n
  OBVIOUS

\* The types of what a heap holds.
LEMMA EntryAt ==
    ASSUME NEW h, IsHeap(h)
    PROVE  /\ Len(h.q) \in Nat /\ h.q \in [Places(h) -> Entry]
           /\ \A i \in Places(h) : h.q[i] \in Entry /\ h.q[i].ts \in Int /\ h.q[i].s \in Sessions
           /\ h.idx \in [Sessions -> Nat]
  <1>1. h.q \in Seq(Entry) /\ h.idx \in [Sessions -> Nat]
    BY DEF IsHeap
  <1>2. Len(h.q) \in Nat /\ h.q \in [Places(h) -> Entry]
    BY <1>1, LenProperties DEF Places
  <1>3. \A e \in Entry : e.ts \in Int /\ e.s \in Sessions
    BY DEF Entry, Instant
  <1>4. QED
    BY <1>1, <1>2, <1>3

\* What two rearrangements one after the other do, one does.
LEMMA RearrangedTwice ==
    ASSUME NEW h, NEW g, NEW k, Rearranged(h, g), Rearranged(g, k), IsHeap(h)
    PROVE  Rearranged(h, k)
  <1>1. ASSUME NEW s \in Sessions, \A i \in Places(h) : h.q[i].s # s
        PROVE  k.idx[s] = h.idx[s]
    <2>1. ASSUME NEW i \in Places(g)
          PROVE  g.q[i].s # s
      <3>1. PICK j \in Places(h) : g.q[i] = h.q[j]
        BY DEF Rearranged, Entries
      <3>2. QED
        BY <1>1, <3>1
    <2>2. QED
      BY <1>1, <2>1 DEF Rearranged
  <1>2. QED
    BY <1>1 DEF Rearranged

\* No session learns of a place that it does not have.
LEMMA NoneElseKept ==
    ASSUME NEW h, NEW g, IsHeap(h), NoneElse(h), Rearranged(h, g)
    PROVE  NoneElse(g)
  <1>1. ASSUME NEW s \in Sessions, g.idx[s] # 0
        PROVE  g.idx[s] \in Places(g) /\ g.q[g.idx[s]].s = s
    <2>1. PICK i \in Places(h) : h.q[i].s = s
      BY <1>1 DEF Rearranged, NoneElse
    <2>2. PICK j \in Places(g) : g.q[j] = h.q[i]
      BY <2>1 DEF Rearranged, Entries
    <2>3. QED
      BY <2>1, <2>2 DEF Rearranged, Placed
  <1>2. QED
    BY <1>1 DEF NoneElse

\* Two entries change places.
LEMMA Swapping ==
    ASSUME NEW h, IsHeap(h), Placed(h), NEW i \in Places(h), NEW j \in Places(h)
    PROVE  LET g == Swap(h, i, j)
           IN  /\ Rearranged(h, g)
               /\ g.q[i] = h.q[j] /\ g.q[j] = h.q[i] /\ \A k \in Places(h) \ {i, j} : g.q[k] = h.q[k]
  <1> DEFINE q == [h.q EXCEPT ![i] = h.q[j], ![j] = h.q[i]]
             idx == [h.idx EXCEPT ![h.q[j].s] = i, ![h.q[i].s] = j]
             g == Swap(h, i, j)
  <1>1. g.q = q /\ g.idx = idx /\ g = [q |-> q, idx |-> idx]
    BY DEF Swap
  <1>2. /\ q \in [Places(h) -> Entry] /\ q[i] = h.q[j] /\ q[j] = h.q[i]
        /\ \A k \in Places(h) \ {i, j} : q[k] = h.q[k]
    BY EntryAt
  <1>3. q \in Seq(Entry) /\ Len(q) = Len(h.q)
    <2>1. Len(h.q) \in Nat /\ Places(h) = 1..Len(h.q)
      BY EntryAt DEF Places
    <2> HIDE DEF q
    <2>2. QED
      BY <1>2, <2>1, SeqOfFunction
  <1>4. idx \in [Sessions -> Nat]
    BY EntryAt DEF Places
  <1>5. IsHeap(g) /\ Len(g.q) = Len(h.q) /\ Places(g) = Places(h)
    BY <1>1, <1>3, <1>4 DEF IsHeap, Places
  <1>6. Placed(g)
    <2>1. ASSUME NEW k \in Places(h)
          PROVE  idx[q[k].s] = k
      <3>1. \A l, m \in Places(h) : h.q[l].s = h.q[m].s => l = m
        BY DEF Placed
      <3>2. /\ idx[h.q[i].s] = j /\ (i # j => idx[h.q[j].s] = i)
            /\ \A l \in Places(h) \ {i, j} : idx[h.q[l].s] = l
        BY <3>1, EntryAt DEF Placed
      <3>3. QED
        BY <1>2, <3>2
    <2>2. QED
      BY <1>1, <1>5, <2>1 DEF Placed
  <1>7. Entries(g) = Entries(h)
    BY <1>1, <1>2, <1>5 DEF Entries
  <1>8. ASSUME NEW s \in Sessions, \A k \in Places(h) : h.q[k].s # s
        PROVE  g.idx[s] = h.idx[s]
    BY <1>1, <1>8, EntryAt
  <1>9. QED
    BY <1>1, <1>2, <1>5, <1>6, <1>7, <1>8 DEF Rearranged

-----------------------------------------------------------------------------
(* In order *)

\* The entry at j is not earlier than its parent.
InOrder(h, j) == h.q[j \div 2].ts <= h.q[j].ts

\* Among the first n places, the entries are in order but for those at which at is, or is
\* the parent of; and what is above at is not later than what is below it.
SinksAt(h, n, at) ==
    /\ \A j \in 2..n : j # at /\ j \div 2 # at => InOrder(h, j)
    /\ \A j \in 2..n : j \div 2 = at /\ at > 1 => h.q[at \div 2].ts <= h.q[j].ts

\* Likewise, but at is not later than its children.
RisesAt(h, at) ==
    /\ \A j \in 2..Len(h.q) : j # at => InOrder(h, j)
    /\ \A j \in 2..Len(h.q) : j \div 2 = at /\ at > 1 => h.q[at \div 2].ts <= h.q[j].ts

Ordered(h) == \A j \in 2..Len(h.q) : InOrder(h, j)

\* up is over.
Risen(r) == r.at = 1 \/ InOrder(r.h, r.at)

\* One turn of up.
LEMMA RiseOnceFacts ==
    ASSUME NEW r, IsHeap(r.h), Placed(r.h), r.at \in Places(r.h), RisesAt(r.h, r.at)
    PROVE  LET t == RiseOnce(r)
           IN  /\ Rearranged(r.h, t.h) /\ RisesAt(t.h, t.at) /\ t.at \in Places(r.h)
               /\ IF Risen(r) THEN t = r ELSE t.at < r.at
  <1> DEFINE h == r.h
             at == r.at
             p == at \div 2
             g == Swap(h, at, p)
  <1>1. CASE ~(at > 1 /\ Less(h, at, p))
    <2>1. RiseOnce(r) = r
      BY <1>1 DEF RiseOnce
    <2>2. Rearranged(h, h)
      BY DEF Rearranged
    <2>3. Risen(r)
      <3>1. at \in Nat /\ at >= 1
        BY EntryAt DEF Places
      <3>2. CASE at > 1
        <4>1. p \in Places(h)
          BY <3>2, EntryAt, Half DEF Places
        <4>2. h.q[p].ts \in Int /\ h.q[at].ts \in Int
          BY <4>1, EntryAt
        <4>3. QED
          BY <1>1, <3>2, <4>2 DEF Less, InOrder, Risen
      <3>3. QED
        BY <3>1, <3>2 DEF Risen
    <2>4. QED
      BY <2>1, <2>2, <2>3
  <1>2. CASE at > 1 /\ Less(h, at, p)
    <2>1. RiseOnce(r) = [h |-> g, at |-> p]
      BY <1>2 DEF RiseOnce
    <2>2. at \in Nat /\ Len(h.q) \in Nat /\ Places(h) = 1..Len(h.q)
      BY EntryAt DEF Places
    <2>3. p \in Places(h) /\ p < at /\ p \in Nat /\ p = at \div 2 /\ at \in Places(h)
      BY <1>2, <2>2, Half
    <2>4. /\ Rearranged(h, g) /\ Len(g.q) = Len(h.q)
          /\ g.q[at] = h.q[p] /\ g.q[p] = h.q[at] /\ \A k \in Places(h) \ {at, p} : g.q[k] = h.q[k]
      <3>1. IsHeap(h) /\ Placed(h) /\ g = Swap(h, at, p)
        OBVIOUS
      <3> HIDE DEF h, at, p, g
      <3>2. /\ Rearranged(h, g)
            /\ g.q[at] = h.q[p] /\ g.q[p] = h.q[at] /\ \A k \in Places(h) \ {at, p} : g.q[k] = h.q[k]
        BY <2>3, <3>1, Swapping
      <3>3. QED
        BY <3>2 DEF Rearranged
    <2>5. \A k \in Places(h) : h.q[k].ts \in Int
      BY EntryAt
    <2>6. h.q[at].ts < h.q[p].ts
      BY <1>2 DEF Less
    <2>7. ~Risen(r)
      BY <1>2, <2>3, <2>5, <2>6 DEF Risen, InOrder
    <2>8. \A j \in 2..Len(h.q) : /\ j \in Places(h) /\ j \div 2 \in Places(h) /\ j \div 2 < j
                                 /\ j # at => h.q[j \div 2].ts <= h.q[j].ts
                                 /\ j \div 2 = at => h.q[p].ts <= h.q[j].ts
      BY <1>2, <2>2, Half DEF RisesAt, InOrder
    <2> HIDE DEF h, at, p, g
    <2>9. ASSUME NEW j \in 2..Len(h.q), j # p
          PROVE  g.q[j \div 2].ts <= g.q[j].ts
      <3>1. CASE j = at
        <4>1. g.q[j] = h.q[p] /\ g.q[j \div 2] = h.q[at]
          BY <2>3, <2>4, <3>1
        <4>2. h.q[p].ts \in Int /\ h.q[at].ts \in Int
          BY <2>3, <2>5
        <4>3. QED
          BY <2>6, <4>1, <4>2
      <3>2. CASE j # at /\ j \div 2 = p
        <4>1. g.q[j] = h.q[j] /\ g.q[j \div 2] = h.q[at] /\ h.q[p].ts <= h.q[j].ts
          BY <2>4, <2>8, <2>9, <3>2
        <4>2. h.q[p].ts \in Int /\ h.q[at].ts \in Int /\ h.q[j].ts \in Int
          BY <2>3, <2>5, <2>8
        <4>3. QED
          BY <2>6, <4>1, <4>2
      <3>3. CASE j # at /\ j \div 2 = at
        BY <2>4, <2>8, <2>9, <3>3
      <3>4. CASE j # at /\ j \div 2 \notin {at, p}
        BY <2>4, <2>8, <2>9, <3>4
      <3>5. QED
        BY <3>1, <3>2, <3>3, <3>4
    <2>10. ASSUME NEW j \in 2..Len(h.q), j \div 2 = p, p > 1
          PROVE  g.q[p \div 2].ts <= g.q[j].ts
      <3>1. p \in 2..Len(h.q) /\ p # at /\ p \div 2 \notin {at, p} /\ p \div 2 \in Places(h)
        BY <2>2, <2>3, <2>8, <2>10
      <3>2. g.q[p \div 2] = h.q[p \div 2] /\ h.q[p \div 2].ts <= h.q[p].ts
        BY <2>4, <2>8, <3>1
      <3>3. h.q[p].ts <= g.q[j].ts
        <4>1. CASE j = at
          BY <2>3, <2>4, <2>5, <4>1
        <4>2. CASE j # at
          <5>1. h.q[p].ts <= h.q[j].ts /\ j # p /\ j \in Places(h)
            BY <2>3, <2>8, <2>10, <4>2
          <5>2. g.q[j] = h.q[j]
            BY <2>4, <4>2, <5>1
          <5>3. QED
            BY <5>1, <5>2
        <4>3. QED
          BY <4>1, <4>2
      <3>4. g.q[j].ts \in Int /\ h.q[p].ts \in Int /\ h.q[p \div 2].ts \in Int
        BY <2>3, <2>4, <2>5, <2>8, <3>1
      <3>5. QED
        BY <3>2, <3>3, <3>4
    <2>11. RisesAt(g, p)
      BY <2>4, <2>9, <2>10 DEF RisesAt, InOrder
    <2>12. QED
      BY <2>1, <2>3, <2>4, <2>11, <2>7 DEF h, at
  <1>3. QED
    BY <1>1, <1>2

\* The function that up computes is there: turns can be appended to turns.
LEMMA UpTurns ==
    ASSUME NEW h, NEW i, Len(h.q) \in Nat
    PROVE  \E f : /\ f[0] = [h |-> h, at |-> i]
                  /\ \A k \in 1..Len(h.q) : f[k] = RiseOnce(f[k - 1])
                  /\ Up(h, i) = f[Len(h.q)].h
  <1> DEFINE Is(f, n) == f = [k \in 0..n |-> IF k = 0 THEN [h |-> h, at |-> i] ELSE RiseOnce(f[k - 1])]
             rise == CHOOSE f : Is(f, Len(h.q))
  <1>1. ASSUME NEW n \in Nat
        PROVE  \E f : Is(f, n)
    <2> DEFINE S == {m \in Nat : ~\E f : Is(f, m)}
    <2> SUFFICES ASSUME S # {}
                 PROVE  FALSE
      OBVIOUS
    <2>1. PICK m \in S : \A l \in S : m <= l
      <3> HIDE DEF S
      <3>1. S \subseteq Nat
        BY DEF S
      <3>2. QED
        BY <3>1, LeastNumber
    <2>2. CASE m = 0
      <3> DEFINE f == [k \in 0..0 |-> [h |-> h, at |-> i]]
      <3>1. f = [k \in 0..0 |-> IF k = 0 THEN [h |-> h, at |-> i] ELSE RiseOnce(f[k - 1])]
        OBVIOUS
      <3>2. Is(f, 0)
        BY <3>1
      <3>3. QED
        BY <2>1, <2>2, <3>2
    <2>3. CASE m # 0
      <3>1. m \in Nat /\ m - 1 \in Nat
        BY <2>1, <2>3
      <3>2. PICK f : Is(f, m - 1)
        <4>1. m - 1 \notin S
          <5> HIDE DEF S
          <5>1. QED
            BY <2>1, <3>1
        <4>2. QED
          BY <3>1, <4>1
      <3> DEFINE g == [k \in 0..m |-> IF k = m THEN RiseOnce(f[m - 1]) ELSE f[k]]
      <3>3. \A k \in 0..(m - 1) : f[k] = IF k = 0 THEN [h |-> h, at |-> i] ELSE RiseOnce(f[k - 1])
        BY <3>2
      <3>4. ASSUME NEW k \in 0..m
            PROVE  g[k] = IF k = 0 THEN [h |-> h, at |-> i] ELSE RiseOnce(g[k - 1])
        <4>1. CASE k = m
          BY <2>3, <3>1, <4>1
        <4>2. CASE k # m
          BY <3>1, <3>3, <4>2
        <4>3. QED
          BY <4>1, <4>2
      <3>5. Is(g, m)
        BY <3>4
      <3>6. QED
        BY <2>1, <3>5
    <2>4. QED
      BY <2>2, <2>3
  <1>2. Is(rise, Len(h.q))
    BY <1>1
  <1>3. Up(h, i) = rise[Len(h.q)].h
    BY DEF Up
  <1> HIDE DEF rise
  <1>4. \A k \in 0..Len(h.q) : rise[k] = IF k = 0 THEN [h |-> h, at |-> i] ELSE RiseOnce(rise[k - 1])
    BY <1>2
  <1>5. QED
    BY <1>3, <1>4

\* What up leaves is in order.
LEMMA UpFacts ==
    ASSUME NEW h, IsHeap(h), Placed(h), NEW i \in Places(h), RisesAt(h, i)
    PROVE  Rearranged(h, Up(h, i)) /\ Ordered(Up(h, i))
  <1> DEFINE n == Len(h.q)
  <1>1. n \in Nat /\ i \in 1..n /\ Places(h) = 1..n
    BY EntryAt DEF Places
  <1>2. PICK f : /\ f[0] = [h |-> h, at |-> i]
                 /\ \A k \in 1..n : f[k] = RiseOnce(f[k - 1])
                 /\ Up(h, i) = f[n].h
    BY <1>1, UpTurns
  <1> DEFINE Good(k) == /\ Rearranged(h, f[k].h) /\ RisesAt(f[k].h, f[k].at) /\ f[k].at \in Places(h)
                        /\ f[k].at <= i - k \/ Risen(f[k])
             S == {k \in 0..n : ~Good(k)}
  <1>3. Good(0)
    BY <1>1, <1>2 DEF Rearranged
  <1>4. ASSUME NEW k \in 1..n, Good(k - 1)
        PROVE  Good(k)
    <2> DEFINE r == f[k - 1]
    <2>1. Rearranged(h, r.h) /\ RisesAt(r.h, r.at) /\ r.at \in Places(h) /\ (r.at <= i - (k - 1) \/ Risen(r))
      BY <1>4
    <2>2. IsHeap(r.h) /\ Placed(r.h) /\ Places(r.h) = Places(h)
      BY <2>1 DEF Rearranged, Places
    <2>3. f[k] = RiseOnce(r)
      BY <1>2
    <2> HIDE DEF r
    <2>4. /\ Rearranged(r.h, f[k].h) /\ RisesAt(f[k].h, f[k].at) /\ f[k].at \in Places(h)
          /\ IF Risen(r) THEN f[k] = r ELSE f[k].at < r.at
      BY <2>1, <2>2, <2>3, RiseOnceFacts
    <2>5. Rearranged(h, f[k].h)
      BY <2>1, <2>4, RearrangedTwice
    <2>6. f[k].at <= i - k \/ Risen(f[k])
      <3>1. f[k].at \in Int /\ r.at \in Int
        BY <1>1, <2>1, <2>4
      <3>2. CASE Risen(r)
        BY <2>4, <3>2
      <3>3. CASE ~Risen(r)
        BY <1>1, <2>1, <2>4, <3>1, <3>3
      <3>4. QED
        BY <3>2, <3>3
    <2>7. QED
      BY <2>4, <2>5, <2>6
  <1>5. Good(n)
    <2> SUFFICES ASSUME S # {}
                 PROVE  FALSE
      BY <1>1
    <2>1. PICK m \in S : \A l \in S : m <= l
      <3> HIDE DEF S
      <3>1. S \subseteq Nat
        BY <1>1 DEF S
      <3>2. QED
        BY <3>1, LeastNumber
    <2>2. m \in 1..n
      BY <1>1, <1>3, <2>1
    <2>3. m - 1 \notin S
      <3> HIDE DEF S
      <3>1. QED
        BY <1>1, <2>1, <2>2
    <2> HIDE DEF Good
    <2>4. Good(m - 1)
      BY <1>1, <2>2, <2>3
    <2>5. Good(m)
      BY <1>4, <2>2, <2>4
    <2>6. QED
      BY <2>1, <2>5
  <1>6. Risen(f[n])
    BY <1>1, <1>5
  <1>7. Ordered(f[n].h)
    BY <1>5, <1>6 DEF Risen, RisesAt, Ordered
  <1>8. QED
    BY <1>2, <1>5, <1>7

\* down is over.
Sunk(r, n) == \A j \in 2..n : j \div 2 = r.at => InOrder(r.h, j)

\* The earlier child, if there is one.
LEMMA ChildFacts ==
    ASSUME NEW h, IsHeap(h), NEW n \in 1..Len(h.q), NEW at \in 1..n
    PROVE  LET c == Child(h, at, n)
           IN  /\ c \in {2 * at, 2 * at + 1}
               /\ \A j \in 2..n : j \div 2 = at => c <= n /\ h.q[c].ts <= h.q[j].ts
  <1> DEFINE c == Child(h, at, n)
  <1>1. n \in Nat /\ at \in Nat /\ at >= 1 /\ at <= n
    BY EntryAt
  <1>2. c \in {2 * at, 2 * at + 1}
    BY DEF Child
  <1>3. ASSUME NEW j \in 2..n, j \div 2 = at
        PROVE  c <= n /\ h.q[c].ts <= h.q[j].ts
    <2>1. j \in {2 * at, 2 * at + 1}
      BY <1>1, <1>3, Half
    <2>2. \A k \in 1..n : h.q[k].ts \in Int
      BY <1>1, EntryAt DEF Places
    <2>3. CASE 2 * at < n
      <3>1. 2 * at \in 1..n /\ 2 * at + 1 \in 1..n
        BY <1>1, <2>3
      <3>2. h.q[2 * at].ts \in Int /\ h.q[2 * at + 1].ts \in Int
        BY <2>2, <3>1
      <3>3. CASE Less(h, 2 * at + 1, 2 * at)
        <4>1. c = 2 * at + 1 /\ h.q[2 * at + 1].ts < h.q[2 * at].ts
          BY <2>3, <3>3 DEF Child, Less
        <4>2. QED
          BY <1>1, <2>1, <2>3, <3>2, <4>1
      <3>4. CASE ~Less(h, 2 * at + 1, 2 * at)
        <4>1. c = 2 * at /\ ~(h.q[2 * at + 1].ts < h.q[2 * at].ts)
          BY <2>3, <3>4 DEF Child, Less
        <4>2. QED
          BY <1>1, <2>1, <2>3, <3>2, <4>1
      <3>5. QED
        BY <3>3, <3>4
    <2>4. CASE ~(2 * at < n)
      <3>1. c = 2 * at /\ j = 2 * at
        BY <1>1, <2>1, <2>4 DEF Child
      <3>2. h.q[j].ts \in Int
        BY <2>2
      <3>3. QED
        BY <1>1, <3>1, <3>2
    <2>5. QED
      BY <2>3, <2>4
  <1>4. QED
    BY <1>2, <1>3

\* One turn of down.
LEMMA SinkOnceFacts ==
    ASSUME NEW r, IsHeap(r.h), Placed(r.h), NEW n \in 1..Len(r.h.q), r.at \in 1..n, SinksAt(r.h, n, r.at)
    PROVE  LET t == SinkOnce(r, n)
           IN  /\ Rearranged(r.h, t.h) /\ SinksAt(t.h, n, t.at) /\ t.at \in 1..n
               /\ \A k \in Places(r.h) : k > n => t.h.q[k] = r.h.q[k]
               /\ IF Sunk(r, n) THEN t = r ELSE t.at > r.at /\ InOrder(t.h, t.at)
  <1> DEFINE h == r.h
             at == r.at
             c == Child(h, at, n)
             g == Swap(h, at, c)
  <1>1. /\ n \in Nat /\ at \in Nat /\ at \in 1..n /\ 1..n \subseteq Places(h) /\ Len(h.q) \in Nat
        /\ \A k \in Places(h) : h.q[k].ts \in Int
    BY EntryAt DEF Places
  <1>2. /\ c \in {2 * at, 2 * at + 1}
        /\ \A j \in 2..n : j \div 2 = at => c <= n /\ h.q[c].ts <= h.q[j].ts
    BY ChildFacts
  <1>3. CASE ~(c <= n /\ Less(h, c, at))
    <2>1. SinkOnce(r, n) = r
      BY <1>3 DEF SinkOnce
    <2>2. Rearranged(h, h)
      BY DEF Rearranged
    <2>3. Sunk(r, n)
      <3>1. ASSUME NEW j \in 2..n, j \div 2 = at
            PROVE  h.q[at].ts <= h.q[j].ts
        <4> HIDE DEF h, at, c
        <4>1. c <= n /\ h.q[c].ts <= h.q[j].ts
          BY <1>2, <3>1
        <4>2. ~(h.q[c].ts < h.q[at].ts)
          BY <1>3, <4>1 DEF Less
        <4>3. c \in Places(h) /\ at \in Places(h) /\ j \in Places(h)
          <5>1. c \in 1..n /\ j \in 1..n
            BY <1>1, <1>2, <4>1
          <5>2. QED
            BY <1>1, <5>1
        <4>4. h.q[c].ts \in Int /\ h.q[at].ts \in Int /\ h.q[j].ts \in Int
          BY <1>1, <4>3
        <4>5. QED
          BY <4>1, <4>2, <4>4
      <3>2. QED
        BY <3>1 DEF Sunk, InOrder
    <2>4. QED
      BY <2>1, <2>2, <2>3
  <1>4. CASE c <= n /\ Less(h, c, at)
    <2>1. SinkOnce(r, n) = [h |-> g, at |-> c]
      BY <1>4 DEF SinkOnce
    <2>2. h.q[c].ts < h.q[at].ts /\ c <= n
      BY <1>4 DEF Less
    <2>3. SinksAt(h, n, at) /\ IsHeap(h) /\ Placed(h) /\ g = Swap(h, at, c)
      OBVIOUS
    <2>4. Sunk(r, n) => \A j \in 2..n : j \div 2 = at => h.q[at].ts <= h.q[j].ts
      BY DEF Sunk, InOrder
    <2> HIDE DEF h, at, c, g
    <2>5. c \in 2..n /\ c \in Places(h) /\ c > at /\ c \div 2 = at /\ c \in Nat /\ c # at
      BY <1>1, <1>2, <2>2
    <2>6. /\ Rearranged(h, g)
          /\ g.q[at] = h.q[c] /\ g.q[c] = h.q[at] /\ \A k \in Places(h) \ {at, c} : g.q[k] = h.q[k]
      <3>1. IsHeap(h) /\ Placed(h) /\ g = Swap(h, at, c) /\ at \in Places(h) /\ c \in Places(h)
        BY <1>1, <2>3, <2>5
      <3>2. QED
        BY <3>1, Swapping
    <2>7. ASSUME NEW j \in 2..n
          PROVE  /\ j \in Places(h) /\ j \div 2 \in Places(h) /\ j \div 2 < j
                 /\ j # at /\ j \div 2 # at => h.q[j \div 2].ts <= h.q[j].ts
                 /\ j \div 2 = at => h.q[c].ts <= h.q[j].ts
                 /\ j \div 2 = at /\ at > 1 => h.q[at \div 2].ts <= h.q[j].ts
      <3>1. j \div 2 \in Nat /\ j \div 2 >= 1 /\ j \div 2 < j
        BY <1>1, Half
      <3>2. j \in 1..n /\ j \div 2 \in 1..n
        BY <1>1, <3>1
      <3>3. QED
        BY <1>1, <1>2, <2>3, <3>1, <3>2 DEF SinksAt, InOrder
    <2>8. ~Sunk(r, n)
      <3>1. h.q[c].ts \in Int /\ h.q[at].ts \in Int
        BY <1>1, <2>5
      <3>2. QED
        BY <2>5, <2>2, <2>4, <3>1
    <2>9. g.q[c \div 2].ts <= g.q[c].ts
      <3>1. h.q[c].ts \in Int /\ h.q[at].ts \in Int
        BY <1>1, <2>5
      <3>2. QED
        BY <2>5, <2>6, <2>2, <3>1
    <2>10. ASSUME NEW j \in 2..n, j # c, j \div 2 # c
          PROVE  g.q[j \div 2].ts <= g.q[j].ts
      <3>1. CASE j = at
        <4>1. g.q[j] = h.q[c] /\ j \div 2 \notin {at, c} /\ j \div 2 \in Places(h)
          BY <2>5, <2>6, <2>7, <3>1
        <4>2. g.q[j \div 2] = h.q[at \div 2]
          BY <2>6, <3>1, <4>1
        <4>3. at > 1
          BY <3>1
        <4>4. h.q[at \div 2].ts <= h.q[c].ts
          BY <2>5, <2>7, <4>3
        <4>5. QED
          BY <4>1, <4>2, <4>4
      <3>2. CASE j # at /\ j \div 2 = at
        <4>1. g.q[j] = h.q[j]
          BY <2>6, <2>7, <2>10, <3>2
        <4>2. QED
          BY <2>6, <2>7, <3>2, <4>1
      <3>3. CASE j # at /\ j \div 2 # at
        <4>1. g.q[j] = h.q[j] /\ g.q[j \div 2] = h.q[j \div 2]
          BY <2>6, <2>7, <2>10, <3>3
        <4>2. QED
          BY <2>7, <3>3, <4>1
      <3>4. QED
        BY <3>1, <3>2, <3>3
    <2>11. ASSUME NEW j \in 2..n, j \div 2 = c
           PROVE  g.q[c \div 2].ts <= g.q[j].ts
      <3>1. j # at /\ j # c /\ c # at /\ h.q[c].ts <= h.q[j].ts
        BY <2>5, <2>7, <2>11
      <3>2. g.q[j] = h.q[j] /\ g.q[c \div 2] = h.q[c]
        BY <2>5, <2>6, <2>7, <3>1
      <3>3. QED
        BY <3>1, <3>2
    <2>12. SinksAt(g, n, c) /\ InOrder(g, c)
      BY <2>9, <2>10, <2>11 DEF SinksAt, InOrder
    <2>13. \A k \in Places(h) : k > n => g.q[k] = h.q[k]
      <3>1. \A k \in Places(h) : k > n => k # at /\ k # c
        BY <1>1, <2>5 DEF Places
      <3>2. QED
        BY <2>6, <3>1
    <2>14. QED
      BY <1>1, <2>1, <2>5, <2>6, <2>12, <2>13, <2>8 DEF h, at
  <1>5. QED
    BY <1>3, <1>4

\* The function that down computes is there: turns can be appended to turns.
LEMMA DownTurns ==
    ASSUME NEW h, NEW i, NEW n \in Nat
    PROVE  \E f : /\ f[0] = [h |-> h, at |-> i]
                  /\ \A k \in 1..n : f[k] = SinkOnce(f[k - 1], n)
                  /\ Down(h, i, n) = f[n].h
  <1> DEFINE Is(f, m) == f = [k \in 0..m |-> IF k = 0 THEN [h |-> h, at |-> i] ELSE SinkOnce(f[k - 1], n)]
             sink == CHOOSE f : Is(f, n)
  <1>1. ASSUME NEW z \in Nat
        PROVE  \E f : Is(f, z)
    <2> DEFINE S == {m \in Nat : ~\E f : Is(f, m)}
    <2> SUFFICES ASSUME S # {}
                 PROVE  FALSE
      OBVIOUS
    <2>1. PICK m \in S : \A l \in S : m <= l
      <3> HIDE DEF S
      <3>1. S \subseteq Nat
        BY DEF S
      <3>2. QED
        BY <3>1, LeastNumber
    <2>2. CASE m = 0
      <3> DEFINE f == [k \in 0..0 |-> [h |-> h, at |-> i]]
      <3>1. f = [k \in 0..0 |-> IF k = 0 THEN [h |-> h, at |-> i] ELSE SinkOnce(f[k - 1], n)]
        OBVIOUS
      <3>2. Is(f, 0)
        BY <3>1
      <3>3. QED
        BY <2>1, <2>2, <3>2
    <2>3. CASE m # 0
      <3>1. m \in Nat /\ m - 1 \in Nat
        BY <2>1, <2>3
      <3>2. PICK f : Is(f, m - 1)
        <4>1. m - 1 \notin S
          <5> HIDE DEF S
          <5>1. QED
            BY <2>1, <3>1
        <4>2. QED
          BY <3>1, <4>1
      <3> DEFINE g == [k \in 0..m |-> IF k = m THEN SinkOnce(f[m - 1], n) ELSE f[k]]
      <3>3. \A k \in 0..(m - 1) : f[k] = IF k = 0 THEN [h |-> h, at |-> i] ELSE SinkOnce(f[k - 1], n)
        BY <3>2
      <3>4. ASSUME NEW k \in 0..m
            PROVE  g[k] = IF k = 0 THEN [h |-> h, at |-> i] ELSE SinkOnce(g[k - 1], n)
        <4>1. CASE k = m
          BY <2>3, <3>1, <4>1
        <4>2. CASE k # m
          BY <3>1, <3>3, <4>2
        <4>3. QED
          BY <4>1, <4>2
      <3>5. Is(g, m)
        BY <3>4
      <3>6. QED
        BY <2>1, <3>5
    <2>4. QED
      BY <2>2, <2>3
  <1>2. Is(sink, n)
    BY <1>1
  <1>3. Down(h, i, n) = sink[n].h
    BY DEF Down
  <1> HIDE DEF sink
  <1>4. \A k \in 0..n : sink[k] = IF k = 0 THEN [h |-> h, at |-> i] ELSE SinkOnce(sink[k - 1], n)
    BY <1>2
  <1>5. QED
    BY <1>3, <1>4

\* What down leaves is in order, unless it left everything where it was.
LEMMA DownFacts ==
    ASSUME NEW h, IsHeap(h), Placed(h), NEW n \in 1..Len(h.q), NEW i \in 1..n, SinksAt(h, n, i)
    PROVE  LET g == Down(h, i, n)
           IN  /\ Rearranged(h, g)
               /\ \A k \in Places(h) : k > n => g.q[k] = h.q[k]
               /\ \A j \in 2..n : j # i => InOrder(g, j)
               /\ i > 1 => InOrder(g, i) \/ g = h
  <1>1. n \in Nat /\ i \in 1..n /\ Len(h.q) \in Nat
    BY EntryAt
  <1>2. PICK f : /\ f[0] = [h |-> h, at |-> i]
                 /\ \A k \in 1..n : f[k] = SinkOnce(f[k - 1], n)
                 /\ Down(h, i, n) = f[n].h
    BY <1>1, DownTurns
  <1> DEFINE Good(k) == /\ Rearranged(h, f[k].h) /\ SinksAt(f[k].h, n, f[k].at) /\ f[k].at \in 1..n
                        /\ \A l \in Places(h) : l > n => f[k].h.q[l] = h.q[l]
                        /\ (f[k].at = i /\ f[k].h = h) \/ InOrder(f[k].h, f[k].at)
                        /\ f[k].at >= i + k \/ Sunk(f[k], n)
             S == {k \in 0..n : ~Good(k)}
  <1>3. Good(0)
    BY <1>1, <1>2 DEF Rearranged
  <1>4. ASSUME NEW k \in 1..n, Good(k - 1)
        PROVE  Good(k)
    <2> DEFINE r == f[k - 1]
    <2>1. /\ Rearranged(h, r.h) /\ SinksAt(r.h, n, r.at) /\ r.at \in 1..n
          /\ \A l \in Places(h) : l > n => r.h.q[l] = h.q[l]
          /\ (r.at = i /\ r.h = h) \/ InOrder(r.h, r.at)
          /\ r.at >= i + (k - 1) \/ Sunk(r, n)
      BY <1>4
    <2>2. IsHeap(r.h) /\ Placed(r.h) /\ Places(r.h) = Places(h) /\ n \in 1..Len(r.h.q)
      BY <2>1 DEF Rearranged, Places
    <2>3. f[k] = SinkOnce(r, n)
      BY <1>2
    <2> HIDE DEF r
    <2>4. /\ Rearranged(r.h, f[k].h) /\ SinksAt(f[k].h, n, f[k].at) /\ f[k].at \in 1..n
          /\ \A l \in Places(h) : l > n => f[k].h.q[l] = r.h.q[l]
          /\ IF Sunk(r, n) THEN f[k] = r ELSE f[k].at > r.at /\ InOrder(f[k].h, f[k].at)
      BY <2>1, <2>2, <2>3, SinkOnceFacts
    <2>5. Rearranged(h, f[k].h)
      BY <2>1, <2>4, RearrangedTwice
    <2>6. f[k].at >= i + k \/ Sunk(f[k], n)
      <3>1. f[k].at \in Int /\ r.at \in Int
        BY <1>1, <2>1, <2>4
      <3>2. CASE Sunk(r, n)
        BY <2>4, <3>2
      <3>3. CASE ~Sunk(r, n)
        BY <1>1, <2>1, <2>4, <3>1, <3>3
      <3>4. QED
        BY <3>2, <3>3
    <2>7. (f[k].at = i /\ f[k].h = h) \/ InOrder(f[k].h, f[k].at)
      BY <2>1, <2>4
    <2>8. QED
      BY <2>1, <2>4, <2>5, <2>6, <2>7
  <1>5. Good(n)
    <2> SUFFICES ASSUME S # {}
                 PROVE  FALSE
      BY <1>1
    <2>1. PICK m \in S : \A l \in S : m <= l
      <3> HIDE DEF S
      <3>1. S \subseteq Nat
        BY <1>1 DEF S
      <3>2. QED
        BY <3>1, LeastNumber
    <2>2. m \in 1..n
      BY <1>1, <1>3, <2>1
    <2>3. m - 1 \notin S
      <3> HIDE DEF S
      <3>1. QED
        BY <1>1, <2>1, <2>2
    <2> HIDE DEF Good
    <2>4. Good(m - 1)
      BY <1>1, <2>2, <2>3
    <2>5. Good(m)
      BY <1>4, <2>2, <2>4
    <2>6. QED
      BY <2>1, <2>5
  <1>6. Sunk(f[n], n)
    BY <1>1, <1>5
  <1>7. \A j \in 2..n : j # f[n].at => InOrder(f[n].h, j)
    BY <1>5, <1>6 DEF Sunk, SinksAt
  <1>8. QED
    BY <1>1, <1>2, <1>5, <1>7

-----------------------------------------------------------------------------
(* Push, Pop, Remove and Fix *)

Sound(h) == IsHeap(h) /\ Placed(h) /\ NoneElse(h) /\ Ordered(h)

\* The first of a heap is the earliest.
LEMMA HeadFirst ==
    ASSUME NEW h, IsHeap(h), Ordered(h), NEW k \in Places(h)
    PROVE  h.q[1].ts <= h.q[k].ts
  <1> DEFINE S == {i \in Places(h) : ~(h.q[1].ts <= h.q[i].ts)}
  <1>1. Len(h.q) \in Nat /\ Places(h) = 1..Len(h.q) /\ \A i \in Places(h) : h.q[i].ts \in Int
    BY EntryAt DEF Places
  <1> SUFFICES ASSUME S # {}
               PROVE  FALSE
    OBVIOUS
  <1>2. PICK m \in S : \A l \in S : m <= l
    <2> HIDE DEF S
    <2>1. S \subseteq Nat
      BY <1>1 DEF S
    <2>2. QED
      BY <2>1, LeastNumber
  <1>3. m \in 2..Len(h.q)
    BY <1>1, <1>2
  <1>4. m \div 2 \in Places(h) /\ m \div 2 < m /\ m \div 2 \in Nat
    BY <1>1, <1>3, Half
  <1>5. m \div 2 \notin S
    <2> HIDE DEF S
    <2>1. m \in Nat
      BY <1>1, <1>3
    <2>2. QED
      BY <1>2, <1>4, <2>1
  <1>6. h.q[1].ts <= h.q[m \div 2].ts /\ h.q[m \div 2].ts <= h.q[m].ts
    BY <1>3, <1>4, <1>5 DEF Ordered, InOrder
  <1>7. 1 \in Places(h) /\ m \in Places(h) /\ ~(h.q[1].ts <= h.q[m].ts)
    BY <1>1, <1>2, <1>3
  <1>8. h.q[1].ts \in Int /\ h.q[m].ts \in Int /\ h.q[m \div 2].ts \in Int
    BY <1>1, <1>4, <1>7
  <1>9. QED
    BY <1>6, <1>7, <1>8

\* Who is in it stays in it.
LEMMA SameSessions ==
    ASSUME NEW h, NEW g, IsHeap(h), Placed(h), Rearranged(h, g), NEW s \in Sessions
    PROVE  g.idx[s] = 0 <=> h.idx[s] = 0
  <1>1. CASE \A i \in Places(h) : h.q[i].s # s
    BY <1>1 DEF Rearranged
  <1>2. CASE \E i \in Places(h) : h.q[i].s = s
    <2>1. PICK i \in Places(h) : h.q[i].s = s
      BY <1>2
    <2>2. PICK j \in Places(g) : g.q[j] = h.q[i]
      BY DEF Rearranged, Entries
    <2>3. h.idx[s] = i /\ g.idx[s] = j
      BY <2>1, <2>2 DEF Rearranged, Placed
    <2>4. i # 0 /\ j # 0
      BY EntryAt DEF Places, Rearranged
    <2>5. QED
      BY <2>3, <2>4
  <1>3. QED
    BY <1>1, <1>2

\* Fix after the head was changed.
LEMMA FixedFacts ==
    ASSUME NEW h, IsHeap(h), Placed(h), NoneElse(h), Len(h.q) > 0,
           \A j \in 2..Len(h.q) : j \div 2 # 1 => InOrder(h, j)
    PROVE  Sound(Fixed(h)) /\ Rearranged(h, Fixed(h))
  <1> DEFINE n == Len(h.q)
             g == Down(h, 1, n)
  <1>1. n \in Nat /\ n \in 1..n /\ 1 \in 1..n
    BY EntryAt
  <1>2. SinksAt(h, n, 1)
    BY DEF SinksAt
  <1>3. Rearranged(h, g) /\ \A j \in 2..n : j # 1 => InOrder(g, j)
    BY <1>1, <1>2, DownFacts
  <1>4. Fixed(h) = g
    BY DEF Fixed
  <1> HIDE DEF g
  <1>5. Ordered(g)
    BY <1>1, <1>3 DEF Ordered, Rearranged
  <1>6. QED
    BY <1>3, <1>4, <1>5, NoneElseKept DEF Sound, Rearranged

\* Push of a session that is not in the heap.
LEMMA PushFacts ==
    ASSUME NEW h, Sound(h), NEW e \in Entry, h.idx[e.s] = 0
    PROVE  LET g == Push(h, e)
           IN  /\ Sound(g)
               /\ \A s \in Sessions : g.idx[s] = 0 <=> s # e.s /\ h.idx[s] = 0
  <1> DEFINE n == Len(h.q) + 1
             b == [q |-> Append(h.q, e), idx |-> [h.idx EXCEPT ![e.s] = n]]
  <1>1. IsHeap(h) /\ Placed(h) /\ NoneElse(h) /\ Ordered(h)
    BY DEF Sound
  <1>2. Len(h.q) \in Nat /\ h.q \in Seq(Entry) /\ h.idx \in [Sessions -> Nat] /\ e.s \in Sessions
    BY <1>1, EntryAt DEF IsHeap, Entry
  <1>3. /\ b.q \in Seq(Entry) /\ Len(b.q) = n /\ b.q[n] = e
        /\ \A k \in 1..Len(h.q) : b.q[k] = h.q[k]
    BY <1>2, AppendProperties
  <1>4. b.idx \in [Sessions -> Nat] /\ b.idx[e.s] = n /\ \A s \in Sessions \ {e.s} : b.idx[s] = h.idx[s]
    BY <1>2
  <1>5. b = [q |-> b.q, idx |-> b.idx]
    OBVIOUS
  <1>6. Push(h, e) = Up(b, n)
    BY DEF Push
  <1> HIDE DEF b
  <1>7. IsHeap(b) /\ n \in Nat /\ Places(b) = 1..n /\ n \in 1..n
    BY <1>2, <1>3, <1>4, <1>5 DEF IsHeap, Places
  <1>8. \A k \in 1..Len(h.q) : h.q[k].s \in Sessions \ {e.s} /\ h.idx[h.q[k].s] = k
    <2>1. \A k \in 1..Len(h.q) : h.q[k].s \in Sessions /\ h.idx[h.q[k].s] = k /\ k # 0
      BY <1>1, <1>2, EntryAt DEF Placed, Places
    <2>2. QED
      BY <2>1
  <1>9. Placed(b)
    <2>1. ASSUME NEW k \in 1..Len(h.q)
          PROVE  b.idx[b.q[k].s] = k
      BY <1>3, <1>4, <1>8
    <2>2. b.idx[b.q[n].s] = n
      BY <1>3, <1>4
    <2>3. \A k \in 1..n : k = n \/ k \in 1..Len(h.q)
      BY <1>2
    <2>4. QED
      BY <1>7, <2>1, <2>2, <2>3 DEF Placed
  <1>10. NoneElse(b)
    <2>1. b.idx[e.s] \in Places(b) /\ b.q[b.idx[e.s]].s = e.s
      BY <1>3, <1>4, <1>7
    <2>2. ASSUME NEW s \in Sessions, s # e.s, b.idx[s] # 0
          PROVE  b.idx[s] \in Places(b) /\ b.q[b.idx[s]].s = s
      <3>1. b.idx[s] = h.idx[s] /\ h.idx[s] \in 1..Len(h.q) /\ h.q[h.idx[s]].s = s
        BY <1>1, <1>4, <2>2 DEF NoneElse, Places
      <3>2. 1..Len(h.q) \subseteq Places(b)
        BY <1>2, <1>7
      <3>3. QED
        BY <1>3, <3>1, <3>2
    <2>3. QED
      BY <2>1, <2>2 DEF NoneElse
  <1>11. RisesAt(b, n)
    <2>1. ASSUME NEW j \in 2..n
          PROVE  j \div 2 # n /\ (j # n => InOrder(b, j))
      <3>1. j \div 2 \in Nat /\ j \div 2 >= 1 /\ j \div 2 < j
        BY <1>2, Half
      <3>2. CASE j # n
        <4>1. j \in 2..Len(h.q) /\ j \in 1..Len(h.q) /\ j \div 2 \in 1..Len(h.q)
          BY <1>2, <3>1, <3>2
        <4>2. b.q[j] = h.q[j] /\ b.q[j \div 2] = h.q[j \div 2]
          BY <1>3, <4>1
        <4>3. h.q[j \div 2].ts <= h.q[j].ts
          BY <1>1, <4>1 DEF Ordered, InOrder
        <4>4. QED
          BY <3>1, <4>2, <4>3 DEF InOrder
      <3>3. QED
        BY <1>2, <3>1, <3>2
    <2>2. QED
      BY <1>3, <2>1 DEF RisesAt
  <1>12. Rearranged(b, Up(b, n)) /\ Ordered(Up(b, n))
    BY <1>7, <1>9, <1>11, UpFacts
  <1>13. ASSUME NEW s \in Sessions
         PROVE  Up(b, n).idx[s] = 0 <=> s # e.s /\ h.idx[s] = 0
    <2>1. Up(b, n).idx[s] = 0 <=> b.idx[s] = 0
      BY <1>7, <1>9, <1>12, SameSessions
    <2>2. n # 0
      BY <1>2
    <2>3. QED
      BY <1>4, <2>1, <2>2
  <1>14. Sound(Up(b, n))
    BY <1>7, <1>10, <1>12, NoneElseKept DEF Sound, Rearranged
  <1>15. QED
    BY <1>6, <1>13, <1>14

\* Pop, which only looks at the last entry.
LEMMA PopFacts ==
    ASSUME NEW h, IsHeap(h), Placed(h), NoneElse(h), Len(h.q) > 0,
           \A j \in 2..(Len(h.q) - 1) : InOrder(h, j)
    PROVE  LET g == Pop(h)
               n == Len(h.q)
           IN  /\ Sound(g) /\ Entries(g) \subseteq Entries(h)
               /\ \A s \in Sessions : g.idx[s] = 0 <=> s = h.q[n].s \/ h.idx[s] = 0
  <1> DEFINE n == Len(h.q)
             g == Pop(h)
  <1>1. n \in Nat /\ n \in Places(h) /\ Places(h) = 1..n /\ h.q \in Seq(Entry) /\ h.idx \in [Sessions -> Nat]
    BY EntryAt DEF Places, IsHeap
  <1>2. g = [q |-> SubSeq(h.q, 1, n - 1), idx |-> [h.idx EXCEPT ![h.q[n].s] = 0]]
    BY DEF Pop
  <1>3. /\ g.q \in Seq(Entry) /\ Len(g.q) = n - 1
        /\ \A k \in 1..(n - 1) : g.q[k] = h.q[k]
    <2>1. n - 1 \in 0..n
      BY <1>1
    <2>2. QED
      BY <1>1, <1>2, <2>1, SubSeqProperties
  <1>4. h.q[n].s \in Sessions
    BY <1>1, EntryAt
  <1>5. /\ g.idx \in [Sessions -> Nat] /\ g.idx[h.q[n].s] = 0
        /\ \A s \in Sessions \ {h.q[n].s} : g.idx[s] = h.idx[s]
    BY <1>1, <1>2, <1>4
  <1> HIDE DEF g
  <1>6. IsHeap(g) /\ Places(g) = 1..(n - 1)
    BY <1>2, <1>3, <1>5 DEF IsHeap, Places
  <1>7. \A k \in 1..(n - 1) : h.q[k].s \in Sessions \ {h.q[n].s} /\ h.idx[h.q[k].s] = k
    <2>1. \A k \in 1..(n - 1) : k \in Places(h) /\ k # n
      BY <1>1
    <2>2. QED
      BY <1>1, <2>1, EntryAt DEF Placed
  <1>8. Placed(g)
    <2>1. ASSUME NEW k \in 1..(n - 1)
          PROVE  g.idx[g.q[k].s] = k
      <3>1. g.q[k] = h.q[k]
        BY <1>3
      <3>2. h.q[k].s \in Sessions \ {h.q[n].s} /\ h.idx[h.q[k].s] = k
        BY <1>7
      <3>3. g.idx[h.q[k].s] = k
        BY <1>5, <3>2
      <3>4. QED
        BY <3>1, <3>3
    <2>2. QED
      BY <1>6, <2>1 DEF Placed
  <1>9. NoneElse(g)
    <2>1. ASSUME NEW s \in Sessions, g.idx[s] # 0
          PROVE  g.idx[s] \in Places(g) /\ g.q[g.idx[s]].s = s
      <3>1. s # h.q[n].s /\ g.idx[s] = h.idx[s]
        BY <1>5, <2>1
      <3>2. h.idx[s] \in 1..n /\ h.q[h.idx[s]].s = s
        BY <1>1, <2>1, <3>1 DEF NoneElse
      <3>3. h.idx[s] \in 1..(n - 1)
        BY <1>1, <3>1, <3>2
      <3>4. QED
        BY <1>3, <1>6, <3>1, <3>2, <3>3
    <2>2. QED
      BY <2>1 DEF NoneElse
  <1>10. Ordered(g)
    <2>1. ASSUME NEW j \in 2..(n - 1)
          PROVE  InOrder(g, j)
      <3>1. j \div 2 \in 1..(n - 1) /\ j \in 1..(n - 1)
        BY <1>1, Half
      <3>2. QED
        BY <1>3, <3>1 DEF InOrder
    <2>2. QED
      BY <1>3, <2>1 DEF Ordered
  <1>11. Entries(g) \subseteq Entries(h)
    <2>1. \A k \in 1..(n - 1) : k \in Places(h)
      BY <1>1
    <2>2. QED
      BY <1>3, <1>6, <2>1 DEF Entries
  <1>12. \A s \in Sessions : g.idx[s] = 0 <=> s = h.q[n].s \/ h.idx[s] = 0
    BY <1>5
  <1>13. Sound(g)
    BY <1>6, <1>8, <1>9, <1>10 DEF Sound
  <1>14. QED
    BY <1>11, <1>12, <1>13 DEF g

\* A record of a queue and of places.
LEMMA HeapRecord ==
    ASSUME NEW h, NEW q, NEW idx, h = [q |-> q, idx |-> idx]
    PROVE  h.q = q /\ h.idx = idx
  OBVIOUS

\* Another queue with the same places.
LEMMA QueueReplaced ==
    ASSUME NEW h, IsHeap(h), NEW q
    PROVE  [h EXCEPT !.q = q] = [q |-> q, idx |-> h.idx]
  BY DEF IsHeap

WithoutLast(h) == [q |-> SubSeq(h.q, 1, Len(h.q) - 1), idx |-> h.idx]

\* The entry at i rises among all but the last, which is then put back.
RisenBeforeLast(h, i) ==
    LET u == Up(WithoutLast(h), i) IN [q |-> Append(u.q, h.q[Len(h.q)]), idx |-> u.idx]

\* Remove, when the last entry has changed places with one that does not sink there.
LEMMA RiseBeforeLast ==
    ASSUME NEW h, IsHeap(h), Placed(h), NEW i \in 1..(Len(h.q) - 1), RisesAt(WithoutLast(h), i)
    PROVE  LET g == RisenBeforeLast(h, i)
               n == Len(h.q)
           IN  Rearranged(h, g) /\ g.q[n] = h.q[n] /\ \A j \in 2..(n - 1) : InOrder(g, j)
  <1> DEFINE n == Len(h.q)
             b == WithoutLast(h)
             u == Up(b, i)
             w == RisenBeforeLast(h, i)
  <1>1. /\ b = [q |-> SubSeq(h.q, 1, n - 1), idx |-> h.idx]
        /\ w = [q |-> Append(u.q, h.q[n]), idx |-> u.idx]
        /\ RisesAt(b, i) /\ n \in Nat /\ i \in 1..(n - 1) /\ Len(h.q) = n
    BY EntryAt DEF WithoutLast, RisenBeforeLast
  <1> HIDE DEF n, b, w
  <1>2. /\ h.q \in Seq(Entry) /\ h.idx \in [Sessions -> Nat] /\ Places(h) = 1..n /\ n \in 1..n
        /\ 1..n = 1..(n - 1) \cup {n} /\ n \notin 1..(n - 1) /\ n - 1 \in 0..n /\ n - 1 \in Nat
    BY <1>1 DEF IsHeap, Places
  <1>3. /\ b.q \in Seq(Entry) /\ Len(b.q) = n - 1 /\ b.idx = h.idx
        /\ \A k \in 1..(n - 1) : b.q[k] = h.q[k]
    BY <1>1, <1>2, HeapRecord, SubSeqProperties
  <1>4. IsHeap(b) /\ Places(b) = 1..(n - 1)
    BY <1>1, <1>2, <1>3 DEF IsHeap, Places
  <1>5. \A k \in 1..n : h.idx[h.q[k].s] = k /\ h.q[k] \in Entry /\ h.q[k].s \in Sessions
    BY <1>2, EntryAt DEF Placed
  <1>6. Placed(b)
    <2>1. ASSUME NEW k \in 1..(n - 1)
          PROVE  b.idx[b.q[k].s] = k
      BY <1>2, <1>3, <1>5
    <2>2. QED
      BY <1>4, <2>1 DEF Placed
  <1>7. Rearranged(b, u) /\ Ordered(u)
    BY <1>1, <1>4, <1>6, UpFacts
  <1>8. w = [q |-> Append(u.q, h.q[n]), idx |-> u.idx]
    BY <1>1
  <1> HIDE DEF u
  <1>9. u.q \in Seq(Entry) /\ u.idx \in [Sessions -> Nat] /\ Len(u.q) = n - 1 /\ Places(u) = 1..(n - 1)
    BY <1>1, <1>3, <1>7 DEF Rearranged, IsHeap, Places
  <1>10. h.q[n] \in Entry
    BY <1>2, <1>5
  <1>11. /\ w.q \in Seq(Entry) /\ Len(w.q) = n /\ w.q[n] = h.q[n] /\ w.idx = u.idx
         /\ \A k \in 1..(n - 1) : w.q[k] = u.q[k]
    <2>1. w.q = Append(u.q, h.q[n]) /\ w.idx = u.idx
      BY <1>8, HeapRecord
    <2>2. (n - 1) + 1 = n
      BY <1>1
    <2>3. /\ Append(u.q, h.q[n]) \in Seq(Entry) /\ Len(Append(u.q, h.q[n])) = n
          /\ Append(u.q, h.q[n])[n] = h.q[n] /\ \A k \in 1..(n - 1) : Append(u.q, h.q[n])[k] = u.q[k]
      BY <1>9, <1>10, <2>2, AppendProperties
    <2>4. QED
      BY <2>1, <2>3
  <1>12. IsHeap(w) /\ Places(w) = 1..n
    BY <1>1, <1>8, <1>9, <1>11 DEF IsHeap, Places
  <1>13. Placed(w)
    <2>1. ASSUME NEW k \in 1..(n - 1)
          PROVE  h.q[k].s # h.q[n].s
      <3>1. k \in 1..n /\ n \in 1..n /\ k # n
        BY <1>2
      <3>2. h.idx[h.q[k].s] = k /\ h.idx[h.q[n].s] = n
        BY <1>5, <3>1
      <3>3. QED
        BY <3>1, <3>2
    <2>2. \A k \in Places(b) : b.q[k].s # h.q[n].s
      BY <1>3, <1>4, <2>1
    <2>3. u.idx[h.q[n].s] = n
      BY <1>2, <1>3, <1>5, <1>7, <2>2 DEF Rearranged
    <2>4. \A k \in 1..(n - 1) : u.idx[u.q[k].s] = k
      BY <1>7, <1>9 DEF Rearranged, Placed
    <2>5. ASSUME NEW k \in 1..n
          PROVE  w.idx[w.q[k].s] = k
      BY <1>2, <1>11, <2>3, <2>4
    <2>6. QED
      BY <1>12, <2>5 DEF Placed
  <1>14. Entries(w) = Entries(h)
    <2>1. ASSUME NEW e
          PROVE  e \in Entries(w) <=> e \in Entries(h)
      <3>1. e \in Entries(w) <=> (\E k \in 1..(n - 1) : e = u.q[k]) \/ e = h.q[n]
        <4>1. e \in Entries(w) <=> \E k \in 1..n : e = w.q[k]
          BY <1>12 DEF Entries
        <4>2. \A k \in 1..n : k = n \/ k \in 1..(n - 1)
          BY <1>1
        <4>3. \A k \in 1..(n - 1) : k \in 1..n
          BY <1>1
        <4>4. n \in 1..n
          BY <1>2
        <4>5. QED
          BY <1>11, <4>1, <4>2, <4>3, <4>4
      <3>2. e \in Entries(h) <=> (\E k \in 1..(n - 1) : e = b.q[k]) \/ e = h.q[n]
        <4>1. e \in Entries(h) <=> \E k \in 1..n : e = h.q[k]
          BY <1>2 DEF Entries
        <4>2. \A k \in 1..n : k = n \/ k \in 1..(n - 1)
          BY <1>1
        <4>3. \A k \in 1..(n - 1) : k \in 1..n
          BY <1>1
        <4>4. n \in 1..n
          BY <1>2
        <4>5. QED
          BY <1>3, <4>1, <4>2, <4>3, <4>4
      <3>3. e \in Entries(u) <=> \E k \in 1..(n - 1) : e = u.q[k]
        BY <1>9 DEF Entries
      <3>4. e \in Entries(b) <=> \E k \in 1..(n - 1) : e = b.q[k]
        BY <1>4 DEF Entries
      <3>5. QED
        BY <1>7, <3>1, <3>2, <3>3, <3>4 DEF Rearranged
    <2>2. QED
      BY <2>1
  <1>15. ASSUME NEW s \in Sessions, \A k \in Places(h) : h.q[k].s # s
         PROVE  w.idx[s] = h.idx[s]
    <2>1. \A k \in Places(b) : b.q[k].s # s
      BY <1>2, <1>3, <1>4, <1>15
    <2>2. QED
      BY <1>3, <1>7, <1>11, <2>1 DEF Rearranged
  <1>16. ASSUME NEW j \in 2..(n - 1)
         PROVE  InOrder(w, j)
    <2>1. j \div 2 \in 1..(n - 1) /\ j \in 1..(n - 1)
      BY <1>1, Half
    <2>2. InOrder(u, j)
      BY <1>7, <1>9 DEF Ordered
    <2>3. QED
      BY <1>11, <2>1, <2>2 DEF InOrder
  <1>17. Rearranged(h, w)
    BY <1>1, <1>11, <1>12, <1>13, <1>14, <1>15 DEF Rearranged
  <1>18. QED
    BY <1>11, <1>16, <1>17 DEF n, w

\* Remove, whatever place the session has.
LEMMA RemovedFacts ==
    ASSUME NEW h, Sound(h), NEW i \in Places(h)
    PROVE  LET g == Removed(h, i)
           IN  /\ Sound(g) /\ Entries(g) \subseteq Entries(h)
               /\ \A s \in Sessions : g.idx[s] = 0 <=> s = h.q[i].s \/ h.idx[s] = 0
  <1> DEFINE n == Len(h.q)
             swapped == Swap(h, i, n)
             sunk == Down(swapped, i, n - 1)
             b == WithoutLast(swapped)
             w == RisenBeforeLast(swapped, i)
  <1>1. /\ IsHeap(h) /\ Placed(h) /\ NoneElse(h) /\ Ordered(h)
        /\ n \in Nat /\ i \in 1..n /\ n \in Places(h) /\ Places(h) = 1..n
    BY EntryAt DEF Sound, Places
  \* It is enough that the session is brought to the last place, with order before it.
  <1>2. ASSUME NEW x, Rearranged(h, x), x.q[n] = h.q[i], \A j \in 2..(n - 1) : InOrder(x, j)
        PROVE  /\ Sound(Pop(x)) /\ Entries(Pop(x)) \subseteq Entries(h)
               /\ \A s \in Sessions : Pop(x).idx[s] = 0 <=> s = h.q[i].s \/ h.idx[s] = 0
    <2>1. IsHeap(x) /\ Placed(x) /\ NoneElse(x) /\ Len(x.q) = n /\ n > 0 /\ Entries(x) = Entries(h)
      BY <1>1, <1>2, NoneElseKept DEF Rearranged
    <2>2. /\ Sound(Pop(x)) /\ Entries(Pop(x)) \subseteq Entries(x)
          /\ \A s \in Sessions : Pop(x).idx[s] = 0 <=> s = x.q[n].s \/ x.idx[s] = 0
      BY <1>2, <2>1, PopFacts
    <2>3. \A s \in Sessions : x.idx[s] = 0 <=> h.idx[s] = 0
      BY <1>1, <1>2, SameSessions
    <2>4. QED
      BY <1>2, <2>1, <2>2, <2>3
  <1>3. CASE i = n
    <2>1. Removed(h, i) = Pop(h)
      BY <1>3 DEF Removed
    <2>2. Rearranged(h, h) /\ \A j \in 2..(n - 1) : InOrder(h, j)
      BY <1>1 DEF Rearranged, Ordered
    <2>3. QED
      BY <1>2, <1>3, <2>1, <2>2
  <1>4. CASE i # n
    <2>1. n - 1 \in Nat /\ n - 1 \in 1..n /\ i \in 1..(n - 1) /\ 1..(n - 1) \subseteq Places(h)
      BY <1>1, <1>4
    <2>2. Removed(h, i) = Pop(IF sunk # swapped THEN sunk
                              ELSE [Up([swapped EXCEPT !.q = SubSeq(@, 1, n - 1)], i)
                                    EXCEPT !.q = Append(@, swapped.q[n])])
      BY <1>4 DEF Removed
    <2>3. /\ Rearranged(h, swapped) /\ swapped.q[i] = h.q[n] /\ swapped.q[n] = h.q[i]
          /\ \A k \in Places(h) \ {i, n} : swapped.q[k] = h.q[k]
      BY <1>1, Swapping
    <2> HIDE DEF swapped
    <2>4. /\ IsHeap(swapped) /\ Placed(swapped) /\ Len(swapped.q) = n /\ Places(swapped) = Places(h)
          /\ NoneElse(swapped)
      BY <1>1, <2>3, NoneElseKept DEF Rearranged, Places
    <2>5. SinksAt(swapped, n - 1, i)
      <3>1. ASSUME NEW j \in 2..(n - 1)
            PROVE  /\ j \div 2 \in 1..(n - 1) /\ j \in 1..(n - 1) /\ j \div 2 # j
                   /\ h.q[j \div 2].ts <= h.q[j].ts /\ h.q[j \div 2].ts \in Int /\ h.q[j].ts \in Int
                   /\ j \div 2 # n /\ j # n
        <4>1. j \div 2 \in 1..(n - 1) /\ j \in 1..(n - 1) /\ j \div 2 # j /\ j \in 2..n
          BY <1>1, Half
        <4>2. j \div 2 \in Places(h) /\ j \in Places(h) /\ j \div 2 # n /\ j # n
          BY <1>1, <2>1, <4>1
        <4>3. QED
          BY <1>1, <4>1, <4>2, EntryAt DEF Ordered, InOrder
      <3>2. ASSUME NEW j \in 2..(n - 1), j # i, j \div 2 # i
            PROVE  InOrder(swapped, j)
        BY <2>1, <2>3, <3>1, <3>2 DEF InOrder
      <3>3. ASSUME NEW j \in 2..(n - 1), j \div 2 = i, i > 1
            PROVE  swapped.q[i \div 2].ts <= swapped.q[j].ts
        <4>1. i \in 2..(n - 1)
          BY <2>1, <3>3
        <4>2. i \div 2 \in Places(h) \ {i, n} /\ j \in Places(h) \ {i, n}
          BY <2>1, <3>1, <3>3, <4>1
        <4>3. swapped.q[i \div 2] = h.q[i \div 2] /\ swapped.q[j] = h.q[j]
          BY <2>3, <4>2
        <4>4. h.q[i \div 2].ts <= h.q[i].ts /\ h.q[i].ts <= h.q[j].ts
          BY <3>1, <3>3, <4>1
        <4>5. h.q[i \div 2].ts \in Int /\ h.q[i].ts \in Int /\ h.q[j].ts \in Int
          BY <3>1, <3>3, <4>1
        <4>6. QED
          BY <4>3, <4>4, <4>5
      <3>4. QED
        BY <3>2, <3>3 DEF SinksAt
    <2>6. /\ Rearranged(swapped, sunk)
          /\ \A k \in Places(h) : k > n - 1 => sunk.q[k] = swapped.q[k]
          /\ \A j \in 2..(n - 1) : j # i => InOrder(sunk, j)
          /\ i > 1 => InOrder(sunk, i) \/ sunk = swapped
      BY <2>1, <2>4, <2>5, DownFacts
    <2> HIDE DEF sunk
    <2>7. CASE sunk # swapped
      <3>1. Rearranged(h, sunk)
        BY <1>1, <2>3, <2>6, RearrangedTwice
      <3>2. sunk.q[n] = h.q[i]
        BY <1>1, <2>3, <2>6
      <3>3. \A j \in 2..(n - 1) : InOrder(sunk, j)
        BY <2>1, <2>6, <2>7
      <3>4. QED
        BY <1>2, <2>2, <2>7, <3>1, <3>2, <3>3
    <2>8. CASE sunk = swapped
      <3>1. /\ b = [q |-> SubSeq(swapped.q, 1, n - 1), idx |-> swapped.idx]
            /\ [swapped EXCEPT !.q = SubSeq(@, 1, n - 1)] = [q |-> SubSeq(swapped.q, 1, n - 1), idx |-> swapped.idx]
        BY <2>4, QueueReplaced DEF WithoutLast
      <3>2. /\ swapped.q \in Seq(Entry) /\ Len(b.q) = n - 1
            /\ \A k \in 1..(n - 1) : b.q[k] = swapped.q[k]
        <4>1. n - 1 \in 0..n /\ swapped.q \in Seq(Entry)
          BY <1>1, <2>4 DEF IsHeap
        <4>2. QED
          BY <2>4, <3>1, <4>1, SubSeqProperties
      <3> HIDE DEF b
      <3>3. \A j \in 2..(n - 1) : j \div 2 \in 1..(n - 1) /\ j \in 1..(n - 1)
        BY <1>1, Half
      <3>4. RisesAt(b, i)
        <4>1. ASSUME NEW j \in 2..(n - 1), j # i
              PROVE  InOrder(b, j)
          BY <2>6, <2>8, <3>2, <3>3, <4>1 DEF InOrder
        <4>2. ASSUME NEW j \in 2..(n - 1), j \div 2 = i, i > 1
              PROVE  b.q[i \div 2].ts <= b.q[j].ts
          <5>1. i \in 2..(n - 1)
            BY <2>1, <4>2
          <5>2. i \div 2 \in 1..(n - 1) /\ j \in 1..(n - 1)
            BY <3>3, <5>1
          <5>3. QED
            BY <2>5, <3>2, <4>2, <5>2 DEF SinksAt
        <4>3. QED
          BY <3>2, <4>1, <4>2 DEF RisesAt
      <3> DEFINE u == Up(b, i)
      <3>5. b \in [q : Seq(Entry), idx : [Sessions -> Nat]] /\ i \in Places(b) /\ Placed(b)
        <4>1. swapped.idx \in [Sessions -> Nat] /\ b.q \in Seq(Entry) /\ b.idx = swapped.idx
          <5>1. n - 1 \in 0..n
            BY <1>1
          <5>2. QED
            BY <2>4, <3>1, <3>2, <5>1, SubSeqProperties DEF IsHeap
        <4>2. Places(b) = 1..(n - 1)
          BY <3>2 DEF Places
        <4>3. QED
          BY <2>1, <2>4, <3>1, <3>2, <4>1, <4>2 DEF Placed
      <3>6. IsHeap(u)
        BY <3>4, <3>5, UpFacts DEF IsHeap, Rearranged
      <3>7. Removed(h, i) = Pop(w)
        <4>1. [u EXCEPT !.q = Append(u.q, swapped.q[n])] = [q |-> Append(u.q, swapped.q[n]), idx |-> u.idx]
          BY <3>6, QueueReplaced
        <4>2. w = [q |-> Append(u.q, swapped.q[n]), idx |-> u.idx]
          BY <2>4 DEF RisenBeforeLast, b
        <4>3. QED
          BY <2>2, <2>8, <3>1, <4>1, <4>2
      <3> HIDE DEF u, w
      <3>8. Rearranged(swapped, w) /\ w.q[n] = swapped.q[n] /\ \A j \in 2..(n - 1) : InOrder(w, j)
        BY <2>1, <2>4, <3>4, RiseBeforeLast DEF b, w
      <3>9. Rearranged(h, w)
        BY <1>1, <2>3, <3>8, RearrangedTwice
      <3>10. QED
        BY <1>2, <2>3, <3>7, <3>8, <3>9
    <2>9. QED
      BY <2>7, <2>8
  <1>5. QED
    BY <1>3, <1>4

-----------------------------------------------------------------------------
(* The updater *)

\* updateTask has h.mu in its loop, whose turns are not more than there are entries; and
\* only open sessions are in the heap.
Turn ==
    /\ holdsMu <=> task \in {"loop", "update"}
    /\ task \in {"loop", "update"} => left <= Len(entries)
    /\ task = "update" => left > 0
    /\ \A s \in Sessions : updaterIdx[s] # 0 => s \in open

UpdaterIInv == HeapInv /\ Turn

\* The longest interval, and the instants.
LEMMA LongestInterval ==
    /\ Max(Intervals) \in Nat /\ \A i \in Intervals : i \in Nat /\ 1 <= i /\ i <= Max(Intervals)
    /\ Max(Intervals) >= 1 /\ MaxLate \in Nat
    /\ Off = Max(Intervals) + 1
    /\ \A x : x \in Instant <=> x \in Int /\ -MaxLate <= x /\ x <= Max(Intervals)
  <1>1. PICK m \in Intervals : \A i \in Intervals : i <= m
    BY ConstantsAssumption
  <1>2. \A i \in Intervals : i \in Nat /\ 1 <= i
    BY ConstantsAssumption
  <1>3. \A i \in Intervals : m >= i
    BY <1>1, <1>2
  <1>4. Max(Intervals) \in Intervals /\ \A i \in Intervals : Max(Intervals) >= i
    BY <1>1, <1>3 DEF Max
  <1>5. Max(Intervals) \in Nat /\ Max(Intervals) >= 1 /\ \A i \in Intervals : i <= Max(Intervals)
    BY <1>2, <1>4
  <1>6. MaxLate \in Nat
    BY ConstantsAssumption
  <1>7. \A x : x \in Instant <=> x \in Int /\ -MaxLate <= x /\ x <= Max(Intervals)
    BY <1>5, <1>6 DEF Instant
  <1>8. QED
    BY <1>2, <1>5, <1>6, <1>7 DEF Off

\* The state's heap is such a heap.
LEMMA HeapOfState ==
    TypeOK /\ PlacesKnown /\ HeadIsEarliest
      <=> /\ TypeOK /\ Sound(Heap)
          /\ Heap.q = entries /\ Heap.idx = updaterIdx /\ Places(Heap) = 1..Len(entries)
          /\ Len(entries) \in Nat /\ DOMAIN entries = 1..Len(entries)
          /\ \A i \in 1..Len(entries) : entries[i].ts \in Instant /\ entries[i].s \in Sessions
  <1> SUFFICES ASSUME TypeOK
               PROVE  /\ PlacesKnown /\ HeadIsEarliest <=> Sound(Heap)
                      /\ Heap.q = entries /\ Heap.idx = updaterIdx /\ Places(Heap) = 1..Len(entries)
                      /\ Len(entries) \in Nat /\ DOMAIN entries = 1..Len(entries)
                      /\ \A i \in 1..Len(entries) : entries[i].ts \in Instant /\ entries[i].s \in Sessions
    OBVIOUS
  <1>1. entries \in Seq(Entry) /\ updaterIdx \in [Sessions -> Nat]
    BY DEF TypeOK, Entry
  <1>2. Len(entries) \in Nat /\ DOMAIN entries = 1..Len(entries) /\ entries \in [1..Len(entries) -> Entry]
    BY <1>1, LenProperties
  <1>3. Heap.q = entries /\ Heap.idx = updaterIdx /\ Places(Heap) = 1..Len(entries) /\ IsHeap(Heap)
    BY <1>1 DEF Heap, Places, IsHeap
  <1>4. PlacesKnown <=> Placed(Heap) /\ NoneElse(Heap)
    BY <1>2, <1>3 DEF PlacesKnown, Placed, NoneElse
  <1>5. HeadIsEarliest <=> Ordered(Heap)
    BY <1>3 DEF HeadIsEarliest, Ordered, InOrder
  <1>6. \A i \in 1..Len(entries) : entries[i].ts \in Instant /\ entries[i].s \in Sessions
    BY <1>2 DEF Entry
  <1>7. QED
    BY <1>2, <1>3, <1>4, <1>5, <1>6 DEF Sound

\* A step that leaves such a heap.
LEMMA HeapAfter ==
    ASSUME NEW h, Sound(h), SetHeap(h)
    PROVE  /\ entries' \in Seq(Entry) /\ updaterIdx' \in [Sessions -> Nat]
           /\ PlacesKnown' /\ HeadIsEarliest'
           /\ entries' = h.q /\ updaterIdx' = h.idx
  <1>1. entries' = h.q /\ updaterIdx' = h.idx
    BY DEF SetHeap
  <1>2. IsHeap(h) /\ Placed(h) /\ NoneElse(h) /\ Ordered(h)
    BY DEF Sound
  <1>3. entries' \in Seq(Entry) /\ updaterIdx' \in [Sessions -> Nat] /\ DOMAIN (entries') = 1..Len(entries')
    BY <1>1, <1>2, LenProperties DEF IsHeap
  <1>4. PlacesKnown'
    BY <1>1, <1>2, <1>3 DEF PlacesKnown, Placed, NoneElse, Places
  <1>5. HeadIsEarliest'
    BY <1>1, <1>2 DEF HeadIsEarliest, Ordered, InOrder
  <1>6. QED
    BY <1>1, <1>3, <1>4, <1>5

\* addSession.
LEMMA AddKeeps ==
    ASSUME UpdaterIInv, NEW s \in Sessions, Add(s)
    PROVE  UpdaterIInv' /\ \A z \in Sessions : updaterIdx'[z] = 0 <=> z # s /\ updaterIdx[z] = 0
  <1> DEFINE e == [ts |-> 0, s |-> s]
             g == Push(Heap, e)
  <1>1. /\ TypeOK /\ Sound(Heap) /\ Heap.idx = updaterIdx /\ WakesInTime /\ Turn
        /\ s \notin open /\ ~holdsMu /\ SetHeap(g)
        /\ open' = open \cup {s} /\ waking' = waking \cup {s}
        /\ UNCHANGED <<holdsMu, task, left, chWakeUp, timer, timerC, busy>>
    BY HeapOfState DEF UpdaterIInv, HeapInv, Add
  <1>2. e \in Entry /\ e.s = s /\ Heap.idx[s] = 0
    BY <1>1, LongestInterval DEF Entry, Turn
  <1> HIDE DEF e
  <1>3. Sound(g) /\ \A z \in Sessions : g.idx[z] = 0 <=> z # s /\ updaterIdx[z] = 0
    BY <1>1, <1>2, PushFacts
  <1> HIDE DEF g
  <1>4. /\ entries' \in Seq(Entry) /\ updaterIdx' \in [Sessions -> Nat]
        /\ PlacesKnown' /\ HeadIsEarliest' /\ updaterIdx' = g.idx
    BY <1>1, <1>3, HeapAfter
  <1>5. TypeOK'
    BY <1>1, <1>4 DEF TypeOK, Entry
  <1>6. WakesInTime'
    BY <1>1 DEF WakesInTime
  <1>7. Turn'
    BY <1>1, <1>3, <1>4 DEF Turn
  <1>8. QED
    BY <1>3, <1>4, <1>5, <1>6, <1>7 DEF UpdaterIInv, HeapInv

\* removeSession.
LEMMA RemoveKeeps ==
    ASSUME UpdaterIInv, NEW s \in Sessions, Remove(s)
    PROVE  UpdaterIInv' /\ \A z \in Sessions : updaterIdx'[z] = 0 <=> z = s \/ updaterIdx[z] = 0
  <1>1. /\ TypeOK /\ Sound(Heap) /\ Heap.q = entries /\ Heap.idx = updaterIdx
        /\ PlacesKnown /\ WakesInTime /\ Turn /\ ~holdsMu
        /\ Places(Heap) = 1..Len(entries) /\ DOMAIN entries = 1..Len(entries) /\ Len(entries) \in Nat
        /\ \A k \in 1..Len(entries) : entries[k].ts \in Instant
        /\ UNCHANGED <<holdsMu, task, left, chWakeUp, timer, timerC, waking, open, busy>>
    BY HeapOfState DEF UpdaterIInv, HeapInv, Remove
  <1>2. CASE updaterIdx[s] = 0
    <2>1. entries' = entries /\ updaterIdx' = updaterIdx
      BY <1>2 DEF Remove, heap
    <2>2. UpdaterIInv'
      BY <1>1, <2>1 DEF UpdaterIInv, HeapInv, TypeOK, PlacesKnown, HeadIsEarliest, WakesInTime, Turn
    <2>3. QED
      BY <1>2, <2>1, <2>2
  <1>3. CASE updaterIdx[s] # 0
    <2> DEFINE i == updaterIdx[s]
               g == Removed(Heap, i)
    <2>1. i \in Places(Heap) /\ Heap.q[i].s = s /\ SetHeap(g)
      BY <1>1, <1>3 DEF PlacesKnown, Remove
    <2>2. /\ Sound(g) /\ Entries(g) \subseteq Entries(Heap)
          /\ \A z \in Sessions : g.idx[z] = 0 <=> z = s \/ updaterIdx[z] = 0
      BY <1>1, <2>1, RemovedFacts
    <2> HIDE DEF g
    <2>3. /\ entries' \in Seq(Entry) /\ updaterIdx' \in [Sessions -> Nat]
          /\ PlacesKnown' /\ HeadIsEarliest' /\ updaterIdx' = g.idx /\ entries' = g.q
      BY <2>1, <2>2, HeapAfter
    <2>4. TypeOK'
      BY <1>1, <2>3 DEF TypeOK, Entry
    <2>5. WakesInTime'
      <3>1. SUFFICES ASSUME task = "select", entries' # <<>>, ~timerC, ~chWakeUp, waking = {}
                     PROVE  timer <= entries'[1].ts
        BY <1>1 DEF WakesInTime
      <3>2. 1 \in Places(g)
        BY <2>3, <3>1 DEF Places
      <3>3. PICK k \in 1..Len(entries) : entries'[1] = entries[k]
        <4>1. entries'[1] \in Entries(Heap)
          BY <2>2, <2>3, <3>2 DEF Entries
        <4>2. QED
          BY <1>1, <4>1 DEF Entries
      <3>4. entries[1].ts <= entries[k].ts
        BY <1>1, HeadFirst DEF Sound
      <3>5. timer <= entries[1].ts
        BY <1>1, <3>1, <3>3 DEF WakesInTime
      <3>6. timer \in Int /\ entries[1].ts \in Int /\ entries[k].ts \in Int
        <4>1. 1 \in 1..Len(entries)
          BY <1>1
        <4>2. entries[1].ts \in Instant /\ entries[k].ts \in Instant
          BY <1>1, <4>1
        <4>3. QED
          BY <1>1, <4>2, LongestInterval DEF TypeOK
      <3>7. QED
        BY <3>3, <3>4, <3>5, <3>6
    <2>6. Turn'
      BY <1>1, <2>2, <2>3 DEF Turn
    <2>7. QED
      BY <2>2, <2>3, <2>4, <2>5, <2>6 DEF UpdaterIInv, HeapInv
  <1>4. QED
    BY <1>2, <1>3

\* updateTask takes the head as long as it is due.
LEMMA UpdateKeeps ==
    ASSUME UpdaterIInv, Update
    PROVE  UpdaterIInv' /\ \A z \in Sessions : updaterIdx'[z] = 0 <=> updaterIdx[z] = 0
  <1>1. /\ TypeOK /\ Sound(Heap) /\ Heap.q = entries /\ Heap.idx = updaterIdx /\ Turn
        /\ Places(Heap) = 1..Len(entries) /\ Len(entries) \in Nat
        /\ \A k \in 1..Len(entries) : entries[k].ts \in Instant /\ entries[k].s \in Sessions
    BY HeapOfState DEF UpdaterIInv, HeapInv
  <1>2. /\ task = "update" /\ left' = left - 1 /\ task' = "loop"
        /\ UNCHANGED <<holdsMu, chWakeUp, timer, timerC, waking, open, busy>>
    BY DEF Update
  <1>3. left \in Nat /\ left > 0 /\ left <= Len(entries) /\ 1 \in 1..Len(entries)
    BY <1>1, <1>2 DEF Turn, TypeOK
  <1>4. PICK interval \in Intervals :
            SetHeap(Fixed([q |-> [entries EXCEPT ![1].ts = interval], idx |-> updaterIdx]))
    BY DEF Update
  <1> DEFINE q == [entries EXCEPT ![1].ts = interval]
             h == [q |-> q, idx |-> updaterIdx]
             g == Fixed(h)
  <1>5. /\ entries \in [1..Len(entries) -> Entry] /\ interval \in Instant
        /\ updaterIdx \in [Sessions -> Nat]
    <2>1. entries \in Seq(Entry)
      BY <1>1 DEF TypeOK, Entry
    <2>2. QED
      BY <1>1, <2>1, LenProperties, LongestInterval DEF TypeOK
  <1>6. /\ q \in [1..Len(entries) -> Entry] /\ \A k \in 2..Len(entries) : q[k] = entries[k]
        /\ q[1].s = entries[1].s
    BY <1>3, <1>5 DEF Entry
  <1>7. h.q = q /\ h.idx = updaterIdx
    OBVIOUS
  <1> HIDE DEF q
  <1>8. q \in Seq(Entry) /\ Len(q) = Len(entries)
    BY <1>1, <1>6, SeqOfFunction
  <1>9. IsHeap(h) /\ Places(h) = 1..Len(entries)
    BY <1>5, <1>8 DEF IsHeap, Places
  <1> HIDE DEF h
  <1>10. \A k \in 1..Len(entries) : h.q[k].s = entries[k].s
    <2>1. \A k \in 1..Len(entries) : k = 1 \/ k \in 2..Len(entries)
      BY <1>1
    <2>2. QED
      BY <1>6, <1>7, <2>1
  <1>11. Placed(h) /\ NoneElse(h)
    BY <1>1, <1>7, <1>9, <1>10 DEF Sound, Placed, NoneElse
  <1>12. ASSUME NEW j \in 2..Len(h.q), j \div 2 # 1
         PROVE  InOrder(h, j)
    <2>1. j \in 2..Len(entries) /\ j \div 2 \in 2..Len(entries)
      <3>1. j \div 2 \in Nat /\ j \div 2 >= 1 /\ j \div 2 < j /\ Len(h.q) = Len(entries)
        BY <1>7, <1>8, Half
      <3>2. QED
        BY <1>1, <1>12, <3>1
    <2>2. h.q[j] = entries[j] /\ h.q[j \div 2] = entries[j \div 2]
      BY <1>6, <1>7, <2>1
    <2>3. QED
      BY <1>1, <2>1, <2>2 DEF Sound, Ordered, InOrder
  <1>13. Sound(g) /\ Rearranged(h, g)
    BY <1>3, <1>7, <1>8, <1>9, <1>11, <1>12, FixedFacts
  <1>14. SetHeap(g)
    BY <1>4 DEF h, q
  <1> HIDE DEF g
  <1>15. /\ entries' \in Seq(Entry) /\ updaterIdx' \in [Sessions -> Nat]
         /\ PlacesKnown' /\ HeadIsEarliest' /\ updaterIdx' = g.idx /\ Len(entries') = Len(entries)
    BY <1>7, <1>8, <1>13, <1>14, HeapAfter DEF Rearranged
  <1>16. \A z \in Sessions : updaterIdx'[z] = 0 <=> updaterIdx[z] = 0
    BY <1>7, <1>9, <1>11, <1>13, <1>15, SameSessions
  <1>17. TypeOK'
    <2>1. left' \in Nat /\ task' \in {"select", "lock", "loop", "update"}
      BY <1>2, <1>3
    <2>2. QED
      BY <1>1, <1>2, <1>15, <2>1 DEF TypeOK, Entry
  <1>18. WakesInTime'
    BY <1>2 DEF WakesInTime
  <1>19. Turn'
    BY <1>1, <1>2, <1>3, <1>15, <1>16 DEF Turn
  <1>20. QED
    BY <1>15, <1>16, <1>17, <1>18, <1>19 DEF UpdaterIInv, HeapInv

\* Time passes for every session, and for the timer.
LEMMA TickKeeps ==
    ASSUME UpdaterIInv, Tick
    PROVE  UpdaterIInv' /\ updaterIdx' = updaterIdx
  <1>1. /\ TypeOK /\ PlacesKnown /\ HeadIsEarliest /\ WakesInTime /\ Turn
        /\ Len(entries) \in Nat /\ DOMAIN entries = 1..Len(entries)
        /\ \A k \in 1..Len(entries) : entries[k].ts \in Instant /\ entries[k].s \in Sessions
    BY HeapOfState DEF UpdaterIInv, HeapInv
  <1>2. /\ timer > 0 /\ \A i \in 1..Len(entries) : entries[i].ts > -MaxLate
        /\ timer' = IF timer = Off THEN Off ELSE timer - 1
        /\ UNCHANGED <<updaterIdx, holdsMu, task, left, chWakeUp, timerC, waking, open, busy>>
    BY <1>1 DEF Tick
  <1>3. entries' = [i \in 1..Len(entries) |-> [entries[i] EXCEPT !.ts = @ - 1]]
    BY <1>1 DEF Tick
  <1>4. \A i \in 1..Len(entries) : entries[i] \in Entry
    BY <1>1, LenProperties DEF TypeOK, Entry
  <1>5. ASSUME NEW i \in 1..Len(entries)
        PROVE  /\ entries'[i] \in Entry /\ entries'[i].s = entries[i].s
               /\ entries'[i].ts = entries[i].ts - 1 /\ entries[i].ts \in Int
    <2>1. entries'[i] = [entries[i] EXCEPT !.ts = entries[i].ts - 1]
      BY <1>3
    <2>2. entries'[i].s = entries[i].s /\ entries'[i].ts = entries[i].ts - 1
      BY <1>4, <2>1 DEF Entry
    <2>3. entries[i].ts - 1 \in Instant /\ entries[i].ts \in Int
      <3>1. entries[i].ts \in Instant /\ entries[i].ts > -MaxLate
        BY <1>1, <1>2
      <3>2. QED
        BY <3>1, LongestInterval
    <2>4. entries'[i] = [ts |-> entries[i].ts - 1, s |-> entries[i].s]
      BY <1>4, <2>1 DEF Entry
    <2>5. QED
      BY <1>1, <2>2, <2>3, <2>4 DEF Entry
  <1>6. entries' \in Seq(Entry) /\ Len(entries') = Len(entries) /\ DOMAIN (entries') = 1..Len(entries)
    <2>1. entries' \in [1..Len(entries) -> Entry]
      BY <1>3, <1>5
    <2>2. QED
      BY <1>1, <2>1, SeqOfFunction
  <1>7. timer \in Int /\ timer' \in Instant \cup {Off} /\ (timer # Off => timer <= Max(Intervals))
    <2>1. timer \in Instant \cup {Off}
      BY <1>1 DEF TypeOK
    <2>2. timer > 0 /\ timer' = IF timer = Off THEN Off ELSE timer - 1
      BY <1>2
    <2>3. Off \in Int
      BY LongestInterval
    <2>4. timer # Off => timer \in Int /\ timer <= Max(Intervals) /\ timer - 1 \in Instant
      BY <2>1, <2>2, LongestInterval
    <2>5. QED
      BY <2>1, <2>2, <2>3, <2>4
  <1>8. TypeOK'
    BY <1>1, <1>2, <1>6, <1>7 DEF TypeOK, Entry
  <1>9. PlacesKnown'
    BY <1>1, <1>2, <1>5, <1>6 DEF PlacesKnown
  <1>10. HeadIsEarliest'
    <2>1. ASSUME NEW i \in 2..Len(entries)
          PROVE  entries'[i \div 2].ts <= entries'[i].ts
      <3>1. i \div 2 \in 1..Len(entries) /\ i \in 1..Len(entries)
        BY <1>1, Half
      <3>2. entries[i \div 2].ts <= entries[i].ts
        BY <1>1 DEF HeadIsEarliest
      <3>3. QED
        BY <1>5, <3>1, <3>2
    <2>2. QED
      BY <1>6, <2>1 DEF HeadIsEarliest
  <1>11. WakesInTime'
    <2>1. SUFFICES ASSUME task = "select", entries' # <<>>, ~timerC, ~chWakeUp, waking = {}
                   PROVE  timer' <= entries'[1].ts
      BY <1>2 DEF WakesInTime
    <2>2. 1 \in 1..Len(entries) /\ entries # <<>>
      BY <1>1, <1>6, <2>1
    <2>3. timer <= entries[1].ts
      BY <1>1, <2>1, <2>2 DEF WakesInTime
    <2>4. timer # Off
      BY <1>1, <2>2, <2>3, LongestInterval
    <2>5. timer' = timer - 1 /\ entries'[1].ts = entries[1].ts - 1 /\ entries[1].ts \in Int
      BY <1>2, <1>5, <2>2, <2>4
    <2>6. QED
      BY <1>7, <2>3, <2>5
  <1>12. Turn'
    BY <1>1, <1>2, <1>6 DEF Turn
  <1>13. QED
    BY <1>2, <1>8, <1>9, <1>10, <1>11, <1>12 DEF UpdaterIInv, HeapInv

\* The steps that leave the heap alone.
LEMMA OthersKeep ==
    ASSUME UpdaterIInv,
           \/ \E s \in Sessions : Wakeup(s) \/ Mark(s) \/ Lock(s) \/ Unlock(s)
           \/ Select \/ TakeMu \/ HeadIsDue \/ Done \/ Fire
    PROVE  UpdaterIInv' /\ updaterIdx' = updaterIdx
  <1>1. /\ TypeOK /\ PlacesKnown /\ HeadIsEarliest /\ WakesInTime /\ Turn /\ Len(entries) \in Nat
        /\ \A k \in 1..Len(entries) : entries[k].ts \in Instant /\ entries[k].s \in Sessions
    BY HeapOfState DEF UpdaterIInv, HeapInv
  <1>2. entries' = entries /\ updaterIdx' = updaterIdx
    BY DEF Wakeup, Mark, Lock, Unlock, Select, TakeMu, HeadIsDue, Done, Fire
  <1>3. PlacesKnown' /\ HeadIsEarliest'
    BY <1>1, <1>2 DEF PlacesKnown, HeadIsEarliest
  <1> SUFFICES TypeOK' /\ WakesInTime' /\ Turn'
    BY <1>2, <1>3 DEF UpdaterIInv, HeapInv
  <1>4. ASSUME NEW s \in Sessions, Wakeup(s) \/ Mark(s) \/ Lock(s) \/ Unlock(s)
        PROVE  TypeOK' /\ WakesInTime' /\ Turn'
    <2>1. CASE Wakeup(s)
      BY <1>1, <1>2, <2>1 DEF Wakeup, Wakes, TypeOK, WakesInTime, Turn
    <2>2. CASE Mark(s)
      BY <1>1, <1>2, <2>2 DEF Mark, MayMark, TypeOK, WakesInTime, Turn
    <2>3. CASE Lock(s)
      BY <1>1, <1>2, <2>3 DEF Lock, TypeOK, WakesInTime, Turn
    <2>4. CASE Unlock(s)
      BY <1>1, <1>2, <2>4 DEF Unlock, TypeOK, WakesInTime, Turn
    <2>5. QED
      BY <1>4, <2>1, <2>2, <2>3, <2>4
  <1>5. CASE Select
    BY <1>1, <1>2, <1>5 DEF Select, TypeOK, WakesInTime, Turn
  <1>6. CASE TakeMu
    BY <1>1, <1>2, <1>6 DEF TakeMu, TypeOK, WakesInTime, Turn
  <1>7. CASE HeadIsDue
    BY <1>1, <1>2, <1>7 DEF HeadIsDue, TypeOK, WakesInTime, Turn
  <1>8. CASE Done
    <2>1. entries # <<>> => entries[1].ts \in Instant
      BY <1>1
    <2>2. timer' \in Instant \cup {Off} /\ (entries # <<>> => timer' = entries[1].ts)
      BY <1>1, <1>8, <2>1 DEF Done, ResetTo, TypeOK
    <2>3. TypeOK'
      BY <1>1, <1>2, <1>8, <2>2 DEF Done, TypeOK
    <2>4. WakesInTime'
      BY <1>2, <2>1, <2>2, LongestInterval DEF WakesInTime
    <2>5. Turn'
      BY <1>1, <1>2, <1>8 DEF Done, Turn
    <2>6. QED
      BY <2>3, <2>4, <2>5
  <1>9. CASE Fire
    BY <1>1, <1>2, <1>9 DEF Fire, TypeOK, WakesInTime, Turn
  <1>10. QED
    BY <1>4, <1>5, <1>6, <1>7, <1>8, <1>9

\* The invariant of the updater: one session more, one less, an update of the head, and
\* the clock are the steps that touch the heap.
LEMMA UpdaterStepKeeps ==
    ASSUME UpdaterIInv, [Next]_vars
    PROVE  UpdaterIInv'
  <1>1. CASE UNCHANGED vars
    BY <1>1 DEF vars, UpdaterIInv, HeapInv, TypeOK, PlacesKnown, HeadIsEarliest, WakesInTime, Turn
  <1>2. CASE \E s \in Sessions : Add(s) \/ Wakeup(s) \/ Remove(s) \/ Mark(s) \/ Lock(s) \/ Unlock(s)
    BY <1>2, AddKeeps, RemoveKeeps, OthersKeep
  <1>3. CASE Task
    BY <1>3, UpdateKeeps, OthersKeep DEF Task
  <1>4. CASE Fire \/ Tick
    BY <1>4, TickKeeps, OthersKeep
  <1>5. QED
    BY <1>1, <1>2, <1>3, <1>4 DEF Next

\* The updater starts empty.
LEMMA UpdaterStart ==
    Init => UpdaterIInv
  <1> SUFFICES ASSUME Init
               PROVE  UpdaterIInv
    OBVIOUS
  <1>1. TypeOK
    <2>1. 0 \in Instant
      BY LongestInterval
    <2>2. entries \in Seq([ts : Instant, s : Sessions]) /\ updaterIdx \in [Sessions -> Nat]
      BY DEF Init
    <2>3. QED
      BY <2>1, <2>2 DEF Init, TypeOK
  <1>2. PlacesKnown /\ HeadIsEarliest /\ WakesInTime /\ Turn
    BY DEF Init, PlacesKnown, HeadIsEarliest, WakesInTime, Turn
  <1>3. QED
    BY <1>1, <1>2 DEF UpdaterIInv, HeapInv

\* The heap and the timer of the updater are right through every race of addSession,
\* Close, the sessions' mutexes, updateTask and the clock (updater.go).
THEOREM HeapKept ==
    Spec => []HeapInv
  <1>1. UpdaterIInv => HeapInv
    BY DEF UpdaterIInv
  <1>2. QED
    BY <1>1, UpdaterStart, UpdaterStepKeeps, PTL DEF Spec

-----------------------------------------------------------------------------
(* The listener *)

\* What the type invariant says of the parts of the state.
Types ==
    /\ sessions \in [Addrs -> 0..MaxSess]
    /\ sess \in Seq(Addrs) /\ Len(sess) <= MaxSess
    /\ chAccepts \in Seq(1..Len(sess)) /\ Len(chAccepts) <= Backlog
    /\ accepted \subseteq 1..Len(sess) /\ begun \subseteq 1..Len(sess) /\ isClosed \subseteq 1..Len(sess)
    /\ \A s \in Sessions : updaterIdx[s] # 0 => s \in 1..Len(sess)

MonitorType ==
    \/ monitor = [at |-> "read"]
    \/ monitor.at = "new" /\ monitor.d \in L!Datagram /\ monitor = [at |-> "new", d |-> monitor.d]
    \/ /\ monitor.at \in {"input", "register", "offer"} /\ monitor.s \in 1..Len(sess)
       /\ monitor = [at |-> monitor.at, s |-> monitor.s]

CloserType(c) ==
    \/ c = [at |-> "idle"]
    \/ c.at \in {"unmap", "mark"} /\ c.s \in 1..Len(sess) /\ c = [at |-> c.at, s |-> c.s]

CloserTypes ==
    closing = [c \in Sessions |-> closing[c]] /\ \A c \in Sessions : CloserType(closing[c])

\* The sessions that AcceptKCP may return.
Offered == {chAccepts[i] : i \in 1..Len(chAccepts)}

Reachable ==
    \A s \in Sessions : s \in accepted \cup Offered /\ s \notin begun =>
        sessions[sess[s]] = s /\ updaterIdx[s] # 0

Gone == \A s \in Sessions : s \in isClosed => sessions[sess[s]] # s /\ updaterIdx[s] = 0

\* An address that has a session has one of its own.
TableOwn ==
    \A a \in Addrs : sessions[a] # 0 => sessions[a] \in 1..Len(sess) /\ sess[sessions[a]] = a

\* monitor makes a session when the address has none, and it is new to everybody else
\* until it is in the backlog.
Arriving ==
    /\ monitor.at = "new" => Len(sess) < MaxSess /\ sessions[monitor.d.addr] = 0
    /\ monitor.at \in {"register", "offer"} =>
        /\ monitor.s \notin accepted \cup Offered /\ updaterIdx[monitor.s] # 0
        /\ sessions[sess[monitor.s]] = IF monitor.at = "register" THEN 0 ELSE monitor.s

Busy(c) == closing[c].at \in {"unmap", "mark"}

\* The session of a closer is its own, out of the updater, and in the table until it is unmapped.
Closing ==
    /\ begun \subseteq accepted /\ isClosed \subseteq begun
    /\ \A c \in Sessions : Busy(c) =>
        /\ closing[c].s \in begun \ isClosed /\ updaterIdx[closing[c].s] = 0
        /\ closing[c].at = "unmap" <=> sessions[sess[closing[c].s]] = closing[c].s
    /\ \A c, d \in Sessions : Busy(c) /\ Busy(d) /\ closing[c].s = closing[d].s => c = d

ListenerIInv ==
    Types /\ MonitorType /\ CloserTypes /\ Reachable /\ Gone /\ TableOwn /\ Arriving /\ Closing

\* The parts of the types make up the type invariant of the listener.
LEMMA TypeParts ==
    Types /\ MonitorType /\ CloserTypes => L!TypeOK
  <1> SUFFICES ASSUME Types, MonitorType, CloserTypes
               PROVE  L!TypeOK
    OBVIOUS
  <1>1. monitor \in {L!AtRead} \cup [at : {"new"}, d : L!Datagram]
                    \cup [at : {"input", "register", "offer"}, s : 1..Len(sess)]
    BY DEF MonitorType, L!AtRead
  <1>2. closing \in [Sessions -> {L!Idle} \cup [at : {"unmap", "mark"}, s : 1..Len(sess)]]
    <2> DEFINE C == {L!Idle} \cup [at : {"unmap", "mark"}, s : 1..Len(sess)]
    <2>1. \A c \in Sessions : closing[c] \in C
      BY DEF CloserTypes, CloserType, L!Idle
    <2> HIDE DEF C
    <2>2. closing \in [Sessions -> C]
      BY <2>1 DEF CloserTypes
    <2>3. QED
      BY <2>2 DEF C
  <1>3. sessions \in [Addrs -> L!Ids \cup {L!None}]
    <2>1. L!Ids \cup {L!None} = 0..MaxSess
      BY ServerAssumption DEF L!Ids, L!None
    <2>2. QED
      BY <2>1 DEF Types
  <1>4. {accepted, {s \in Sessions : updaterIdx[s] # 0}, begun, isClosed} \subseteq SUBSET (1..Len(sess))
    BY DEF Types
  <1>5. QED
    BY <1>1, <1>2, <1>3, <1>4 DEF L!TypeOK, Types

\* Sessions are known by their numbers.
LEMMA Numbers ==
    ASSUME ListenerIInv
    PROVE  /\ Len(sess) \in Nat /\ MaxSess \in Nat /\ Sessions = 1..MaxSess /\ 1..Len(sess) \subseteq Sessions
           /\ \A s \in 1..Len(sess) : sess[s] \in Addrs /\ s # 0 /\ s \in Sessions
           /\ Len(chAccepts) \in Nat /\ Offered \subseteq 1..Len(sess)
           /\ \A a \in Addrs : sessions[a] \in 0..MaxSess
           /\ \A c \in Sessions : /\ Busy(c) \/ closing[c] = L!Idle
                                  /\ Busy(c) => closing[c].s \in 1..Len(sess) /\ closing[c] # L!Idle
                                  /\ Busy(c) => closing[c] = [at |-> closing[c].at, s |-> closing[c].s]
           /\ ~(L!AtRead.at \in {"new", "input", "register", "offer"}) /\ ~(L!Idle.at \in {"unmap", "mark"})
  <1>1. Types /\ CloserTypes
    BY DEF ListenerIInv
  <1>2. Len(sess) \in Nat /\ sess \in [1..Len(sess) -> Addrs]
    BY <1>1, LenProperties DEF Types
  <1>3. Len(chAccepts) \in Nat /\ chAccepts \in [1..Len(chAccepts) -> 1..Len(sess)]
    BY <1>1, LenProperties DEF Types
  <1>4. MaxSess \in Nat /\ Sessions = 1..MaxSess /\ 1..Len(sess) \subseteq Sessions
    BY <1>1, <1>2, ServerAssumption DEF Types
  <1>5. Offered \subseteq 1..Len(sess)
    BY <1>3 DEF Offered
  <1>6. ASSUME NEW c \in Sessions
        PROVE  /\ Busy(c) \/ closing[c] = L!Idle
               /\ Busy(c) => closing[c].s \in 1..Len(sess) /\ closing[c] # L!Idle
               /\ Busy(c) => closing[c] = [at |-> closing[c].at, s |-> closing[c].s]
    BY <1>1 DEF CloserTypes, CloserType, Busy, L!Idle
  <1>7. ~(L!AtRead.at \in {"new", "input", "register", "offer"}) /\ ~(L!Idle.at \in {"unmap", "mark"})
    BY DEF L!AtRead, L!Idle
  <1>8. QED
    BY <1>1, <1>2, <1>3, <1>4, <1>5, <1>6, <1>7 DEF Types

\* The inductive invariant is as strong as the one that the runs check.
LEMMA ListenerImplied ==
    ListenerIInv => L!ListenerInv
  <1> SUFFICES ASSUME ListenerIInv
               PROVE  L!ListenerInv
    OBVIOUS
  <1>1. L!TypeOK
    BY TypeParts DEF ListenerIInv
  <1>2. accepted \subseteq Sessions /\ isClosed \subseteq Sessions /\ Offered \subseteq Sessions
    BY Numbers DEF ListenerIInv, Types
  <1>3. DOMAIN chAccepts = 1..Len(chAccepts)
    BY LenProperties DEF ListenerIInv, Types
  <1>4. {chAccepts[i] : i \in DOMAIN chAccepts} = Offered
    BY <1>3 DEF Offered
  <1>5. L!OpenReachable
    BY <1>2, <1>4 DEF ListenerIInv, Reachable, L!OpenReachable
  <1>6. L!ClosedGone
    BY <1>2 DEF ListenerIInv, Gone, L!ClosedGone
  <1>7. QED
    BY <1>1, <1>5, <1>6 DEF L!ListenerInv

\* The listener starts with no session.
LEMMA ListenerStart ==
    L!Init => ListenerIInv
  <1> SUFFICES ASSUME L!Init
               PROVE  ListenerIInv
    OBVIOUS
  <1>1. /\ sessions = [a \in Addrs |-> 0] /\ chAccepts = <<>> /\ sess = <<>> /\ monitor = [at |-> "read"]
        /\ accepted = {} /\ begun = {} /\ isClosed = {} /\ \A s \in Sessions : updaterIdx[s] = 0
        /\ closing = [c \in Sessions |-> [at |-> "idle"]]
    BY DEF L!Init, L!None, L!AtRead, L!Idle
  <1>2. MaxSess \in Nat /\ Backlog \in Nat
    BY ServerAssumption
  <1>3. Types
    BY <1>1, <1>2 DEF Types
  <1>4. MonitorType /\ CloserTypes
    BY <1>1 DEF MonitorType, CloserTypes, CloserType
  <1>5. Reachable /\ Gone /\ TableOwn
    BY <1>1 DEF Reachable, Offered, Gone, TableOwn
  <1>6. Arriving /\ Closing
    BY <1>1 DEF Arriving, Closing, Busy
  <1>7. QED
    BY <1>3, <1>4, <1>5, <1>6 DEF ListenerIInv

\* The updater has the same sessions after the step as before.
SameUpdating == \A s \in Sessions : updaterIdx'[s] = 0 <=> updaterIdx[s] = 0

\* monitor reads a datagram and looks its address up.
LEMMA ReadKeeps ==
    ASSUME ListenerIInv, NEW d \in L!Datagram, L!Read(d)
    PROVE  ListenerIInv'
  <1>1. /\ sessions' = sessions /\ chAccepts' = chAccepts /\ sess' = sess /\ accepted' = accepted
        /\ begun' = begun /\ closing' = closing /\ isClosed' = isClosed /\ SameUpdating
        /\ sessions[d.addr] = 0 => Len(sess) < MaxSess
        /\ monitor' = IF sessions[d.addr] = 0 THEN [at |-> "new", d |-> d]
                      ELSE [at |-> "input", s |-> sessions[d.addr]]
    BY DEF L!Read, L!None, SameUpdating
  <1>2. Types /\ CloserTypes /\ Reachable /\ Gone /\ TableOwn /\ Closing
    BY DEF ListenerIInv
  <1>3. d.addr \in Addrs
    BY DEF L!Datagram
  <1>4. MonitorType'
    BY <1>1, <1>2, <1>3 DEF MonitorType, TableOwn
  <1>5. Arriving'
    BY <1>1 DEF Arriving
  <1>6. Types' /\ CloserTypes' /\ TableOwn'
    BY <1>1, <1>2 DEF Types, CloserTypes, CloserType, TableOwn, SameUpdating
  <1>7. Reachable' /\ Gone'
    BY <1>1, <1>2 DEF Reachable, Gone, Offered, SameUpdating
  <1>8. Closing'
    BY <1>1, <1>2, Numbers DEF Closing, Busy, SameUpdating
  <1>9. QED
    BY <1>4, <1>5, <1>6, <1>7, <1>8 DEF ListenerIInv

\* kcpInput of a session, or a datagram that is dropped.
LEMMA InputKeeps ==
    ASSUME ListenerIInv, L!Input \/ L!Refuse
    PROVE  ListenerIInv'
  <1>1. /\ sessions' = sessions /\ chAccepts' = chAccepts /\ sess' = sess /\ accepted' = accepted
        /\ begun' = begun /\ closing' = closing /\ isClosed' = isClosed /\ SameUpdating
        /\ monitor' = [at |-> "read"]
    BY DEF L!Input, L!Refuse, L!AtRead, SameUpdating
  <1>2. Types /\ CloserTypes /\ Reachable /\ Gone /\ TableOwn /\ Closing
    BY DEF ListenerIInv
  <1>3. MonitorType' /\ Arriving'
    BY <1>1 DEF MonitorType, Arriving
  <1>4. Types' /\ CloserTypes' /\ TableOwn'
    BY <1>1, <1>2 DEF Types, CloserTypes, CloserType, TableOwn, SameUpdating
  <1>5. Reachable' /\ Gone'
    BY <1>1, <1>2 DEF Reachable, Gone, Offered, SameUpdating
  <1>6. Closing'
    BY <1>1, <1>2, Numbers DEF Closing, Busy, SameUpdating
  <1>7. QED
    BY <1>3, <1>4, <1>5, <1>6 DEF ListenerIInv

\* The datagram of monitor has an address.
LEMMA AddressOfNew ==
    ASSUME MonitorType, monitor.at = "new"
    PROVE  monitor.d.addr \in Addrs
  <1>1. monitor.d \in L!Datagram
    BY DEF MonitorType
  <1>2. \A d \in L!Datagram : d.addr \in Addrs
    BY DEF L!Datagram
  <1>3. QED
    BY <1>1, <1>2

\* newUDPSession: a session that nobody knows yet.
LEMMA NewKeeps ==
    ASSUME ListenerIInv, L!New
    PROVE  ListenerIInv'
  <1> DEFINE n == Len(sess)
             s == n + 1
             a == monitor.d.addr
  <1>1. /\ sessions' = sessions /\ chAccepts' = chAccepts /\ accepted' = accepted
        /\ begun' = begun /\ closing' = closing /\ isClosed' = isClosed
        /\ sess' = Append(sess, a) /\ monitor' = [at |-> "register", s |-> s] /\ monitor.at = "new"
        /\ {z \in Sessions : updaterIdx'[z] # 0} = {z \in Sessions : updaterIdx[z] # 0} \cup {s}
    BY DEF L!New
  <1>2. Types /\ MonitorType /\ CloserTypes /\ Reachable /\ Gone /\ TableOwn /\ Arriving /\ Closing
    BY DEF ListenerIInv
  <1>3. n \in Nat /\ n < MaxSess /\ s \in Sessions /\ sessions[a] = 0 /\ a \in Addrs
    <2>1. n \in Nat /\ MaxSess \in Nat /\ Sessions = 1..MaxSess
      BY Numbers
    <2>2. n < MaxSess /\ sessions[a] = 0
      BY <1>1, <1>2 DEF Arriving
    <2>3. a \in Addrs
      BY <1>1, <1>2, AddressOfNew
    <2>4. QED
      BY <2>1, <2>2, <2>3
  <1>4. /\ sess' \in Seq(Addrs) /\ Len(sess') = s /\ sess'[s] = a
        /\ \A z \in 1..n : sess'[z] = sess[z] /\ z \in 1..s /\ z # s
    <2>1. sess \in Seq(Addrs)
      BY <1>2 DEF Types
    <2>2. QED
      BY <1>1, <1>3, <2>1, AppendProperties
  <1>5. \A z \in Sessions : updaterIdx'[z] # 0 <=> z = s \/ updaterIdx[z] # 0
    BY <1>1, <1>3
  <1> HIDE DEF s, n, a
  <1>6. Offered' = Offered /\ Offered \subseteq 1..n /\ accepted \subseteq 1..n /\ s \in 1..s /\ s # 0
    BY <1>1, <1>2, <1>3, <1>4, Numbers DEF Offered, Types, n, s
  <1>7. Types'
    <2>1. chAccepts' \in Seq(1..s)
      <3>1. chAccepts \in Seq(1..n) /\ 1..n \subseteq 1..s
        BY <1>2, <1>4 DEF Types, n
      <3>2. chAccepts \in [1..Len(chAccepts) -> 1..n] /\ Len(chAccepts) \in Nat
        BY <3>1, LenProperties
      <3>3. chAccepts \in [1..Len(chAccepts) -> 1..s]
        BY <3>1, <3>2
      <3>4. QED
        BY <1>1, <3>2, <3>3, SeqOfFunction
    <2>2. s <= MaxSess /\ 1..n \subseteq 1..s
      BY <1>3, <1>4, Numbers DEF s
    <2>3. \A z \in Sessions : updaterIdx'[z] # 0 => z \in 1..s
      BY <1>2, <1>5, <1>6, <2>2 DEF Types, n
    <2>4. QED
      BY <1>1, <1>2, <1>4, <2>1, <2>2, <2>3 DEF Types, n
  <1>8. MonitorType'
    BY <1>1, <1>4, <1>6 DEF MonitorType
  <1>9. CloserTypes'
    <2>1. \A c \in Sessions : CloserType(closing[c])'
      BY <1>1, <1>2, <1>4 DEF CloserTypes, CloserType, n
    <2>2. QED
      BY <1>1, <1>2, <2>1 DEF CloserTypes
  <1>10. Reachable'
    <2>1. ASSUME NEW z \in Sessions, z \in accepted \cup Offered, z \notin begun
          PROVE  sessions[sess'[z]] = z /\ updaterIdx'[z] # 0
      BY <1>2, <1>4, <1>5, <1>6, <2>1 DEF Reachable
    <2>2. QED
      BY <1>1, <1>6, <2>1 DEF Reachable
  <1>11. Gone'
    <2>1. ASSUME NEW z \in Sessions, z \in isClosed
          PROVE  sessions[sess'[z]] # z /\ updaterIdx'[z] = 0
      BY <1>2, <1>4, <1>5, <2>1 DEF Gone, Types, n
    <2>2. QED
      BY <1>1, <2>1 DEF Gone
  <1>12. TableOwn'
    BY <1>1, <1>2, <1>4 DEF TableOwn, n
  <1>13. Arriving'
    <2>1. s \notin accepted \cup Offered
      BY <1>4, <1>6
    <2>2. updaterIdx'[s] # 0 /\ sessions[sess'[s]] = 0
      BY <1>3, <1>4, <1>5
    <2>3. QED
      BY <1>1, <1>6, <2>1, <2>2 DEF Arriving
  <1>14. Closing'
    <2>1. ASSUME NEW c \in Sessions, Busy(c)
          PROVE  /\ updaterIdx'[closing[c].s] = 0
                 /\ closing[c].at = "unmap" <=> sessions[sess'[closing[c].s]] = closing[c].s
      <3>1. closing[c].s \in 1..n /\ closing[c].s \in Sessions
        BY <2>1, Numbers DEF n
      <3>2. QED
        BY <1>2, <1>4, <1>5, <2>1, <3>1 DEF Closing
    <2>2. QED
      BY <1>1, <1>2, <2>1 DEF Closing, Busy
  <1>15. QED
    BY <1>7, <1>8, <1>9, <1>10, <1>11, <1>12, <1>13, <1>14 DEF ListenerIInv

\* The new session gets the entry of its address, which was free.
LEMMA RegisterKeeps ==
    ASSUME ListenerIInv, L!RegisterThenOffer, monitor.at = "register"
    PROVE  ListenerIInv'
  <1> DEFINE s == monitor.s
             a == sess[s]
  <1>1. /\ chAccepts' = chAccepts /\ accepted' = accepted /\ sess' = sess
        /\ begun' = begun /\ closing' = closing /\ isClosed' = isClosed /\ SameUpdating
        /\ sessions' = [sessions EXCEPT ![a] = s]
        /\ monitor' = [monitor EXCEPT !.at = "offer"]
    BY DEF L!RegisterThenOffer, SameUpdating
  <1>2. Types /\ MonitorType /\ CloserTypes /\ Reachable /\ Gone /\ TableOwn /\ Arriving /\ Closing
    BY DEF ListenerIInv
  <1>3. /\ s \in 1..Len(sess) /\ s \in Sessions /\ a \in Addrs /\ s # 0 /\ s \in 0..MaxSess
        /\ s \notin accepted \cup Offered /\ updaterIdx[s] # 0 /\ sessions[a] = 0
        /\ monitor = [at |-> "register", s |-> s] /\ sess[s] = a
    BY <1>2, Numbers DEF Arriving, MonitorType
  <1>4. monitor' = [at |-> "offer", s |-> s]
    BY <1>1, <1>3
  <1>5. sessions' \in [Addrs -> 0..MaxSess] /\ sessions'[a] = s /\ \A b \in Addrs \ {a} : sessions'[b] = sessions[b]
    BY <1>1, <1>2, <1>3 DEF Types
  <1> HIDE DEF s, a
  <1>6. Types' /\ CloserTypes'
    BY <1>1, <1>2, <1>5 DEF Types, CloserTypes, CloserType, SameUpdating
  <1>7. MonitorType'
    BY <1>1, <1>3, <1>4 DEF MonitorType
  <1>8. Offered' = Offered
    BY <1>1 DEF Offered
  <1>9. Reachable'
    <2>1. ASSUME NEW z \in Sessions, z \in accepted \cup Offered, z \notin begun
          PROVE  sessions'[sess[z]] = z /\ updaterIdx'[z] # 0
      <3>1. sessions[sess[z]] = z /\ updaterIdx[z] # 0 /\ z \in 1..Len(sess) /\ sess[z] \in Addrs /\ z # 0
        BY <1>2, <2>1, Numbers DEF Reachable, Types
      <3>2. QED
        BY <1>1, <1>3, <1>5, <3>1 DEF SameUpdating
    <2>2. QED
      BY <1>1, <1>8, <2>1 DEF Reachable
  <1>10. Gone'
    <2>1. ASSUME NEW z \in Sessions, z \in isClosed
          PROVE  sessions'[sess[z]] # z /\ updaterIdx'[z] = 0
      <3>1. /\ sessions[sess[z]] # z /\ updaterIdx[z] = 0 /\ z \in accepted
            /\ z \in 1..Len(sess) /\ sess[z] \in Addrs
        BY <1>2, <2>1, Numbers DEF Gone, Types, Closing
      <3>2. QED
        BY <1>1, <1>3, <1>5, <3>1 DEF SameUpdating
    <2>2. QED
      BY <1>1, <2>1 DEF Gone
  <1>11. TableOwn'
    BY <1>1, <1>2, <1>3, <1>5 DEF TableOwn
  <1>12. Arriving'
    BY <1>1, <1>3, <1>4, <1>5, <1>8 DEF Arriving, SameUpdating
  <1>13. Closing'
    <2>1. ASSUME NEW c \in Sessions, Busy(c)
          PROVE  /\ updaterIdx'[closing[c].s] = 0
                 /\ closing[c].at = "unmap" <=> sessions'[sess[closing[c].s]] = closing[c].s
      <3>1. /\ closing[c].s \in 1..Len(sess) /\ closing[c].s \in Sessions /\ closing[c].s \in accepted
            /\ sess[closing[c].s] \in Addrs /\ closing[c].s # 0
            /\ updaterIdx[closing[c].s] = 0
            /\ closing[c].at = "unmap" <=> sessions[sess[closing[c].s]] = closing[c].s
        BY <1>2, <2>1, Numbers DEF Closing
      <3>2. QED
        BY <1>1, <1>3, <1>5, <3>1 DEF SameUpdating
    <2>2. QED
      BY <1>1, <1>2, <2>1 DEF Closing, Busy
  <1>14. QED
    BY <1>6, <1>7, <1>9, <1>10, <1>11, <1>12, <1>13 DEF ListenerIInv

\* It goes into the backlog.
LEMMA OfferKeeps ==
    ASSUME ListenerIInv, L!RegisterThenOffer, monitor.at = "offer"
    PROVE  ListenerIInv'
  <1> DEFINE s == monitor.s
  <1>1. /\ sessions' = sessions /\ accepted' = accepted /\ sess' = sess
        /\ begun' = begun /\ closing' = closing /\ isClosed' = isClosed /\ SameUpdating
        /\ chAccepts' = Append(chAccepts, s) /\ Len(chAccepts) < Backlog
        /\ monitor' = [at |-> "read"]
    BY DEF L!RegisterThenOffer, L!AtRead, SameUpdating
  <1>2. Types /\ MonitorType /\ CloserTypes /\ Reachable /\ Gone /\ TableOwn /\ Arriving /\ Closing
    BY DEF ListenerIInv
  <1>3. s \in 1..Len(sess) /\ s \in Sessions /\ updaterIdx[s] # 0 /\ sessions[sess[s]] = s
    BY <1>2, Numbers DEF Arriving, MonitorType
  <1> HIDE DEF s
  <1>4. /\ chAccepts' \in Seq(1..Len(sess)) /\ Len(chAccepts') = Len(chAccepts) + 1 /\ Len(chAccepts) \in Nat
        /\ chAccepts'[Len(chAccepts) + 1] = s /\ \A i \in 1..Len(chAccepts) : chAccepts'[i] = chAccepts[i]
    BY <1>1, <1>2, <1>3, AppendProperties, LenProperties DEF Types
  <1>5. Offered' \subseteq Offered \cup {s}
    <2>1. \A i \in 1..Len(chAccepts') : i \in 1..Len(chAccepts) \/ i = Len(chAccepts) + 1
      BY <1>4
    <2>2. QED
      BY <1>4, <2>1 DEF Offered
  <1>6. Len(chAccepts') <= Backlog
    BY <1>1, <1>4, ServerAssumption
  <1>7. Types' /\ CloserTypes'
    BY <1>1, <1>2, <1>4, <1>6 DEF Types, CloserTypes, CloserType, SameUpdating
  <1>8. MonitorType' /\ Arriving'
    BY <1>1 DEF MonitorType, Arriving
  <1>9. Reachable' /\ Gone' /\ TableOwn'
    BY <1>1, <1>2, <1>3, <1>5 DEF Reachable, Gone, TableOwn, SameUpdating
  <1>10. Closing'
    BY <1>1, <1>2, Numbers DEF Closing, Busy, SameUpdating
  <1>11. QED
    BY <1>7, <1>8, <1>9, <1>10 DEF ListenerIInv

\* AcceptKCP takes the oldest session of the backlog.
LEMMA AcceptKeeps ==
    ASSUME ListenerIInv, L!AcceptKCP
    PROVE  ListenerIInv' /\ Head(chAccepts) \in accepted'
  <1>1. /\ sessions' = sessions /\ monitor' = monitor /\ sess' = sess
        /\ begun' = begun /\ closing' = closing /\ isClosed' = isClosed /\ SameUpdating
        /\ chAccepts # <<>> /\ chAccepts' = Tail(chAccepts) /\ accepted' = accepted \cup {Head(chAccepts)}
    BY DEF L!AcceptKCP, SameUpdating
  <1>2. Types /\ MonitorType /\ CloserTypes /\ Reachable /\ Gone /\ TableOwn /\ Arriving /\ Closing
    BY DEF ListenerIInv
  <1>3. /\ chAccepts' \in Seq(1..Len(sess)) /\ Len(chAccepts') = Len(chAccepts) - 1
        /\ Len(chAccepts) \in Nat /\ Len(chAccepts) > 0
        /\ \A i \in 1..Len(chAccepts') : chAccepts'[i] = chAccepts[i + 1]
        /\ Head(chAccepts) = chAccepts[1] /\ chAccepts[1] \in 1..Len(sess)
    <2>1. chAccepts \in Seq(1..Len(sess))
      BY <1>2 DEF Types
    <2>2. QED
      BY <1>1, <2>1, HeadTailProperties, LenProperties, EmptySeq
  <1>4. accepted' \cup Offered' \subseteq accepted \cup Offered /\ accepted' \subseteq 1..Len(sess)
    <2>1. \A i \in 1..Len(chAccepts') : i + 1 \in 1..Len(chAccepts)
      BY <1>3
    <2>2. 1 \in 1..Len(chAccepts)
      BY <1>3
    <2>3. Offered' \subseteq Offered /\ Head(chAccepts) \in Offered
      BY <1>3, <2>1, <2>2 DEF Offered
    <2>4. QED
      BY <1>1, <1>2, <1>3, <2>3 DEF Types
  <1>5. Len(chAccepts') <= Backlog
    BY <1>2, <1>3, ServerAssumption DEF Types
  <1>6. Types' /\ CloserTypes' /\ MonitorType'
    BY <1>1, <1>2, <1>3, <1>4, <1>5 DEF Types, CloserTypes, CloserType, MonitorType, SameUpdating
  <1>7. Arriving'
    <2>1. monitor.at \in {"register", "offer"} => monitor.s \in Sessions
      BY <1>2, Numbers DEF MonitorType
    <2>2. QED
      BY <1>1, <1>2, <1>4, <2>1 DEF Arriving, SameUpdating
  <1>8. Reachable' /\ Gone' /\ TableOwn'
    BY <1>1, <1>2, <1>4 DEF Reachable, Gone, TableOwn, SameUpdating
  <1>9. Closing'
    BY <1>1, <1>2, Numbers DEF Closing, Busy, SameUpdating
  <1>10. QED
    BY <1>1, <1>6, <1>7, <1>8, <1>9 DEF ListenerIInv

\* A Close begins: the session leaves the updater.
LEMMA CloseKeeps ==
    ASSUME ListenerIInv, NEW c \in Sessions, NEW s \in accepted, L!Close(c, s)
    PROVE  ListenerIInv' /\ closing'[c].s = s
  <1>1. /\ sessions' = sessions /\ chAccepts' = chAccepts /\ accepted' = accepted /\ sess' = sess
        /\ monitor' = monitor /\ isClosed' = isClosed
        /\ closing[c] = L!Idle /\ s \notin begun /\ begun' = begun \cup {s}
        /\ closing' = [closing EXCEPT ![c] = [at |-> "unmap", s |-> s]]
        /\ {z \in Sessions : updaterIdx'[z] # 0} = {z \in Sessions : updaterIdx[z] # 0} \ {s}
    BY DEF L!Close
  <1>2. Types /\ MonitorType /\ CloserTypes /\ Reachable /\ Gone /\ TableOwn /\ Arriving /\ Closing
    BY DEF ListenerIInv
  <1>3. /\ s \in 1..Len(sess) /\ s \in Sessions /\ s \in accepted /\ sessions[sess[s]] = s
        /\ s \notin begun /\ s \notin isClosed
    BY <1>1, <1>2, Numbers DEF Types, Reachable, Closing
  <1>4. \A z \in Sessions : updaterIdx'[z] # 0 <=> z # s /\ updaterIdx[z] # 0
    BY <1>1
  <1>5. /\ closing' = [z \in Sessions |-> closing'[z]]
        /\ closing'[c] = [at |-> "unmap", s |-> s] /\ \A z \in Sessions \ {c} : closing'[z] = closing[z]
    BY <1>1, <1>2 DEF CloserTypes
  <1>6. Types'
    BY <1>1, <1>2, <1>3, <1>4 DEF Types
  <1>7. MonitorType'
    BY <1>1, <1>2 DEF MonitorType
  <1>8. CloserTypes'
    <2>1. ASSUME NEW z \in Sessions
          PROVE  CloserType(closing[z])'
      BY <1>1, <1>2, <1>3, <1>5 DEF CloserTypes, CloserType
    <2>2. QED
      BY <1>5, <2>1 DEF CloserTypes
  <1>9. Reachable' /\ Gone' /\ TableOwn'
    BY <1>1, <1>2, <1>4 DEF Reachable, Gone, TableOwn, Offered
  <1>10. Arriving'
    <2>1. monitor.at \in {"register", "offer"} => monitor.s \in Sessions /\ monitor.s # s
      BY <1>2, <1>3, Numbers DEF MonitorType, Arriving
    <2>2. QED
      BY <1>1, <1>2, <1>4, <2>1 DEF Arriving, Offered
  <1>11. Closing'
    <2>1. ASSUME NEW z \in Sessions, z # c, Busy(z)
          PROVE  /\ closing[z].s \in begun \ isClosed /\ closing[z].s # s /\ updaterIdx'[closing[z].s] = 0
                 /\ closing[z].at = "unmap" <=> sessions[sess[closing[z].s]] = closing[z].s
      <3>1. closing[z].s \in Sessions /\ closing[z].s \in begun
        BY <1>2, <2>1, Numbers DEF Closing
      <3>2. QED
        BY <1>2, <1>3, <1>4, <2>1, <3>1 DEF Closing
    <2>2. updaterIdx'[s] = 0
      BY <1>3, <1>4
    <2>3. \A z \in Sessions : Busy(z)' => z = c \/ (z # c /\ Busy(z))
      BY <1>5 DEF Busy
    <2>4. begun' \subseteq accepted' /\ isClosed' \subseteq begun'
      BY <1>1, <1>2, <1>3 DEF Closing
    <2>5. ASSUME NEW z \in Sessions, Busy(z)'
          PROVE  /\ closing'[z].s \in begun' \ isClosed' /\ updaterIdx'[closing'[z].s] = 0
                 /\ closing'[z].at = "unmap" <=> sessions'[sess'[closing'[z].s]] = closing'[z].s
      <3>1. CASE z = c
        BY <1>1, <1>3, <1>5, <2>2, <3>1
      <3>2. CASE z # c
        BY <1>1, <1>5, <2>1, <2>3, <2>5, <3>2
      <3>3. QED
        BY <3>1, <3>2
    <2>6. ASSUME NEW y \in Sessions, NEW z \in Sessions, Busy(y)', Busy(z)', closing'[y].s = closing'[z].s
          PROVE  y = z
      <3>1. \A x \in Sessions : x # c /\ Busy(x)' => Busy(x) /\ closing'[x] = closing[x] /\ closing[x].s # s
        BY <1>5, <2>1, <2>3
      <3>2. closing'[c].s = s
        BY <1>5
      <3>3. QED
        BY <1>2, <2>6, <3>1, <3>2 DEF Closing
    <2>7. QED
      BY <2>4, <2>5, <2>6 DEF Closing
  <1>12. QED
    BY <1>5, <1>6, <1>7, <1>8, <1>9, <1>10, <1>11 DEF ListenerIInv

\* closeSession: the entry it takes away is its own session's.
LEMMA UnmapKeeps ==
    ASSUME ListenerIInv, NEW c \in Sessions, L!CloseSession(c)
    PROVE  ListenerIInv' /\ closing'[c].s = closing[c].s
  <1> DEFINE s == closing[c].s
             a == sess[s]
  <1>1. /\ chAccepts' = chAccepts /\ accepted' = accepted /\ sess' = sess
        /\ monitor' = monitor /\ isClosed' = isClosed /\ begun' = begun /\ SameUpdating
        /\ closing[c].at = "unmap"
        /\ sessions' = [sessions EXCEPT ![a] = 0]
        /\ closing' = [closing EXCEPT ![c].at = "mark"]
    BY DEF L!CloseSession, L!Unmapped, L!None, SameUpdating
  <1>2. Types /\ MonitorType /\ CloserTypes /\ Reachable /\ Gone /\ TableOwn /\ Arriving /\ Closing
    BY DEF ListenerIInv
  <1>3. /\ Busy(c) /\ s \in 1..Len(sess) /\ s \in Sessions /\ s # 0 /\ a \in Addrs /\ sessions[a] = s /\ sess[s] = a
        /\ s \in begun /\ s \notin isClosed /\ updaterIdx[s] = 0
    BY <1>1, <1>2, Numbers DEF Closing, Busy
  <1>4. /\ closing' = [z \in Sessions |-> closing'[z]]
        /\ closing'[c] = [at |-> "mark", s |-> s] /\ \A z \in Sessions \ {c} : closing'[z] = closing[z]
    <2>1. closing[c] = [at |-> closing[c].at, s |-> s]
      BY <1>3, Numbers
    <2>2. QED
      BY <1>1, <1>2, <2>1 DEF CloserTypes
  <1>5. sessions' \in [Addrs -> 0..MaxSess] /\ sessions'[a] = 0 /\ \A b \in Addrs \ {a} : sessions'[b] = sessions[b]
    <2>1. 0 \in 0..MaxSess
      BY Numbers
    <2>2. QED
      BY <1>1, <1>2, <1>3, <2>1 DEF Types
  <1> HIDE DEF s, a
  <1>6. Types' /\ MonitorType'
    BY <1>1, <1>2, <1>5 DEF Types, MonitorType, SameUpdating
  <1>7. CloserTypes'
    <2>1. ASSUME NEW z \in Sessions
          PROVE  CloserType(closing[z])'
      BY <1>1, <1>2, <1>3, <1>4 DEF CloserTypes, CloserType
    <2>2. QED
      BY <1>4, <2>1 DEF CloserTypes
  <1>8. Offered' = Offered
    BY <1>1 DEF Offered
  <1>9. Reachable'
    <2>1. ASSUME NEW z \in Sessions, z \in accepted \cup Offered, z \notin begun
          PROVE  sessions'[sess[z]] = z /\ updaterIdx'[z] # 0
      <3>1. sessions[sess[z]] = z /\ updaterIdx[z] # 0 /\ z \in 1..Len(sess) /\ sess[z] \in Addrs /\ z # s
        BY <1>2, <1>3, <2>1, Numbers DEF Reachable, Types
      <3>2. QED
        BY <1>1, <1>3, <1>5, <3>1 DEF SameUpdating
    <2>2. QED
      BY <1>1, <1>8, <2>1 DEF Reachable
  <1>10. Gone'
    <2>1. ASSUME NEW z \in Sessions, z \in isClosed
          PROVE  sessions'[sess[z]] # z /\ updaterIdx'[z] = 0
      <3>1. sessions[sess[z]] # z /\ updaterIdx[z] = 0 /\ z \in 1..Len(sess) /\ sess[z] \in Addrs /\ z # 0
        BY <1>2, <2>1, Numbers DEF Gone, Types
      <3>2. QED
        BY <1>1, <1>5, <2>1, <3>1 DEF SameUpdating
    <2>2. QED
      BY <1>1, <2>1 DEF Gone
  <1>11. TableOwn'
    BY <1>1, <1>2, <1>5 DEF TableOwn
  <1>12. Arriving'
    <2>1. monitor.at = "new" => monitor.d.addr \in Addrs
      BY <1>2, AddressOfNew
    <2>2. monitor.at \in {"register", "offer"} => monitor.s \in 1..Len(sess) /\ sess[monitor.s] \in Addrs
                                                   /\ monitor.s \in Sessions /\ monitor.s # s /\ monitor.s # 0
      BY <1>2, <1>3, Numbers DEF MonitorType, Arriving
    <2>3. ASSUME monitor.at = "new"
          PROVE  sessions'[monitor.d.addr] = 0
      BY <1>2, <1>5, <2>1, <2>3 DEF Arriving
    <2>4. ASSUME monitor.at \in {"register", "offer"}
          PROVE  sessions'[sess[monitor.s]] = IF monitor.at = "register" THEN 0 ELSE monitor.s
      BY <1>2, <1>3, <1>5, <2>2, <2>4 DEF Arriving
    <2>5. QED
      BY <1>1, <1>2, <1>8, <2>2, <2>3, <2>4 DEF Arriving, SameUpdating
  <1>13. Closing'
    <2>1. ASSUME NEW z \in Sessions, z # c, Busy(z)
          PROVE  /\ closing[z].s \in begun \ isClosed /\ closing[z].s # s /\ updaterIdx'[closing[z].s] = 0
                 /\ closing[z].at = "unmap" <=> sessions'[sess[closing[z].s]] = closing[z].s
      <3>1. closing[z].s \in Sessions /\ closing[z].s \in begun \ isClosed /\ sess[closing[z].s] \in Addrs /\ closing[z].s # 0
        BY <1>2, <2>1, Numbers DEF Closing
      <3>2. closing[z].s # s
        BY <1>2, <1>3, <2>1 DEF Closing, s
      <3>3. updaterIdx[closing[z].s] = 0 /\ (closing[z].at = "unmap" <=> sessions[sess[closing[z].s]] = closing[z].s)
        BY <1>2, <2>1 DEF Closing
      <3>4. QED
        BY <1>1, <1>3, <1>5, <3>1, <3>2, <3>3 DEF SameUpdating
    <2>2. updaterIdx'[s] = 0
      BY <1>1, <1>3 DEF SameUpdating
    <2>3. \A z \in Sessions : Busy(z)' => z = c \/ (z # c /\ Busy(z))
      BY <1>4 DEF Busy
    <2>4. begun' \subseteq accepted' /\ isClosed' \subseteq begun'
      BY <1>1, <1>2 DEF Closing
    <2>5. ASSUME NEW z \in Sessions, Busy(z)'
          PROVE  /\ closing'[z].s \in begun' \ isClosed' /\ updaterIdx'[closing'[z].s] = 0
                 /\ closing'[z].at = "unmap" <=> sessions'[sess'[closing'[z].s]] = closing'[z].s
      <3>1. CASE z = c
        <4>1. closing'[z].at = "mark" /\ closing'[z].s = s /\ sessions'[sess[s]] = 0
          BY <1>3, <1>4, <1>5, <3>1
        <4>2. QED
          BY <1>1, <1>3, <2>2, <4>1
      <3>2. CASE z # c
        BY <1>1, <1>4, <2>1, <2>3, <2>5, <3>2
      <3>3. QED
        BY <3>1, <3>2
    <2>6. ASSUME NEW y \in Sessions, NEW z \in Sessions, Busy(y)', Busy(z)', closing'[y].s = closing'[z].s
          PROVE  y = z
      <3>1. \A x \in Sessions : x # c /\ Busy(x)' => Busy(x) /\ closing'[x] = closing[x] /\ closing[x].s # s
        BY <1>4, <2>1, <2>3
      <3>2. closing'[c].s = s
        BY <1>4
      <3>3. QED
        BY <1>2, <2>6, <3>1, <3>2 DEF Closing
    <2>7. QED
      BY <2>4, <2>5, <2>6 DEF Closing
  <1>14. QED
    BY <1>4, <1>6, <1>7, <1>9, <1>10, <1>11, <1>12, <1>13 DEF ListenerIInv, s

\* The session is marked as closed: neither the table nor the updater has it.
LEMMA MarkKeeps ==
    ASSUME ListenerIInv, NEW c \in Sessions, L!Mark(c)
    PROVE  ListenerIInv'
  <1> DEFINE s == closing[c].s
  <1>1. /\ sessions' = sessions /\ chAccepts' = chAccepts /\ accepted' = accepted /\ sess' = sess
        /\ monitor' = monitor /\ begun' = begun /\ SameUpdating
        /\ closing[c].at = "mark" /\ isClosed' = isClosed \cup {s}
        /\ closing' = [closing EXCEPT ![c] = [at |-> "idle"]]
    BY DEF L!Mark, L!Idle, SameUpdating
  <1>2. Types /\ MonitorType /\ CloserTypes /\ Reachable /\ Gone /\ TableOwn /\ Arriving /\ Closing
    BY DEF ListenerIInv
  <1>3. /\ Busy(c) /\ s \in 1..Len(sess) /\ s \in Sessions /\ sessions[sess[s]] # s
        /\ s \in begun /\ updaterIdx[s] = 0
    BY <1>1, <1>2, Numbers DEF Closing, Busy
  <1>4. /\ closing' = [z \in Sessions |-> closing'[z]]
        /\ closing'[c] = [at |-> "idle"] /\ \A z \in Sessions \ {c} : closing'[z] = closing[z]
    BY <1>1, <1>2 DEF CloserTypes
  <1> HIDE DEF s
  <1>5. Types' /\ MonitorType'
    BY <1>1, <1>2, <1>3 DEF Types, MonitorType, SameUpdating
  <1>6. CloserTypes'
    <2>1. ASSUME NEW z \in Sessions
          PROVE  CloserType(closing[z])'
      BY <1>1, <1>2, <1>4 DEF CloserTypes, CloserType
    <2>2. QED
      BY <1>4, <2>1 DEF CloserTypes
  <1>7. Reachable' /\ TableOwn' /\ Arriving'
    <2>1. monitor.at \in {"register", "offer"} => monitor.s \in Sessions
      BY <1>2, Numbers DEF MonitorType
    <2>2. QED
      BY <1>1, <1>2, <2>1 DEF Reachable, TableOwn, Arriving, Offered, SameUpdating
  <1>8. Gone'
    BY <1>1, <1>2, <1>3 DEF Gone, SameUpdating
  <1>9. Closing'
    <2>1. \A z \in Sessions : Busy(z)' => z # c /\ Busy(z) /\ closing'[z] = closing[z]
      BY <1>4 DEF Busy
    <2>2. ASSUME NEW z \in Sessions, z # c, Busy(z)
          PROVE  closing[z].s # s /\ closing[z].s \in Sessions
      BY <1>2, <1>3, <2>2, Numbers DEF Closing, s
    <2>3. begun' \subseteq accepted' /\ isClosed' \subseteq begun'
      BY <1>1, <1>2, <1>3 DEF Closing
    <2>4. ASSUME NEW z \in Sessions, Busy(z)'
          PROVE  /\ closing'[z].s \in begun' \ isClosed' /\ updaterIdx'[closing'[z].s] = 0
                 /\ closing'[z].at = "unmap" <=> sessions'[sess'[closing'[z].s]] = closing'[z].s
      BY <1>1, <1>2, <2>1, <2>2, <2>4 DEF Closing, SameUpdating
    <2>5. ASSUME NEW y \in Sessions, NEW z \in Sessions, Busy(y)', Busy(z)', closing'[y].s = closing'[z].s
          PROVE  y = z
      BY <1>2, <2>1, <2>5 DEF Closing
    <2>6. QED
      BY <2>3, <2>4, <2>5 DEF Closing
  <1>10. QED
    BY <1>5, <1>6, <1>7, <1>8, <1>9 DEF ListenerIInv

\* The invariant of the listener, for any number of closers.
LEMMA ListenerStepKeeps ==
    ASSUME ListenerIInv, [L!Next]_(L!vars)
    PROVE  ListenerIInv'
  <1>1. CASE UNCHANGED L!vars
    <2>1. /\ sessions' = sessions /\ chAccepts' = chAccepts /\ sess' = sess /\ accepted' = accepted
          /\ begun' = begun /\ closing' = closing /\ isClosed' = isClosed /\ SameUpdating /\ monitor' = monitor
      BY <1>1 DEF L!vars, SameUpdating
    <2>2. Types /\ MonitorType /\ CloserTypes /\ Reachable /\ Gone /\ TableOwn /\ Arriving /\ Closing
      BY DEF ListenerIInv
    <2>3. Types' /\ CloserTypes' /\ TableOwn' /\ MonitorType'
      BY <2>1, <2>2 DEF Types, CloserTypes, CloserType, TableOwn, MonitorType, SameUpdating
    <2>4. Reachable' /\ Gone'
      BY <2>1, <2>2 DEF Reachable, Gone, Offered, SameUpdating
    <2>5. Closing'
      BY <2>1, <2>2, Numbers DEF Closing, Busy, SameUpdating
    <2>6. Arriving'
      <3>1. monitor.at \in {"register", "offer"} => monitor.s \in Sessions
        BY <2>2, Numbers DEF MonitorType
      <3>2. QED
        BY <2>1, <2>2, <3>1 DEF Arriving, Offered, SameUpdating
    <2>7. QED
      BY <2>3, <2>4, <2>5, <2>6 DEF ListenerIInv
  <1>2. CASE \E d \in L!Datagram : L!Read(d)
    BY <1>2, ReadKeeps
  <1>3. CASE L!Monitor
    BY <1>3, InputKeeps, NewKeeps, RegisterKeeps, OfferKeeps DEF L!Monitor, L!RegisterThenOffer
  <1>4. CASE L!AcceptKCP
    BY <1>4, AcceptKeeps
  <1>5. CASE \E c \in Sessions : (\E s \in accepted : L!Close(c, s)) \/ L!CloseSession(c) \/ L!Mark(c)
    BY <1>5, CloseKeeps, UnmapKeeps, MarkKeeps
  <1>6. QED
    BY <1>1, <1>2, <1>3, <1>4, <1>5 DEF L!Next

\* The listener's table, backlog and sessions agree through every race of monitor,
\* AcceptKCP and any number of goroutines that close sessions (sess.go).
THEOREM ListenerKept ==
    L!Spec => []L!ListenerInv
  BY ListenerStart, ListenerStepKeeps, ListenerImplied, PTL DEF L!Spec

-----------------------------------------------------------------------------
(* The server: the updater and the listener together *)

\* Besides what each part keeps, a closer is the handler of the session that it closes.
ServerIInv ==
    /\ UpdaterIInv /\ ListenerIInv /\ ServerTypeOK
    /\ \A c \in Sessions : Busy(c) => closing[c].s = c

\* A step of the updater that neither adds a session nor removes one is none of the listener.
LEMMA SameForListener ==
    ASSUME SameUpdating, UNCHANGED tables
    PROVE  UNCHANGED L!vars
  <1>1. {s \in Sessions : updaterIdx'[s] # 0} = {s \in Sessions : updaterIdx[s] # 0}
    BY DEF SameUpdating
  <1>2. QED
    BY <1>1 DEF tables, L!vars

\* What a step of the server is to the updater and to the listener.
LEMMA NewIsStep ==
    ASSUME ServerIInv, New
    PROVE  Next /\ L!Next /\ ServerTypeOK' /\ closing' = closing
  <1>1. /\ Add(Len(sess) + 1) /\ L!New /\ UNCHANGED main /\ Len(sess) + 1 \in Sessions
    BY Numbers DEF New, ServerIInv, ListenerIInv, Arriving
  <1>2. Next /\ L!Next
    BY <1>1 DEF Next, L!Next, L!Monitor
  <1>3. accepted' = accepted /\ closing' = closing
    BY <1>1 DEF L!New
  <1>4. QED
    BY <1>1, <1>2, <1>3 DEF main, ServerTypeOK, ServerIInv

\* The steps of monitor that the updater has no part in.
LEMMA ListenerOnly ==
    ASSUME ServerIInv, Register \/ Input \/ Network \/ (UNCHANGED <<vars, main>> /\ L!Refuse)
    PROVE  UNCHANGED vars /\ L!Next /\ ServerTypeOK' /\ closing' = closing
  <1>1. UNCHANGED <<vars, main>> /\ L!Next /\ accepted' = accepted /\ closing' = closing
    <2>1. CASE Register
      BY <2>1 DEF Register, L!RegisterThenOffer, L!Next, L!Monitor
    <2>2. CASE Input
      BY <2>2 DEF Input, L!Input, L!Next, L!Monitor
    <2>3. CASE Network
      BY <2>3 DEF Network, L!Read, L!Next
    <2>4. CASE UNCHANGED <<vars, main>> /\ L!Refuse
      BY <2>4 DEF L!Refuse, L!Next, L!Monitor
    <2>5. QED
      BY <2>1, <2>2, <2>3, <2>4
  <1>2. QED
    BY <1>1 DEF vars, main, ServerTypeOK, ServerIInv

\* The steps of updateTask, of the clock and of those who hold s.mu, none the listener's.
LEMMA UpdaterOnly ==
    ASSUME ServerIInv,
           \/ \E s \in Sessions : UpdaterStep(Wakeup(s)) \/ Use(s) \/ UpdaterStep(Unlock(s))
           \/ UpdaterStep(Task) \/ UpdaterStep(Fire) \/ UpdaterStep(Tick)
    PROVE  Next /\ UNCHANGED L!vars /\ ServerTypeOK' /\ closing' = closing
  <1>1. UpdaterIInv
    BY DEF ServerIInv
  <1>2. CASE \E s \in Sessions : UpdaterStep(Wakeup(s)) \/ Use(s) \/ UpdaterStep(Unlock(s))
    <2>1. PICK s \in Sessions : (Wakeup(s) \/ Lock(s) \/ Unlock(s)) /\ UNCHANGED <<tables, main>>
      BY <1>2 DEF UpdaterStep, Use
    <2>2. updaterIdx' = updaterIdx
      BY <2>1 DEF Wakeup, Lock, Unlock
    <2>3. SameUpdating
      BY <2>2 DEF SameUpdating
    <2>4. Next
      BY <2>1 DEF Next
    <2>5. UNCHANGED L!vars
      BY <2>1, <2>3, SameForListener
    <2>6. QED
      BY <2>1, <2>2, <2>4, <2>5 DEF tables, main, ServerTypeOK, ServerIInv
  <1>3. CASE UpdaterStep(Task) \/ UpdaterStep(Fire) \/ UpdaterStep(Tick)
    <2>1. (Task \/ Fire \/ Tick) /\ UNCHANGED <<tables, main>>
      BY <1>3 DEF UpdaterStep
    <2>2. SameUpdating
      <3>1. CASE Update
        BY <1>1, <3>1, UpdateKeeps DEF SameUpdating
      <3>2. CASE Select \/ TakeMu \/ HeadIsDue \/ Done \/ Fire \/ Tick
        BY <3>2 DEF Select, TakeMu, HeadIsDue, Done, Fire, Tick, SameUpdating
      <3>3. QED
        BY <2>1, <3>1, <3>2 DEF Task
    <2>3. Next
      BY <2>1 DEF Next
    <2>4. UNCHANGED L!vars
      BY <2>1, <2>2, SameForListener
    <2>5. QED
      BY <2>1, <2>3, <2>4 DEF tables, main, ServerTypeOK, ServerIInv
  <1>4. QED
    BY <1>2, <1>3

\* The three sections of a Close.
LEMMA CloseIsStep ==
    ASSUME ServerIInv, NEW s \in Sessions, MuxEnds(s) \/ CloseGoesOn(s)
    PROVE  [Next]_vars /\ L!Next /\ ServerTypeOK'
           /\ \A c \in Sessions : Busy(c)' => closing'[c].s = c
  <1>1. /\ ListenerIInv /\ CloserTypes /\ ServerTypeOK
        /\ \A c \in Sessions : Busy(c) => closing[c].s = c
    BY DEF ServerIInv, ListenerIInv
  <1>2. CASE MuxEnds(s)
    <2>1. Remove(s) /\ L!Close(s, s) /\ UNCHANGED main /\ s \in accepted
      BY <1>1, <1>2 DEF MuxEnds, ServerTypeOK
    <2>2. Next /\ L!Next
      BY <2>1 DEF Next, L!Next
    <2>3. accepted' = accepted
      BY <2>1 DEF L!Close
    <2>4. closing' = [closing EXCEPT ![s] = [at |-> "unmap", s |-> s]]
      BY <2>1 DEF L!Close
    <2>5. \A c \in Sessions : Busy(c)' => closing'[c].s = c
      BY <1>1, <2>4 DEF Busy, CloserTypes
    <2>6. QED
      BY <1>1, <2>1, <2>2, <2>3, <2>5 DEF main, ServerTypeOK
  <1>3. CASE closing[s].at = "unmap" /\ UNCHANGED <<vars, main>> /\ L!CloseSession(s)
    <2>1. L!Next
      BY <1>3 DEF L!Next
    <2>2. accepted' = accepted /\ closing' = [closing EXCEPT ![s].at = "mark"]
      BY <1>3 DEF L!CloseSession
    <2>3. closing'[s].s = closing[s].s
      BY <1>1, <1>3, UnmapKeeps
    <2>4. \A c \in Sessions \ {s} : closing'[c] = closing[c]
      BY <1>1, <2>2 DEF CloserTypes
    <2>5. \A c \in Sessions : Busy(c)' => closing'[c].s = c
      BY <1>1, <1>3, <2>3, <2>4 DEF Busy
    <2>6. QED
      BY <1>1, <1>3, <2>1, <2>2, <2>5 DEF vars, main, ServerTypeOK
  <1>4. CASE closing[s].at = "mark" /\ Mark(s) /\ L!Mark(s) /\ UNCHANGED main
    <2>1. Next /\ L!Next
      BY <1>4 DEF Next, L!Next
    <2>2. accepted' = accepted /\ closing' = [closing EXCEPT ![s] = [at |-> "idle"]]
      BY <1>4 DEF L!Mark, L!Idle
    <2>3. \A c \in Sessions : Busy(c)' => closing'[c].s = c
      BY <1>1, <2>2 DEF Busy, CloserTypes
    <2>4. QED
      BY <1>1, <1>4, <2>1, <2>2, <2>3 DEF main, ServerTypeOK
  <1>5. QED
    BY <1>2, <1>3, <1>4 DEF CloseGoesOn

\* loop takes a session from the backlog and starts its handler.
LEMMA LoopIsStep ==
    ASSUME ServerIInv, Accept \/ Handle
    PROVE  /\ UNCHANGED vars /\ [L!Next]_(L!vars)
           /\ ServerTypeOK' /\ closing' = closing
  <1>1. CASE Accept
    <2>1. L!AcceptKCP /\ loop' = Head(chAccepts) /\ UNCHANGED <<vars, muxes>>
      BY <1>1 DEF Accept
    <2>2. L!Next /\ Head(chAccepts) \in accepted' /\ accepted \subseteq accepted' /\ closing' = closing
      BY <2>1 DEF L!Next, L!AcceptKCP
    <2>3. QED
      BY <2>1, <2>2 DEF vars, ServerTypeOK, ServerIInv
  <1>2. CASE Handle
    <2>1. loop \in accepted /\ loop' = Waiting /\ muxes' = muxes \cup {loop} /\ UNCHANGED <<vars, tables>>
      BY <1>2, ServerAssumption DEF Handle, ServerIInv, ServerTypeOK, Waiting
    <2>2. SameUpdating
      BY <2>1 DEF vars, SameUpdating
    <2>3. UNCHANGED L!vars
      BY <2>1, <2>2, SameForListener
    <2>4. QED
      BY <2>1, <2>3 DEF vars, tables, ServerTypeOK, ServerIInv
  <1>3. QED
    BY <1>1, <1>2

\* Every step of the server is one of the updater or none, and one of the listener or none.
LEMMA ServerStep ==
    ASSUME ServerIInv, [ServerNext]_serverVars
    PROVE  [Next]_vars /\ [L!Next]_(L!vars) /\ ServerTypeOK'
           /\ \A c \in Sessions : Busy(c)' => closing'[c].s = c
  <1>1. ASSUME closing' = closing
        PROVE  \A c \in Sessions : Busy(c)' => closing'[c].s = c
    BY <1>1 DEF ServerIInv, Busy
  <1>2. CASE UNCHANGED serverVars
    <2>1. UNCHANGED <<vars, tables, main>>
      BY <1>2 DEF serverVars
    <2>2. SameUpdating
      BY <2>1 DEF vars, SameUpdating
    <2>3. UNCHANGED L!vars
      BY <2>1, <2>2, SameForListener
    <2>4. QED
      BY <1>1, <2>1, <2>3 DEF vars, tables, main, ServerTypeOK, ServerIInv
  <1>3. CASE Monitor \/ Network
    BY <1>1, <1>3, NewIsStep, ListenerOnly DEF Monitor
  <1>4. CASE \E s \in Sessions : UpdaterStep(Wakeup(s)) \/ Use(s) \/ UpdaterStep(Unlock(s))
    BY <1>1, <1>4, UpdaterOnly
  <1>5. CASE \E s \in Sessions : MuxEnds(s) \/ CloseGoesOn(s)
    BY <1>5, CloseIsStep
  <1>6. CASE UpdaterStep(Task) \/ UpdaterStep(Fire) \/ UpdaterStep(Tick)
    BY <1>1, <1>6, UpdaterOnly
  <1>7. CASE Accept \/ Handle
    BY <1>1, <1>7, LoopIsStep
  <1>8. QED
    BY <1>2, <1>3, <1>4, <1>5, <1>6, <1>7 DEF ServerNext

\* The server starts with its parts at their start.
LEMMA ServerStart ==
    ServerInit => ServerIInv
  <1> SUFFICES ASSUME ServerInit
               PROVE  ServerIInv
    OBVIOUS
  <1>1. Init /\ L!Init /\ loop = Waiting /\ muxes = {}
    BY DEF ServerInit
  <1>2. UpdaterIInv /\ ListenerIInv
    BY <1>1, UpdaterStart, ListenerStart
  <1>3. ServerTypeOK
    BY <1>1 DEF ServerTypeOK
  <1>4. \A c \in Sessions : ~Busy(c)
    BY <1>1 DEF L!Init, L!Idle, Busy
  <1>5. QED
    BY <1>2, <1>3, <1>4 DEF ServerIInv

\* The invariant of the two parts together is kept by every step of the server.
THEOREM ServerInductive ==
    ServerSpec => []ServerIInv
  <1>1. ASSUME ServerIInv, [ServerNext]_serverVars
        PROVE  ServerIInv'
    <2>1. /\ [Next]_vars /\ [L!Next]_(L!vars) /\ ServerTypeOK'
          /\ \A c \in Sessions : Busy(c)' => closing'[c].s = c
      BY <1>1, ServerStep
    <2>2. UpdaterIInv' /\ ListenerIInv'
      BY <1>1, <2>1, UpdaterStepKeeps, ListenerStepKeeps DEF ServerIInv
    <2>3. QED
      BY <2>1, <2>2 DEF ServerIInv
  <1>2. QED
    BY <1>1, ServerStart, PTL DEF ServerSpec

\* In the server the updater behaves as it does by itself: New and MuxEnds add and remove
\* sessions as Add and Remove allow.
THEOREM ServerRunsUpdater ==
    ServerSpec => Spec
  <1>1. ServerInit => Init
    BY DEF ServerInit
  <1>2. ServerIInv /\ [ServerNext]_serverVars => [Next]_vars
    BY ServerStep
  <1>3. QED
    BY <1>1, <1>2, ServerInductive, PTL DEF ServerSpec, Spec

\* In the server the listener behaves as it does by itself, with the heap of the updater for
\* its set of sessions that are updated.
THEOREM ServerRunsListener ==
    ServerSpec => L!Spec
  <1>1. ServerInit => L!Init
    BY DEF ServerInit
  <1>2. ServerIInv /\ [ServerNext]_serverVars => [L!Next]_(L!vars)
    BY ServerStep
  <1>3. QED
    BY <1>1, <1>2, ServerInductive, PTL DEF ServerSpec, L!Spec

\* The heap and the timer are right while monitor and the handlers' Close race updateTask
\* (updater.go in the server process).
THEOREM ServerHeapKept ==
    ServerSpec => []HeapInv
  BY ServerRunsUpdater, HeapKept, PTL

\* The table, the backlog, the updater and the sessions agree through every race of
\* monitor, loop, the handlers' Close and updateTask (sess.go, updater.go, server/main.go).
THEOREM SessionsAgree ==
    ServerSpec => []ServerInv
  <1>1. ServerIInv => ServerInv
    BY ListenerImplied DEF ServerIInv, ServerInv
  <1>2. QED
    BY <1>1, ServerInductive, PTL

=============================================================================
