----------------------------- MODULE KCPProofs -----------------------------
(***************************************************************************)
(* Proofs about the ARQ core for every window, segment size, bound and     *)
(* network: type correctness and StreamIntegrity, that the protocol        *)
(* implements ByteStream, that what the ends tell each other about the     *)
(* segments they have is so, and what follows from it about the windows    *)
(* and about the bytes between Write and Read.                             *)
(***************************************************************************)
EXTENDS KCP, SequenceTheorems, FiniteSetTheorems, WellFoundedInduction, TLAPS

(* Facts about the helpers. *)

\* A conversation has two ends, each the other's peer.
LEMMA PeerType ==
    ASSUME NEW e \in Ends
    PROVE  Peer(e) \in Ends /\ Peer(e) # e /\ Peer(Peer(e)) = e
BY DEF Ends, Peer

\* Concatenating and cutting sequences of a type.
LEMMA ConcatType ==
    ASSUME NEW T, NEW s \in Seq(T), NEW t \in Seq(T)
    PROVE  /\ s \o t \in Seq(T)
           /\ Len(s \o t) = Len(s) + Len(t)
           /\ \A i \in 1..Len(s) : (s \o t)[i] = s[i]
           /\ \A i \in 1..Len(t) : (s \o t)[Len(s) + i] = t[i]
<1>1. \A i \in 1..Len(t) : Len(s) + i \in 1..(Len(s) + Len(t)) /\ ~(Len(s) + i <= Len(s))
  BY LenProperties
<1> QED BY <1>1, ConcatProperties, LenProperties

\* The front that flush takes off a queue and the rest it leaves.
LEMMA CutType ==
    ASSUME NEW T, NEW s \in Seq(T), NEW n \in 0..Len(s)
    PROVE  /\ SubSeq(s, 1, n) \in Seq(T)
           /\ Len(SubSeq(s, 1, n)) = n
           /\ \A i \in 1..n : SubSeq(s, 1, n)[i] = s[i]
           /\ SubSeq(s, n + 1, Len(s)) \in Seq(T)
           /\ Len(SubSeq(s, n + 1, Len(s))) = Len(s) - n
           /\ \A i \in 1..(Len(s) - n) : SubSeq(s, n + 1, Len(s))[i] = s[n + i]
<1> USE LenProperties
<1>1. \A i \in 1..Len(s) : s[i] \in T
  BY ElementOfSeq
<1>2. SubSeq(s, 1, n) \in Seq(T) /\ Len(SubSeq(s, 1, n)) = n
  BY <1>1, SubSeqProperties
<1>3. \A i \in 1..n : SubSeq(s, 1, n)[i] = s[i]
  BY <1>1, SubSeqProperties
<1>4. SubSeq(s, n + 1, Len(s)) \in Seq(T) /\ Len(SubSeq(s, n + 1, Len(s))) = Len(s) - n
  BY <1>1, SubSeqProperties
<1>5. \A i \in 1..(Len(s) - n) : SubSeq(s, n + 1, Len(s))[i] = s[n + i]
  BY <1>1, SubSeqProperties
<1> QED BY <1>2, <1>3, <1>4, <1>5

\* flush numbers no more segments than are queued.
LEMMA NewSegsRange ==
    ASSUME ConstantsAssumption, TypeOK, NEW e \in Ends, NEW queue \in Seq(Chunk)
    PROVE  NewSegs(e, queue) \in 0..Len(queue)
<1>1. /\ snd_una[e] \in Nat /\ SndWnd[e] \in Nat /\ rmt_wnd[e] \in Nat
      /\ snd_nxt[e] \in Nat /\ Len(queue) \in Nat
  BY LenProperties DEF TypeOK, ConstantsAssumption
<1> QED BY <1>1 DEF NewSegs, Smaller

\* wnd_unused never tells a negative window.
LEMMA WndUnusedNat ==
    ASSUME ConstantsAssumption, NEW e \in Ends, NEW queue \in Seq(Chunk)
    PROVE  WndUnused(e, queue) \in Nat
<1>1. RcvWnd[e] \in Nat /\ WndSpace \in Nat /\ WndSpace > 0 /\ Len(queue) \in Nat
  BY LenProperties DEF ConstantsAssumption
<1> QED BY <1>1 DEF WndUnused

\* Send, which may fill up the last segment first, leaves a queue of chunks.
LEMMA SendType ==
    ASSUME ConstantsAssumption, NEW queue \in Seq(Chunk), NEW pos \in Nat, NEW n \in 1..Mss
    PROVE  Send(queue, pos, n) \in Seq(Chunk)
<1> DEFINE last == queue[Len(queue)]
           grow == IF queue = <<>> \/ last.hi - last.lo >= Mss THEN 0
                   ELSE Smaller(Mss - (last.hi - last.lo), n)
           longer == [lo |-> last.lo, hi |-> last.hi + grow]
           grown == IF grow = 0 THEN queue ELSE [queue EXCEPT ![Len(queue)] = longer]
           rest == [lo |-> pos + grow, hi |-> pos + n]
<1>1. Send(queue, pos, n) = IF grow = n THEN grown ELSE Append(grown, rest)
  BY DEF Send
<1>2. queue # <<>> => Len(queue) \in 1..Len(queue) /\ last \in Chunk
  BY EmptySeq, ElementOfSeq
<1>3. grow \in 0..n
  BY <1>2 DEF Smaller, ConstantsAssumption, Chunk
<1>4. grow # 0 => longer \in Chunk /\ queue # <<>>
  BY <1>2, <1>3 DEF Chunk
<1>5. grown \in Seq(Chunk)
  BY <1>2, <1>4, ExceptSeq
<1>6. rest \in Chunk
  BY <1>3 DEF Chunk
<1> HIDE DEF grow, grown, rest
<1> QED BY <1>1, <1>5, <1>6, AppendProperties

\* Flush: the segments it numbers and sends are well formed.
LEMMA NumberedType ==
    ASSUME ConstantsAssumption, TypeOK, NEW e \in Ends, NEW queue \in Seq(Chunk)
    PROVE  /\ DOMAIN Numbered(e, queue) =
                 DOMAIN snd_buf[e] \cup (snd_nxt[e] .. (snd_nxt[e] + NewSegs(e, queue) - 1))
           /\ DOMAIN Numbered(e, queue) \subseteq Nat
           /\ \A s \in DOMAIN Numbered(e, queue) : Numbered(e, queue)[s] \in Slot
<1> DEFINE n == NewSegs(e, queue)
           fresh == snd_nxt[e] .. (snd_nxt[e] + n - 1)
<1>1. n \in 0..Len(queue) /\ Len(queue) \in Nat /\ snd_nxt[e] \in Nat
  BY NewSegsRange, LenProperties DEF TypeOK
<1>2. \A s \in fresh : s \in Nat /\ s - snd_nxt[e] + 1 \in 1..Len(queue)
  BY <1>1
<1>3. \A s \in fresh : queue[s - snd_nxt[e] + 1] \in Chunk
  BY <1>2, ElementOfSeq
<1>4. DOMAIN snd_buf[e] \subseteq Nat /\ \A s \in DOMAIN snd_buf[e] : snd_buf[e][s] \in Slot
  BY DEF TypeOK
<1> HIDE DEF n
<1>5. Numbered(e, queue) = [s \in DOMAIN snd_buf[e] \cup fresh |->
           IF s \in fresh THEN [data |-> queue[s - snd_nxt[e] + 1], acked |-> FALSE]
           ELSE snd_buf[e][s]]
  BY DEF Numbered, n
<1> HIDE DEF fresh
<1>6. \A s \in DOMAIN snd_buf[e] \cup fresh : Numbered(e, queue)[s] \in Slot
  BY <1>3, <1>4, <1>5 DEF Slot
<1> QED BY <1>2, <1>4, <1>5, <1>6 DEF n, fresh

\* What flush makes of the acklist are segments.
LEMMA AckSegsType ==
    ASSUME NEW acks \in Seq(Nat), NEW una \in Nat, NEW wnd \in Nat
    PROVE  AckSegs(acks, una, wnd) \subseteq Segment
<1>1. DOMAIN acks = 1..Len(acks) /\ \A i \in 1..Len(acks) : acks[i] \in Nat
  BY LenProperties, ElementOfSeq
<1> QED BY <1>1 DEF AckSegs, ControlSeg, Segment, Cmd, NoData, Chunk

\* Whatever flush puts on the network is a segment: acks, probes, data.
LEMMA FlushSegsType ==
    ASSUME ConstantsAssumption, TypeOK, NEW e \in Ends, NEW queue \in Seq(Chunk),
           NEW due \in SUBSET Unacked(e), NEW expired \in BOOLEAN
    PROVE  FlushSegs(e, queue, due, expired) \subseteq Segment
<1> DEFINE wnd == WndUnused(e, rcv_queue[e])
           una == rcv_nxt[e]
           buf == Numbered(e, queue)
           fresh == DOMAIN buf \ DOMAIN snd_buf[e]
           asks == probe[e] \cup (IF expired THEN {"WASK"} ELSE {})
<1>1. wnd \in Nat /\ una \in Nat /\ acklist[e] \in Seq(Nat)
  BY WndUnusedNat DEF TypeOK
<1>2. AckSegs(acklist[e], una, wnd) \subseteq Segment
  BY <1>1, AckSegsType
<1>3. asks \subseteq Cmd
  BY DEF TypeOK, Cmd
<1>4. {ControlSeg(c, 0, una, wnd) : c \in asks} \subseteq Segment
  BY <1>1, <1>3 DEF ControlSeg, Segment, NoData, Chunk
<1>5. \A s \in fresh \cup due : s \in Nat /\ buf[s].data \in Chunk
  BY NumberedType DEF Unacked, Slot
<1>6. {PushSeg(s, una, wnd, buf[s].data) : s \in fresh \cup due} \subseteq Segment
  BY <1>1, <1>5 DEF PushSeg, Segment, Cmd
<1> QED BY <1>2, <1>4, <1>6 DEF FlushSegs

-----------------------------------------------------------------------------
(* Facts about tiled sequences of chunks. *)

\* Where a chunk of tiled ones begins, and that it is not empty.
LEMMA TilesAt ==
    ASSUME NEW q, NEW a, NEW b, Tiles(q, a, b), NEW i \in 1..Len(q)
    PROVE  q[i].lo = EndOf(q, i - 1, a) /\ q[i].lo < q[i].hi
BY DEF Tiles

\* Cutting a tiled sequence anywhere leaves two tiled sequences.
LEMMA TilesCut ==
    ASSUME NEW q \in Seq(Chunk), NEW n \in 0..Len(q), NEW a, NEW b, Tiles(q, a, b)
    PROVE  /\ Tiles(SubSeq(q, 1, n), a, EndOf(q, n, a))
           /\ Tiles(SubSeq(q, n + 1, Len(q)), EndOf(q, n, a), b)
<1> DEFINE s == SubSeq(q, 1, n)
           t == SubSeq(q, n + 1, Len(q))
<1>1. /\ Len(q) \in Nat /\ Len(s) = n /\ Len(t) = Len(q) - n
      /\ \A i \in 1..n : s[i] = q[i]
      /\ \A i \in 1..(Len(q) - n) : t[i] = q[n + i]
  BY CutType, LenProperties
<1> HIDE DEF s, t
<1>2. \A i \in 0..n : EndOf(s, i, a) = EndOf(q, i, a)
  BY <1>1 DEF EndOf
<1>3. \A i \in 1..n : i \in 1..Len(q) /\ i - 1 \in 0..n
  BY <1>1
<1>4. Tiles(s, a, EndOf(q, n, a))
  BY <1>1, <1>2, <1>3 DEF Tiles
<1>5. ASSUME NEW i \in 1..Len(t)
      PROVE  t[i].lo = EndOf(t, i - 1, EndOf(q, n, a)) /\ t[i].lo < t[i].hi
  <2>1. n + i \in 1..Len(q) /\ t[i] = q[n + i]
    BY <1>1
  <2>2. q[n + i].lo = EndOf(q, n + i - 1, a) /\ q[n + i].lo < q[n + i].hi
    BY <2>1 DEF Tiles
  <2>3. EndOf(q, n + i - 1, a) = EndOf(t, i - 1, EndOf(q, n, a))
    <3>1. CASE i = 1
      <4>1. n + i - 1 = n /\ i - 1 = 0
        BY <3>1
      <4> QED BY <4>1, Zenon DEF EndOf
    <3>2. CASE i # 1
      <4>1. i - 1 \in 1..(Len(q) - n) /\ n + (i - 1) = n + i - 1 /\ i - 1 # 0 /\ n + i - 1 # 0
        BY <1>1, <3>2
      <4>2. t[i - 1] = q[n + i - 1]
        BY <1>1, <4>1
      <4> QED BY <4>1, <4>2, Zenon DEF EndOf
    <3> QED BY <3>1, <3>2
  <2> QED BY <2>1, <2>2, <2>3
<1>6. EndOf(t, Len(t), EndOf(q, n, a)) = b
  BY <1>1, SMTT(20) DEF Tiles, EndOf
<1> QED BY <1>5, <1>6, <1>4 DEF Tiles, s, t

\* Joining two tiled sequences that meet gives a tiled sequence.
LEMMA TilesConcat ==
    ASSUME NEW s \in Seq(Chunk), NEW t \in Seq(Chunk), NEW a, NEW m, NEW b,
           Tiles(s, a, m), Tiles(t, m, b)
    PROVE  Tiles(s \o t, a, b)
<1> DEFINE q == s \o t
<1>1. /\ Len(s) \in Nat /\ Len(t) \in Nat /\ Len(q) = Len(s) + Len(t)
      /\ \A i \in 1..Len(s) : q[i] = s[i]
      /\ \A i \in 1..Len(t) : q[Len(s) + i] = t[i]
  BY ConcatType, LenProperties
<1> HIDE DEF q
<1>2. ASSUME NEW i \in 1..Len(q)
      PROVE  q[i].lo = EndOf(q, i - 1, a) /\ q[i].lo < q[i].hi
  <2>1. CASE i \in 1..Len(s)
    <3>1. i - 1 # 0 => i - 1 \in 1..Len(s)
      BY <1>1, <2>1
    <3>2. EndOf(q, i - 1, a) = EndOf(s, i - 1, a) /\ q[i] = s[i]
      BY <1>1, <2>1, <3>1 DEF EndOf
    <3> QED BY <2>1, <3>2 DEF Tiles
  <2>2. CASE i = Len(s) + 1
    BY <1>1, <2>2 DEF Tiles, EndOf
  <2>3. CASE i \in (Len(s) + 2)..Len(q)
    <3>1. PICK j \in 2..Len(t) : i = Len(s) + j
      <4>1. i - Len(s) \in 2..Len(t) /\ i = Len(s) + (i - Len(s))
        BY <1>1, <2>3
      <4> QED BY <4>1
    <3>2. q[i] = t[j] /\ q[i - 1] = t[j - 1]
      BY <1>1, <3>1
    <3> QED BY <1>1, <3>1, <3>2 DEF Tiles, EndOf
  <2> QED BY <1>1, <2>1, <2>2, <2>3
<1>3. EndOf(q, Len(q), a) = b
  BY <1>1 DEF Tiles, EndOf
<1> QED BY <1>2, <1>3 DEF Tiles, q

\* Send keeps the queue tiled and moves its end by the bytes written.
LEMMA SendTiles ==
    ASSUME ConstantsAssumption, NEW queue \in Seq(Chunk), NEW pos \in Nat, NEW n \in 1..Mss,
           NEW a, Tiles(queue, a, pos), Below(queue, pos)
    PROVE  /\ Tiles(Send(queue, pos, n), a, pos + n)
           /\ Below(Send(queue, pos, n), pos + n)
<1> DEFINE k == Len(queue)
           last == queue[k]
           grow == IF queue = <<>> \/ last.hi - last.lo >= Mss THEN 0
                   ELSE Smaller(Mss - (last.hi - last.lo), n)
           longer == [lo |-> last.lo, hi |-> last.hi + grow]
           grown == IF grow = 0 THEN queue ELSE [queue EXCEPT ![k] = longer]
           rest == [lo |-> pos + grow, hi |-> pos + n]
<1>1. Send(queue, pos, n) = IF grow = n THEN grown ELSE Append(grown, rest)
  BY DEF Send
<1>2. k \in Nat /\ (queue = <<>> => k = 0) /\ (queue # <<>> => k \in 1..k)
  BY EmptySeq, LenProperties
<1>3. \A i \in 1..k : queue[i] \in Chunk
  BY ElementOfSeq
<1>4. grow \in 0..n /\ (grow # 0 => k \in 1..k)
  <2>1. Mss \in Nat
    BY DEF ConstantsAssumption
  <2>2. queue # <<>> => last.lo \in Nat /\ last.hi \in Nat
    BY <1>2, <1>3 DEF Chunk
  <2>3. grow \in 0..n
    <3>1. CASE queue = <<>> \/ last.hi - last.lo >= Mss
      BY <3>1
    <3>2. CASE ~(queue = <<>> \/ last.hi - last.lo >= Mss)
      <4>1. Mss - (last.hi - last.lo) \in Nat
        BY <2>1, <2>2, <3>2
      <4> QED BY <3>2, <4>1 DEF Smaller
    <3> QED BY <3>1, <3>2
  <2>4. grow # 0 => queue # <<>>
    OBVIOUS
  <2> QED BY <1>2, <2>3, <2>4
<1>5. k \in 1..k => last.hi = pos /\ last \in Chunk
  BY <1>2, <1>3 DEF Tiles, EndOf
<1>6. grow # 0 => longer \in Chunk
  BY <1>4, <1>5 DEF Chunk
<1> HIDE DEF grow, longer
<1>7. grown \in Seq(Chunk) /\ Len(grown) = k
  BY <1>4, <1>6, ExceptSeq
<1>8. \A i \in 1..k : grown[i] = IF i = k /\ grow # 0 THEN longer ELSE queue[i]
  BY <1>4, <1>6, ExceptSeq
<1>9. \A i \in 1..k : grown[i].lo = queue[i].lo /\ grown[i].hi = IF i = k THEN pos + grow ELSE queue[i].hi
  <2>1. grow # 0 => longer.lo = last.lo /\ longer.hi = last.hi + grow
    BY DEF longer
  <2>2. k \in Nat /\ pos + grow \in Nat /\ (grow = 0 => pos + grow = pos)
    BY <1>2, <1>4
  <2> HIDE DEF longer
  <2>3. ASSUME NEW i \in 1..k
        PROVE  grown[i].lo = queue[i].lo /\ grown[i].hi = IF i = k THEN pos + grow ELSE queue[i].hi
    <3>1. CASE i = k
      <4>1. last.hi = pos /\ queue[i] = last
        BY <1>5, <3>1
      <4> QED BY <1>8, <2>1, <2>2, <3>1, <4>1
    <3>2. CASE i # k
      BY <1>8, <3>2
    <3> QED BY <3>1, <3>2
  <2> QED BY <2>3
<1> HIDE DEF grown, k
<1>10. Tiles(grown, a, IF k = 0 THEN a ELSE pos + grow)
  <2>1. ASSUME NEW i \in 1..k
        PROVE  grown[i].lo = EndOf(grown, i - 1, a) /\ grown[i].lo < grown[i].hi
    <3>1. queue[i].lo = EndOf(queue, i - 1, a) /\ queue[i].lo < queue[i].hi
      BY DEF Tiles, k
    <3>2. EndOf(grown, i - 1, a) = EndOf(queue, i - 1, a)
      BY <1>2, <1>9 DEF EndOf
    <3>3. grown[i].lo < grown[i].hi
      BY <1>3, <1>4, <1>5, <1>9, <3>1 DEF Chunk, k
    <3> QED BY <1>9, <3>1, <3>2, <3>3
  <2>2. EndOf(grown, Len(grown), a) = IF k = 0 THEN a ELSE pos + grow
    BY <1>2, <1>7, <1>9 DEF EndOf
  <2> QED BY <1>7, <2>1, <2>2 DEF Tiles
<1>11. k = 0 => a = pos /\ grow = 0
  BY <1>2, <1>4 DEF Tiles, EndOf, k
<1>12. Below(grown, pos + grow)
  <2>1. k \in Nat /\ pos + grow \in Nat /\ pos <= pos + grow
    BY <1>2, <1>4
  <2>2. ASSUME NEW i \in 1..k PROVE grown[i].hi <= pos + grow
    <3>1. queue[i].hi <= pos /\ queue[i].hi \in Nat
      BY <1>3 DEF Below, k, Chunk
    <3> QED BY <1>9, <2>1, <3>1
  <2> QED BY <1>7, <2>2 DEF Below
<1>13. CASE grow = n
  BY <1>1, <1>4, <1>10, <1>11, <1>12, <1>13
<1>14. CASE grow # n
  <2> DEFINE q == Append(grown, rest)
  <2>1. rest \in Chunk
    BY <1>4 DEF Chunk
  <2>2. /\ q \in Seq(Chunk) /\ Len(q) = k + 1 /\ q[k + 1] = rest
        /\ \A i \in 1..k : q[i] = grown[i]
    BY <1>7, <2>1, AppendProperties
  <2> HIDE DEF q
  <2>3. Tiles(q, a, pos + n)
    <3>1. rest.lo = pos + grow /\ rest.hi = pos + n /\ rest.lo < rest.hi
      BY <1>4, <1>14
    <3>2. k \in Nat /\ EndOf(grown, k, a) = pos + grow
      <4>1. EndOf(grown, k, a) = IF k = 0 THEN a ELSE pos + grow
        BY <1>7, <1>10 DEF Tiles
      <4>2. k \in Nat /\ grow \in Nat
        BY <1>2, <1>4
      <4>3. CASE k = 0
        <5>1. a = pos /\ grow = 0
          BY <1>11, <4>3
        <5> QED BY <4>1, <4>2, <4>3, <5>1
      <4>4. CASE k # 0
        BY <4>1, <4>2, <4>4
      <4> QED BY <4>3, <4>4
    <3>3. ASSUME NEW i \in 1..k + 1
          PROVE  q[i].lo = EndOf(q, i - 1, a) /\ q[i].lo < q[i].hi
      <4>1. CASE i = k + 1
        BY <2>2, <3>1, <3>2, <4>1 DEF EndOf
      <4>2. CASE i # k + 1
        <5>1. i \in 1..k /\ q[i] = grown[i] /\ (i # 1 => i - 1 \in 1..k /\ q[i - 1] = grown[i - 1])
          BY <2>2, <3>2, <4>2
        <5>2. grown[i].lo = EndOf(grown, i - 1, a) /\ grown[i].lo < grown[i].hi
          BY <1>7, <1>10, <5>1 DEF Tiles
        <5> QED BY <5>1, <5>2 DEF EndOf
      <4> QED BY <4>1, <4>2
    <3>4. EndOf(q, k + 1, a) = pos + n
      BY <2>2, <3>1, <3>2 DEF EndOf
    <3> QED BY <2>2, <3>3, <3>4 DEF Tiles
  <2>4. Below(q, pos + n)
    <3>1. ASSUME NEW i \in 1..k PROVE q[i].hi <= pos + n
      <4>1. grown[i] \in Chunk /\ grown[i].hi <= pos + grow /\ q[i] = grown[i]
        BY <1>7, <1>12, <2>2, ElementOfSeq DEF Below
      <4> QED BY <1>4, <4>1 DEF Chunk
    <3>2. q[k + 1].hi = pos + n /\ pos + n \in Nat
      BY <1>4, <2>2
    <3>3. \A i \in 1..k + 1 : i \in 1..k \/ i = k + 1
      BY <1>2
    <3>4. \A i \in 1..k + 1 : q[i].hi <= pos + n
      BY <3>1, <3>2, <3>3
    <3> QED BY <2>2, <3>4 DEF Below
  <2> QED BY <1>1, <1>14, <2>3, <2>4 DEF q
<1> QED BY <1>13, <1>14

\* t is s followed by the first n elements of q.
Extends(t, s, q, n) ==
    /\ Len(t) = Len(s) + n
    /\ \A i \in 1..Len(s) : t[i] = s[i]
    /\ \A i \in 1..n : t[Len(s) + i] = q[i]

\* Moving the first n chunks of a queue to the end of another sequence.
LEMMA MoveFront ==
    ASSUME NEW s \in Seq(Chunk), NEW q \in Seq(Chunk), NEW n \in 0..Len(q)
    PROVE  /\ s \o SubSeq(q, 1, n) \in Seq(Chunk)
           /\ Extends(s \o SubSeq(q, 1, n), s, q, n)
<1> DEFINE front == SubSeq(q, 1, n)
<1>1. front \in Seq(Chunk) /\ Len(front) = n
  BY CutType
<1>2. \A i \in 1..n : front[i] = q[i]
  BY CutType
<1> HIDE DEF front
<1>3. /\ s \o front \in Seq(Chunk) /\ Len(s \o front) = Len(s) + Len(front)
      /\ \A i \in 1..Len(s) : (s \o front)[i] = s[i]
  BY <1>1, ConcatType
<1>4. \A i \in 1..Len(front) : (s \o front)[Len(s) + i] = front[i]
  BY <1>1, ConcatType
<1> QED BY <1>1, <1>2, <1>3, <1>4 DEF front, Extends

\* Numbering segments leaves both sequences within what was written.
LEMMA MoveFrontBelow ==
    ASSUME NEW s \in Seq(Chunk), NEW q \in Seq(Chunk), NEW n \in 0..Len(q), NEW limit,
           Below(s, limit), Below(q, limit)
    PROVE  /\ Below(s \o SubSeq(q, 1, n), limit)
           /\ Below(SubSeq(q, n + 1, Len(q)), limit)
<1> DEFINE t == s \o SubSeq(q, 1, n)
           r == SubSeq(q, n + 1, Len(q))
<1>1. Len(q) \in Nat /\ Len(s) \in Nat
  BY LenProperties
<1> HIDE DEF t, r
<1>2. ASSUME NEW i \in 1..Len(t) PROVE t[i].hi <= limit
  <2>1. Extends(t, s, q, n)
    BY MoveFront, Zenon DEF t
  <2>2. CASE i \in 1..Len(s)
    <3>1. t[i] = s[i]
      BY <2>1, <2>2 DEF Extends
    <3> QED BY <2>2, <3>1 DEF Below
  <2>3. CASE i \notin 1..Len(s)
    <3> DEFINE j == i - Len(s)
    <3>1. j \in 1..n /\ j \in 1..Len(q) /\ i = Len(s) + j
      BY <1>1, <2>1, <2>3 DEF Extends
    <3> HIDE DEF j
    <3>2. t[Len(s) + j] = q[j]
      BY <2>1, <3>1 DEF Extends
    <3> QED BY <3>1, <3>2 DEF Below
  <2> QED BY <2>2, <2>3
<1>3. ASSUME NEW i \in 1..Len(r) PROVE r[i].hi <= limit
  <2>1. Len(r) = Len(q) - n
    BY CutType DEF r
  <2>2. i \in 1..(Len(q) - n) /\ n + i \in 1..Len(q)
    BY <1>1, <2>1
  <2>3. r[i] = q[n + i]
    BY <2>2, CutType DEF r
  <2> QED BY <2>2, <2>3 DEF Below
<1> QED BY <1>2, <1>3 DEF Below, t, r

\* What lies below a limit lies below a later one: more was written.
LEMMA BelowMore ==
    ASSUME NEW q \in Seq(Chunk), NEW a \in Nat, NEW b \in Nat, a <= b, Below(q, a)
    PROVE  Below(q, b)
<1>1. ASSUME NEW i \in 1..Len(q) PROVE q[i].hi <= b
  <2>1. q[i].hi <= a
    BY DEF Below
  <2>2. q[i] \in Chunk
    BY ElementOfSeq, Zenon
  <2>3. q[i].hi \in Nat
    BY <2>2 DEF Chunk
  <2> QED BY <2>1, <2>3
<1> QED BY <1>1 DEF Below

\* The unacknowledged slots of a send buffer hold what was sent.
SlotsHold(buf, chunks) ==
    \A i \in DOMAIN buf : ~buf[i].acked => buf[i].data = chunks[i + 1]

\* A send buffer with n more slots, filled from q.
AddSlots(buf, q, nxt, n) ==
    [i \in DOMAIN buf \cup (nxt .. (nxt + n - 1)) |->
        IF i \in nxt .. (nxt + n - 1) THEN [data |-> q[i - nxt + 1], acked |-> FALSE]
        ELSE buf[i]]

\* buf is the window una .. nxt - 1 of s, and t adds n chunks of q to s.
Numbering(buf, una, nxt, s, q, n, t) ==
    /\ n \in Nat /\ una \in Nat /\ nxt \in Nat
    /\ nxt = Len(s) /\ una <= nxt
    /\ Extends(t, s, q, n)
    /\ DOMAIN buf = una .. (nxt - 1)
    /\ SlotsHold(buf, s)

\* new has the slots of buf and n more from nxt, and holds what t has.
Renumbered(new, buf, una, nxt, n, t) ==
    /\ DOMAIN new = una .. (Len(t) - 1)
    /\ DOMAIN new = DOMAIN buf \cup (nxt .. (nxt + n - 1))
    /\ \A i \in DOMAIN new : i \in Nat /\ i < nxt + n
    /\ \A i \in nxt .. (nxt + n - 1) : ~new[i].acked
    /\ \A i \in DOMAIN buf : new[i] = buf[i]
    /\ SlotsHold(new, t)

\* Numbering the front of snd_queue leaves snd_buf the window of what was sent.
LEMMA NumberedSent ==
    ASSUME NEW buf, NEW una, NEW nxt, NEW s, NEW q, NEW n, NEW t,
           Numbering(buf, una, nxt, s, q, n, t)
    PROVE  Renumbered(AddSlots(buf, q, nxt, n), buf, una, nxt, n, t)
<1> DEFINE fresh == nxt .. (nxt + n - 1)
           new == AddSlots(buf, q, nxt, n)
<1> USE DEF Numbering
<1>1. fresh \cap DOMAIN buf = {} /\ DOMAIN new = una .. (nxt + n - 1)
  BY DEF AddSlots
<1>2. DOMAIN new = DOMAIN buf \cup fresh
  BY DEF AddSlots
<1>3. \A i \in fresh : new[i].data = q[i - nxt + 1] /\ ~new[i].acked
  BY DEF AddSlots
<1>4. \A i \in DOMAIN buf : new[i] = buf[i]
  BY <1>1 DEF AddSlots
<1> HIDE DEF new
<1>5. ASSUME NEW i \in DOMAIN new, ~new[i].acked PROVE new[i].data = t[i + 1]
  <2>1. CASE i \in fresh
    <3> DEFINE j == i - nxt + 1
    <3>1. j \in 1..n /\ i + 1 = Len(s) + j
      BY <2>1
    <3>2. new[i].data = q[j]
      BY <1>3, <2>1
    <3> HIDE DEF j
    <3>3. t[Len(s) + j] = q[j]
      BY <3>1 DEF Extends
    <3> QED BY <3>1, <3>2, <3>3
  <2>2. CASE i \in DOMAIN buf
    <3>1. i + 1 \in 1..Len(s)
      BY <2>2
    <3>2. t[i + 1] = s[i + 1]
      BY <3>1 DEF Extends
    <3> QED BY <1>4, <1>5, <2>2, <3>2 DEF SlotsHold
  <2> QED BY <1>2, <2>1, <2>2
<1>6. \A i \in fresh : ~new[i].acked
  BY <1>3
<1>7. DOMAIN new = una .. (Len(t) - 1) /\ \A i \in DOMAIN new : i \in Nat /\ i < nxt + n
  BY <1>1 DEF Extends
<1>8. SlotsHold(new, t)
  BY <1>5 DEF SlotsHold
<1> QED BY <1>2, <1>4, <1>6, <1>7, <1>8, Zenon DEF Renumbered, new

-----------------------------------------------------------------------------
(* The steps. *)

\* What the datagram service may do to the sets of datagrams.
LEMMA TransitType ==
    ASSUME TypeOK, NEW e \in Ends, NEW segs \in SUBSET Segment, Transit(e, segs)
    PROVE  /\ net' \in [Ends -> SUBSET Segment]
           /\ net'[Peer(e)] \subseteq net[Peer(e)] \cup segs
           /\ net'[e] = net[e]
<1>1. PICK kept \in SUBSET (net[Peer(e)] \cup segs) : net' = [net EXCEPT ![Peer(e)] = kept]
  BY DEF Transit
<1> QED BY <1>1, PeerType DEF TypeOK

\* A flush keeps the types.
LEMMA FlushType ==
    ASSUME ConstantsAssumption, TypeOK, NEW e \in Ends, NEW queue \in Seq(Chunk),
           NEW due \in SUBSET Unacked(e), NEW expired \in BOOLEAN,
           Flush(e, queue, due, expired),
           written' \in [Ends -> Nat], todo' \in [Ends -> Nat],
           UNCHANGED <<snd_una, rcvVars, rmt_wnd>>
    PROVE  TypeOK'
<1> DEFINE n == NewSegs(e, queue)
<1>1. n \in 0..Len(queue) /\ Len(queue) \in Nat
  BY NewSegsRange, LenProperties
<1>2. SubSeq(queue, 1, n) \in Seq(Chunk) /\ SubSeq(queue, n + 1, Len(queue)) \in Seq(Chunk)
  BY <1>1, CutType
<1>3. sent[e] \o SubSeq(queue, 1, n) \in Seq(Chunk)
  BY <1>2, ConcatType DEF TypeOK
<1> HIDE DEF n
<1>4. snd_queue' \in [Ends -> Seq(Chunk)] /\ sent' \in [Ends -> Seq(Chunk)]
  BY <1>2, <1>3 DEF Flush, TypeOK, n
<1>5. /\ DOMAIN snd_buf' = Ends
      /\ \A x \in Ends : /\ DOMAIN snd_buf'[x] \subseteq Nat
                         /\ \A s \in DOMAIN snd_buf'[x] : snd_buf'[x][s] \in Slot
  <2>1. snd_buf' = [snd_buf EXCEPT ![e] = Numbered(e, queue)]
    BY DEF Flush
  <2> QED BY <2>1, NumberedType DEF TypeOK
<1>6. snd_nxt' \in [Ends -> Nat]
  <2>1. snd_nxt' = [snd_nxt EXCEPT ![e] = snd_nxt[e] + n]
    BY DEF Flush, n
  <2>2. snd_nxt[e] + n \in Nat /\ snd_nxt \in [Ends -> Nat]
    <3>1. n \in Nat
      BY <1>1
    <3>2. snd_nxt \in [Ends -> Nat] /\ snd_nxt[e] \in Nat
      BY DEF TypeOK
    <3> QED BY <3>1, <3>2
  <2> QED BY <2>1, <2>2
<1>7. /\ acklist' \in [Ends -> Seq(Nat)] /\ probe' \in [Ends -> SUBSET {"WASK", "WINS"}]
      /\ probe_wait' \in [Ends -> BOOLEAN]
  <2>1. <<>> \in Seq(Nat)
    BY EmptySeq
  <2> QED BY <2>1 DEF Flush, TypeOK
<1>8. net' \in [Ends -> SUBSET Segment]
  <2>1. Transit(e, FlushSegs(e, queue, due, expired))
    BY DEF Flush
  <2> QED BY <2>1, FlushSegsType, TransitType
<1> QED BY <1>4, <1>5, <1>6, <1>7, <1>8 DEF TypeOK, rcvVars

\* Longer histories: what depends on the chunks sent earlier still holds.
LEMMA HoldsExtended ==
    ASSUME NEW s \in Seq(Chunk), NEW t \in Seq(Chunk), Len(s) <= Len(t),
           \A i \in 1..Len(s) : t[i] = s[i],
           NEW queue \in Seq(Chunk), NEW buf, NEW nxt \in Nat,
           Mirrors(queue, nxt, s), Waiting(buf, nxt, s)
    PROVE  Mirrors(queue, nxt, t) /\ Waiting(buf, nxt, t)
<1>1. Len(s) \in Nat /\ Len(t) \in Nat /\ Len(queue) \in Nat
  BY LenProperties
<1>2. Len(queue) <= nxt /\ nxt <= Len(s)
  BY DEF Mirrors
<1>3. ASSUME NEW i \in 1..Len(queue) PROVE queue[i] = t[nxt - Len(queue) + i]
  <2>1. nxt - Len(queue) + i \in 1..Len(s)
    BY <1>1, <1>2
  <2> QED BY <2>1 DEF Mirrors
<1>4. ASSUME NEW x \in DOMAIN buf
      PROVE  x \in Nat /\ nxt <= x /\ x < Len(t) /\ buf[x] = t[x + 1]
  <2>1. x \in Nat /\ nxt <= x /\ x < Len(s) /\ buf[x] = s[x + 1]
    BY DEF Waiting
  <2>2. x + 1 \in 1..Len(s) /\ x < Len(t)
    BY <1>1, <2>1
  <2> QED BY <2>1, <2>2
<1>5. nxt <= Len(t)
  BY <1>1, <1>2
<1> QED BY <1>2, <1>3, <1>4, <1>5 DEF Mirrors, Waiting

\* Numbering more segments says nothing new of those already received or read.
LEMMA SentExtended ==
    ASSUME TypeOK, NEW e \in Ends, ReceivedSent(e), ReadSent(e), sent'[e] \in Seq(Chunk),
           UNCHANGED rcvVars, Len(sent[e]) <= Len(sent'[e]),
           \A i \in 1..Len(sent[e]) : sent'[e][i] = sent[e][i]
    PROVE  ReceivedSent(e)' /\ ReadSent(e)'
<1> DEFINE p == Peer(e)
<1>1. p \in Ends
  BY PeerType
<1>2. /\ sent[e] \in Seq(Chunk) /\ rcv_queue[p] \in Seq(Chunk) /\ rcv_nxt[p] \in Nat
      /\ Len(sent[e]) \in Nat /\ Len(rcv_queue[p]) \in Nat
  BY <1>1, LenProperties DEF TypeOK
<1>3. Mirrors(rcv_queue[p], rcv_nxt[p], sent[e]) /\ Waiting(rcv_buf[p], rcv_nxt[p], sent[e])
  BY DEF ReceivedSent
<1>4. Mirrors(rcv_queue[p], rcv_nxt[p], sent'[e]) /\ Waiting(rcv_buf[p], rcv_nxt[p], sent'[e])
  BY <1>2, <1>3, HoldsExtended, Zenon
<1>5. ReceivedSent(e)'
  BY <1>4 DEF ReceivedSent, rcvVars
<1>6. ReadSent(e)'
  <2> DEFINE r == rcv_nxt[p] - Len(rcv_queue[p])
  <2>1. r \in 0..Len(sent[e])
    BY <1>2, <1>3 DEF Mirrors
  <2>2. r # 0 => r \in 1..Len(sent[e])
    BY <2>1, <1>2
  <2> HIDE DEF r
  <2>3. EndOf(sent'[e], r, 0) = EndOf(sent[e], r, 0)
    BY <2>2 DEF EndOf
  <2> QED BY <2>3 DEF ReadSent, rcvVars, r
<1> QED BY <1>5, <1>6

\* A flush with a queue that tiles the bytes written so far.
LEMMA FlushStep ==
    ASSUME ConstantsAssumption, IInv, NEW e \in Ends, NEW queue \in Seq(Chunk),
           NEW due \in SUBSET Unacked(e), NEW expired \in BOOLEAN,
           Flush(e, queue, due, expired),
           written' \in [Ends -> Nat], todo' \in [Ends -> Nat],
           UNCHANGED <<snd_una, rcvVars, rmt_wnd>>,
           written'[e] >= written[e], \A x \in Ends : x # e => written'[x] = written[x],
           Tiles(queue, EndOf(sent[e], Len(sent[e]), 0), written'[e]),
           Below(queue, written'[e])
    PROVE  IInv'
<1> DEFINE n == NewSegs(e, queue)
           p == Peer(e)
           base == EndOf(sent[e], Len(sent[e]), 0)
           fresh == snd_nxt[e] .. (snd_nxt[e] + n - 1)
<1>1. /\ TypeOK
      /\ \A x \in Ends : /\ StreamTiled(x) /\ SndBufSent(x) /\ InFlightSent(x)
                         /\ ReceivedSent(x) /\ ReadSent(x)
  BY DEF IInv
<1>2. TypeOK'
  BY <1>1, FlushType
<1>3. n \in 0..Len(queue) /\ Len(queue) \in Nat
  BY <1>1, NewSegsRange, LenProperties
<1>4. snd_nxt'[e] = snd_nxt[e] + n /\ snd_buf'[e] = Numbered(e, queue)
  BY <1>1 DEF Flush, TypeOK
<1>5. /\ sent'[e] = sent[e] \o SubSeq(queue, 1, n)
       /\ snd_queue'[e] = SubSeq(queue, n + 1, Len(queue))
  BY <1>1 DEF Flush, TypeOK
<1>6. \A x \in Ends : x # e => /\ sent'[x] = sent[x] /\ snd_queue'[x] = snd_queue[x]
                                /\ snd_nxt'[x] = snd_nxt[x] /\ snd_buf'[x] = snd_buf[x]
  BY <1>1 DEF Flush, TypeOK
<1>7. sent[e] \in Seq(Chunk)
  BY <1>1 DEF TypeOK
<1>8. /\ Len(sent[e]) \in Nat /\ snd_nxt[e] \in Nat /\ snd_una[e] \in Nat
       /\ written[e] \in Nat /\ written'[e] \in Nat /\ n \in Nat /\ snd_nxt'[e] = snd_nxt[e] + n
  BY <1>1, <1>3, <1>4, LenProperties DEF TypeOK
<1>9. /\ snd_nxt[e] = Len(sent[e]) /\ snd_una[e] <= snd_nxt[e]
      /\ DOMAIN snd_buf[e] = snd_una[e] .. (snd_nxt[e] - 1)
      /\ SlotsHold(snd_buf[e], sent[e])
  BY <1>1 DEF SndBufSent, SlotsHold
<1>10. snd_buf'[e] = AddSlots(snd_buf[e], queue, snd_nxt[e], n)
  BY <1>4 DEF Numbered, AddSlots
<1> HIDE DEF n, fresh
<1>11. StreamTiled(e)'
  <2>1. /\ Tiles(SubSeq(queue, 1, n), base, EndOf(queue, n, base))
        /\ Tiles(SubSeq(queue, n + 1, Len(queue)), EndOf(queue, n, base), written'[e])
    BY <1>3, TilesCut
  <2>2. Tiles(sent[e], 0, base) /\ Below(sent[e], written'[e])
    BY <1>1, <1>7, <1>8, BelowMore DEF StreamTiled
  <2>3. Tiles(sent'[e], 0, EndOf(queue, n, base))
    <3>1. SubSeq(queue, 1, n) \in Seq(Chunk)
      BY <1>3, CutType
    <3> QED BY <1>7, <1>5, <2>1, <2>2, <3>1, TilesConcat, Zenon
  <2>4. EndOf(queue, n, base) = EndOf(sent'[e], Len(sent'[e]), 0)
    BY <2>3 DEF Tiles
  <2>5. Below(sent'[e], written'[e]) /\ Below(snd_queue'[e], written'[e])
    BY <1>3, <1>7, <1>5, <2>2, MoveFrontBelow, Zenon
  <2> QED BY <1>5, <2>1, <2>3, <2>4, <2>5, Zenon DEF StreamTiled
<1>12. Extends(sent'[e], sent[e], queue, n)
  BY <1>3, <1>7, <1>5, MoveFront, Zenon
<1>13. /\ DOMAIN snd_buf'[e] = snd_una[e] .. (Len(sent'[e]) - 1)
       /\ DOMAIN snd_buf'[e] = DOMAIN snd_buf[e] \cup fresh
       /\ \A i \in DOMAIN snd_buf'[e] : i \in Nat /\ i < snd_nxt[e] + n
       /\ \A i \in fresh : ~snd_buf'[e][i].acked
       /\ \A i \in DOMAIN snd_buf[e] : snd_buf'[e][i] = snd_buf[e][i]
       /\ SlotsHold(snd_buf'[e], sent'[e])
  <2>1. Numbering(snd_buf[e], snd_una[e], snd_nxt[e], sent[e], queue, n, sent'[e])
    BY <1>9, <1>12, <1>8 DEF Numbering
  <2>2. Renumbered(snd_buf'[e], snd_buf[e], snd_una[e], snd_nxt[e], n, sent'[e])
    BY <1>10, <2>1, NumberedSent, Zenon
  <2> QED BY <2>2, Zenon DEF Renumbered, fresh
<1>14. snd_nxt'[e] = Len(sent'[e]) /\ snd_una'[e] = snd_una[e] /\ snd_una[e] <= snd_nxt'[e]
  BY <1>8, <1>9, <1>12 DEF Extends
<1>15. SndBufSent(e)'
  BY <1>13, <1>14, Zenon DEF SndBufSent, SlotsHold
<1>16. net'[p] \subseteq net[p] \cup FlushSegs(e, queue, due, expired) /\ net'[e] = net[e]
  BY <1>1, FlushSegsType, TransitType DEF Flush
<1>17. InFlightSent(e)'
  <2>1. ASSUME NEW m \in net'[p], m.cmd = "PUSH"
        PROVE  m.sn < snd_nxt'[e] /\ m.data = sent'[e][m.sn + 1]
    <3>1. CASE m \in net[p]
      <4>1. m \in Segment
        BY <1>1, <3>1, PeerType DEF TypeOK
      <4>2. m.sn \in Nat /\ m.sn < snd_nxt[e] /\ m.data = sent[e][m.sn + 1]
        BY <1>1, <2>1, <3>1, <4>1 DEF Segment, InFlightSent
      <4>3. m.sn + 1 \in 1..Len(sent[e]) /\ m.sn < snd_nxt'[e]
        BY <1>9, <1>8, <4>2, SMTT(20)
      <4> QED BY <1>12, <4>2, <4>3 DEF Extends
    <3>2. CASE m \in FlushSegs(e, queue, due, expired)
      <4>1. PICK s \in (DOMAIN Numbered(e, queue) \ DOMAIN snd_buf[e]) \cup due :
               m.sn = s /\ m.data = Numbered(e, queue)[s].data
        <5>1. "PUSH" # "ACK" /\ "WASK" # "PUSH" /\ \A c \in probe[e] : c # "PUSH"
          BY <1>1 DEF TypeOK
        <5> QED BY <2>1, <3>2, <5>1 DEF FlushSegs, AckSegs, ControlSeg, PushSeg
      <4>2. due \subseteq DOMAIN snd_buf[e] /\ \A i \in due : ~snd_buf[e][i].acked
        BY DEF Unacked
      <4>3. s \in DOMAIN snd_buf'[e] /\ ~snd_buf'[e][s].acked
        BY <1>4, <1>13, <4>1, <4>2
      <4> QED BY <1>4, <1>13, <4>1, <4>3 DEF SlotsHold
    <3> QED BY <1>16, <2>1, <3>1, <3>2
  <2> QED BY <2>1 DEF InFlightSent
<1>18. ReceivedSent(e)' /\ ReadSent(e)'
  <2>1. Len(sent[e]) <= Len(sent'[e])
    BY <1>12, <1>8 DEF Extends
  <2>2. \A i \in 1..Len(sent[e]) : sent'[e][i] = sent[e][i]
    BY <1>12 DEF Extends
  <2>3. sent'[e] \in Seq(Chunk)
    BY <1>2 DEF TypeOK
  <2> QED BY <1>1, <2>1, <2>2, <2>3, SentExtended
<1>19. ASSUME NEW x \in Ends, x # e
       PROVE  StreamTiled(x)' /\ SndBufSent(x)' /\ InFlightSent(x)' /\ ReceivedSent(x)' /\ ReadSent(x)'
  <2>1. Peer(x) = e
    BY <1>19 DEF Ends, Peer
  <2>2. /\ sent'[x] = sent[x] /\ snd_queue'[x] = snd_queue[x] /\ written'[x] = written[x]
        /\ snd_nxt'[x] = snd_nxt[x] /\ snd_buf'[x] = snd_buf[x] /\ snd_una'[x] = snd_una[x]
        /\ net'[Peer(x)] = net[Peer(x)]
        /\ rcv_buf' = rcv_buf /\ rcv_queue' = rcv_queue /\ rcv_nxt' = rcv_nxt /\ rstream' = rstream
    BY <1>6, <1>16, <1>19, <2>1 DEF rcvVars
  <2>3. StreamTiled(x)' /\ SndBufSent(x)'
    BY <1>1, <2>2 DEF StreamTiled, SndBufSent
  <2>4. InFlightSent(x)' /\ ReceivedSent(x)'
    BY <1>1, <2>2 DEF InFlightSent, ReceivedSent
  <2>5. ReadSent(x)'
    BY <1>1, <2>2 DEF ReadSent
  <2> QED BY <2>3, <2>4, <2>5
<1> QED BY <1>2, <1>11, <1>15, <1>17, <1>18, <1>19 DEF IInv

\* Nothing but the mutex, timers, windows and pending acks changes.
LEMMA QuietStep ==
    ASSUME IInv, TypeOK', UNCHANGED <<sndVars, rcvVars, net, written>>
    PROVE  IInv'
<1>1. ASSUME NEW x \in Ends
      PROVE  StreamTiled(x)' /\ SndBufSent(x)' /\ InFlightSent(x)' /\ ReceivedSent(x)' /\ ReadSent(x)'
  <2>1. /\ StreamTiled(x) /\ SndBufSent(x) /\ InFlightSent(x) /\ ReceivedSent(x) /\ ReadSent(x)
        /\ UNCHANGED <<snd_queue, snd_buf, snd_una, snd_nxt, sent>>
        /\ UNCHANGED <<rcv_buf, rcv_queue, rcv_nxt, rstream, net, written>>
    BY DEF IInv, sndVars, rcvVars
  <2>2. StreamTiled(x)' /\ SndBufSent(x)' /\ InFlightSent(x)'
    BY <2>1 DEF StreamTiled, SndBufSent, InFlightSent
  <2>3. ReceivedSent(x)' /\ ReadSent(x)'
    BY <2>1 DEF ReceivedSent, ReadSent
  <2> QED BY <2>2, <2>3
<1> QED BY <1>1 DEF IInv

\* A Write that has only begun moves nothing.
LEMMA WriteBeginStep ==
    ASSUME ConstantsAssumption, IInv, NEW e \in Ends, NEW n \in 1..MaxWrite, WriteBegin(e, n)
    PROVE  IInv'
<1>1. TypeOK'
  <2>1. n \in Nat
    BY DEF ConstantsAssumption
  <2>2. todo' \in [Ends -> Nat]
    BY <2>1 DEF WriteBegin, IInv, TypeOK
  <2> QED BY <2>2 DEF IInv, TypeOK, WriteBegin, sndVars, rcvVars, ctlVars
<1> QED BY <1>1, QuietStep DEF WriteBegin

\* A round of Send: what SendTiles says, for the variables.
LEMMA SendFacts ==
    ASSUME ConstantsAssumption, IInv, NEW e \in Ends, NEW n \in 1..Mss
    PROVE  /\ Send(snd_queue[e], written[e], n) \in Seq(Chunk)
           /\ Tiles(Send(snd_queue[e], written[e], n),
                    EndOf(sent[e], Len(sent[e]), 0), written[e] + n)
           /\ Below(Send(snd_queue[e], written[e], n), written[e] + n)
<1>1. snd_queue[e] \in Seq(Chunk) /\ written[e] \in Nat
  BY DEF IInv, TypeOK
<1>2. Tiles(snd_queue[e], EndOf(sent[e], Len(sent[e]), 0), written[e]) /\ Below(snd_queue[e], written[e])
  BY DEF IInv, StreamTiled
<1> QED BY <1>1, <1>2, SendType, SendTiles

\* Bytes join the queue, no flush.
LEMMA QueueStep ==
    ASSUME ConstantsAssumption, IInv, NEW e \in Ends, NEW n \in 1..Mss,
           snd_queue' = [snd_queue EXCEPT ![e] = Send(snd_queue[e], written[e], n)],
           written' = [written EXCEPT ![e] = written[e] + n],
           todo' \in [Ends -> Nat],
           UNCHANGED <<snd_buf, snd_una, snd_nxt, sent, rcvVars, ctlVars, net>>
    PROVE  IInv'
<1>1. TypeOK /\ n \in Nat /\ written[e] \in Nat /\ written[e] + n \in Nat /\ written[e] <= written[e] + n
  <2>1. TypeOK /\ written[e] \in Nat
    BY DEF IInv, TypeOK
  <2>2. n \in Nat
    BY DEF ConstantsAssumption
  <2> QED BY <2>1, <2>2
<1>2. TypeOK'
  BY <1>1, SendFacts DEF TypeOK, rcvVars, ctlVars
<1>3. /\ snd_queue'[e] = Send(snd_queue[e], written[e], n) /\ written'[e] = written[e] + n
      /\ \A x \in Ends : x # e => snd_queue'[x] = snd_queue[x] /\ written'[x] = written[x]
  BY <1>1 DEF TypeOK
<1>4. StreamTiled(e)'
  <2>1. sent'[e] = sent[e] /\ sent[e] \in Seq(Chunk) /\ StreamTiled(e)
    BY DEF IInv, TypeOK
  <2>2. Below(sent[e], written[e] + n)
    BY <1>1, <2>1, BelowMore DEF StreamTiled
  <2> QED BY <1>3, <2>1, <2>2, SendFacts DEF StreamTiled
<1>5. ASSUME NEW x \in Ends
      PROVE  (x # e => StreamTiled(x)') /\ SndBufSent(x)' /\ InFlightSent(x)' /\ ReceivedSent(x)' /\ ReadSent(x)'
  <2>1. /\ StreamTiled(x) /\ SndBufSent(x) /\ InFlightSent(x) /\ ReceivedSent(x) /\ ReadSent(x)
        /\ UNCHANGED <<snd_buf, snd_una, snd_nxt, sent, rcv_buf, rcv_queue, rcv_nxt, rstream, net>>
    BY DEF IInv, rcvVars
  <2>2. (x # e => StreamTiled(x)') /\ SndBufSent(x)' /\ InFlightSent(x)'
    BY <1>3, <2>1 DEF StreamTiled, SndBufSent, InFlightSent
  <2>3. ReceivedSent(x)' /\ ReadSent(x)'
    BY <2>1 DEF ReceivedSent, ReadSent
  <2> QED BY <2>2, <2>3
<1> QED BY <1>2, <1>4, <1>5 DEF IInv

\* One Send of WriteBuffers queues the next bytes behind the others.
LEMMA WriteChunkStep ==
    ASSUME ConstantsAssumption, IInv, NEW e \in Ends, WriteChunk(e)
    PROVE  IInv'
<1>1. Mss \in 1..Mss /\ Mss \in Nat
  BY DEF ConstantsAssumption
<1>2. todo' \in [Ends -> Nat]
  <2>1. todo \in [Ends -> Nat] /\ todo[e] \in Nat
    BY DEF IInv, TypeOK
  <2>2. todo[e] > Mss /\ todo' = [todo EXCEPT ![e] = todo[e] - Mss]
    BY DEF WriteChunk
  <2>3. todo[e] - Mss \in Nat
    BY <1>1, <2>1, <2>2
  <2> QED BY <2>1, <2>2, <2>3
<1> QED BY <1>1, <1>2, QueueStep DEF WriteChunk

\* The flush at the end of WriteBuffers, or its omission with WriteDelay.
LEMMA WriteEndStep ==
    ASSUME ConstantsAssumption, IInv, NEW e \in Ends, NEW due \in SUBSET Unacked(e),
           NEW expired \in BOOLEAN, WriteEnd(e, due, expired)
    PROVE  IInv'
<1> DEFINE queue == Send(snd_queue[e], written[e], todo[e])
<1>1. /\ todo[e] \in 1..Mss /\ TypeOK
      /\ written' = [written EXCEPT ![e] = written[e] + todo[e]]
      /\ todo' = [todo EXCEPT ![e] = 0]
      /\ UNCHANGED <<snd_una, rcvVars, rmt_wnd>>
  BY DEF WriteEnd, IInv
<1>2. todo' \in [Ends -> Nat] /\ written[e] \in Nat /\ todo[e] \in Nat
  BY <1>1 DEF TypeOK
<1>3. CASE Flush(e, queue, due, expired)
  <2>1. /\ written' \in [Ends -> Nat] /\ written'[e] = written[e] + todo[e] /\ written'[e] >= written[e]
        /\ \A x \in Ends : x # e => written'[x] = written[x]
    BY <1>1, <1>2 DEF TypeOK
  <2>2. /\ queue \in Seq(Chunk)
        /\ Tiles(queue, EndOf(sent[e], Len(sent[e]), 0), written'[e])
        /\ Below(queue, written'[e])
    BY <1>1, <2>1, SendFacts
  <2> HIDE DEF queue
  <2>3. Flush(e, queue, due, expired) /\ UNCHANGED <<snd_una, rcvVars, rmt_wnd>> /\ todo' \in [Ends -> Nat]
    BY <1>1, <1>2, <1>3
  <2> QED BY <2>1, <2>2, <2>3, FlushStep, Zenon
<1>4. CASE /\ snd_queue' = [snd_queue EXCEPT ![e] = queue]
           /\ UNCHANGED <<snd_buf, snd_nxt, sent, acklist, probe, probe_wait, net>>
  BY <1>1, <1>2, <1>4, QueueStep DEF ctlVars
<1> QED BY <1>3, <1>4 DEF WriteEnd

\* The flush of the updater.
LEMMA UpdateStep ==
    ASSUME ConstantsAssumption, IInv, NEW e \in Ends, NEW due \in SUBSET Unacked(e),
           NEW expired \in BOOLEAN, Update(e, due, expired)
    PROVE  IInv'
<1>1. /\ Flush(e, snd_queue[e], due, expired) /\ UNCHANGED <<snd_una, rcvVars, rmt_wnd>>
      /\ written' = written /\ todo' = todo
  BY DEF Update
<1>2. /\ snd_queue[e] \in Seq(Chunk) /\ written \in [Ends -> Nat] /\ todo \in [Ends -> Nat]
      /\ written[e] \in Nat
  BY DEF IInv, TypeOK
<1>3. /\ Tiles(snd_queue[e], EndOf(sent[e], Len(sent[e]), 0), written[e])
      /\ Below(snd_queue[e], written[e])
  BY DEF IInv, StreamTiled
<1>4. /\ written' \in [Ends -> Nat] /\ todo' \in [Ends -> Nat] /\ written'[e] >= written[e]
      /\ \A x \in Ends : x # e => written'[x] = written[x]
      /\ Tiles(snd_queue[e], EndOf(sent[e], Len(sent[e]), 0), written'[e])
      /\ Below(snd_queue[e], written'[e])
  BY <1>1, <1>2, <1>3
<1> QED BY <1>1, <1>2, <1>4, FlushStep, Zenon

-----------------------------------------------------------------------------
(* The receiving side. *)

Run(buf, nxt, k) == [i \in 1..k |-> buf[nxt + i - 1]]
Present(buf, nxt, k) == \A i \in 0..(k - 1) : nxt + i \in DOMAIN buf
Rest(buf, nxt, k) == [s \in {t \in DOMAIN buf : t >= nxt + k} |-> buf[s]]

\* run is the next k chunks from nxt.
IsRun(run, nxt, k, chunks) ==
    run \in Seq(Chunk) /\ Len(run) = k /\ Mirrors(run, nxt + k, chunks)

\* The run that starts at nxt is the next k chunks.
LEMMA RunHolds ==
    ASSUME NEW chunks \in Seq(Chunk), NEW buf, NEW nxt \in Nat, NEW k \in Nat, nxt <= Len(chunks),
           Waiting(buf, nxt, chunks), Present(buf, nxt, k)
    PROVE  IsRun(Run(buf, nxt, k), nxt, k, chunks)
<1>1. Len(chunks) \in Nat /\ \A i \in 1..Len(chunks) : chunks[i] \in Chunk
  BY LenProperties, ElementOfSeq
<1>2. ASSUME NEW i \in 1..k
      PROVE  nxt + i <= Len(chunks) /\ buf[nxt + i - 1] = chunks[nxt + i]
  <2>1. i - 1 \in 0..(k - 1) /\ nxt + (i - 1) = nxt + i - 1 /\ (nxt + i - 1) + 1 = nxt + i
    OBVIOUS
  <2>2. nxt + i - 1 \in DOMAIN buf
    BY <2>1 DEF Present
  <2>3. nxt + i - 1 < Len(chunks) /\ buf[nxt + i - 1] = chunks[nxt + i]
    BY <2>1, <2>2 DEF Waiting
  <2> QED BY <1>1, <2>3
<1>3. nxt + k <= Len(chunks)
  <2>1. k > 0 => k \in 1..k
    OBVIOUS
  <2> QED BY <1>1, <1>2, <2>1
<1>4. \A i \in 1..k : nxt + i \in 1..Len(chunks)
  BY <1>1, <1>2
<1>5. \A i \in 1..k : buf[nxt + i - 1] \in Chunk
  BY <1>1, <1>2, <1>4
<1>6. Run(buf, nxt, k) \in Seq(Chunk)
  BY <1>5, SeqDef DEF Run
<1>7. Len(Run(buf, nxt, k)) = k
  <2>1. DOMAIN Run(buf, nxt, k) = 1..k
    BY DEF Run
  <2> QED BY <1>6, <2>1, LenProperties
<1>8. Mirrors(Run(buf, nxt, k), nxt + k, chunks)
  <2> DEFINE run == Run(buf, nxt, k)
  <2>1. \A i \in 1..k : run[i] = buf[nxt + i - 1]
    BY DEF Run
  <2>2. Len(run) <= nxt + k /\ \A i \in 1..k : nxt + k - Len(run) + i = nxt + i
    BY <1>7
  <2>3. ASSUME NEW i \in 1..Len(run) PROVE run[i] = chunks[nxt + k - Len(run) + i]
    <3>1. i \in 1..k
      BY <1>7
    <3>2. run[i] = chunks[nxt + i]
      BY <1>2, <2>1, <3>1, Zenon
    <3> QED BY <2>2, <3>1, <3>2, Zenon
  <2> HIDE DEF run
  <2>4. Mirrors(run, nxt + k, chunks)
    BY <1>3, <2>2, <2>3 DEF Mirrors
  <2> QED BY <2>4 DEF run
<1> QED BY <1>6, <1>7, <1>8, Zenon DEF IsRun

\* parse_data and Recv: moving a run keeps queue and buffer in their place.
LEMMA RunMoved ==
    ASSUME NEW queue \in Seq(Chunk), NEW chunks \in Seq(Chunk), NEW buf, NEW nxt \in Nat, NEW k \in Nat,
           Mirrors(queue, nxt, chunks), Waiting(buf, nxt, chunks),
           Present(buf, nxt, k)
    PROVE  /\ queue \o Run(buf, nxt, k) \in Seq(Chunk)
           /\ Len(queue \o Run(buf, nxt, k)) = Len(queue) + k
           /\ Mirrors(queue \o Run(buf, nxt, k), nxt + k, chunks)
           /\ Waiting(Rest(buf, nxt, k), nxt + k, chunks)
<1> DEFINE run == Run(buf, nxt, k)
           q == queue \o run
<1>1. nxt <= Len(chunks) /\ Len(queue) \in Nat /\ Len(queue) <= nxt
  BY LenProperties DEF Mirrors
<1>2. IsRun(run, nxt, k, chunks)
  BY <1>1, RunHolds, Zenon
<1> HIDE DEF run
<1> USE DEF IsRun
<1>3. nxt + k <= Len(chunks) /\ \A i \in 1..k : run[i] = chunks[nxt + i]
  <2>1. \A i \in 1..k : nxt + k - Len(run) + i = nxt + i
    BY <1>2
  <2> QED BY <1>2, <2>1 DEF Mirrors
<1>4. q \in Seq(Chunk) /\ Len(q) = Len(queue) + k
  BY <1>2, ConcatType
<1>5. \A i \in 1..Len(queue) : q[i] = queue[i]
  BY <1>2, ConcatType
<1>6. \A i \in 1..k : q[Len(queue) + i] = run[i]
  BY <1>2, ConcatType
<1> HIDE DEF q
<1>7. ASSUME NEW i \in 1..Len(q) PROVE q[i] = chunks[nxt + k - Len(q) + i]
  <2>1. CASE i \in 1..Len(queue)
    <3>1. nxt + k - Len(q) + i = nxt - Len(queue) + i
      BY <1>1, <1>4
    <3> QED BY <1>5, <2>1, <3>1 DEF Mirrors
  <2>2. CASE i \notin 1..Len(queue)
    <3> DEFINE j == i - Len(queue)
    <3>1. j \in 1..k /\ i = Len(queue) + j /\ nxt + k - Len(q) + i = nxt + j
      BY <1>1, <1>4, <2>2
    <3> HIDE DEF j
    <3> QED BY <1>3, <1>6, <3>1
  <2> QED BY <2>1, <2>2
<1>8. Mirrors(q, nxt + k, chunks)
  <2>1. Len(q) <= nxt + k
    BY <1>1, <1>4
  <2> QED BY <1>3, <1>7, <2>1 DEF Mirrors
<1>9. Waiting(Rest(buf, nxt, k), nxt + k, chunks)
  BY DEF Waiting, Rest
<1> QED BY <1>4, <1>8, <1>9 DEF q, run

\* rcv_buf, rcv_queue and rcv_nxt of e after a run was moved behind queue.
RcvMoved(e, queue) ==
    /\ rcv_nxt' \in [Ends -> Nat] /\ rcv_queue' \in [Ends -> Seq(Chunk)] /\ DOMAIN rcv_buf' = Ends
    /\ Mirrors(rcv_queue'[e], rcv_nxt'[e], sent[Peer(e)])
    /\ Waiting(rcv_buf'[e], rcv_nxt'[e], sent[Peer(e)])
    /\ rcv_nxt'[e] - Len(rcv_queue'[e]) = rcv_nxt[e] - Len(queue)
    /\ \A x \in Ends : x # e => /\ rcv_nxt'[x] = rcv_nxt[x] /\ rcv_queue'[x] = rcv_queue[x]
                                /\ rcv_buf'[x] = rcv_buf[x]

\* What MoveRun does to the receiver of the chunks sent by its peer.
LEMMA MoveRunFacts ==
    ASSUME TypeOK, NEW e \in Ends, NEW buf, NEW queue \in Seq(Chunk),
           Mirrors(queue, rcv_nxt[e], sent[Peer(e)]), Waiting(buf, rcv_nxt[e], sent[Peer(e)]),
           MoveRun(e, buf, queue)
    PROVE  RcvMoved(e, queue)
<1> DEFINE nxt == rcv_nxt[e]
           chunks == sent[Peer(e)]
<1>1. nxt \in Nat /\ chunks \in Seq(Chunk) /\ Len(chunks) \in Nat /\ Len(queue) \in Nat
  BY PeerType, LenProperties DEF TypeOK
<1>2. IsFiniteSet(DOMAIN buf)
  <2>1. DOMAIN buf \subseteq 0..Len(chunks)
    BY <1>1 DEF Waiting
  <2>2. IsFiniteSet(0..Len(chunks))
    <3>1. 0 \in Int /\ Len(chunks) \in Int
      BY <1>1
    <3> QED BY <3>1, FS_Interval, Zenon
  <2> QED BY <2>1, <2>2, FS_Subset, Zenon
<1>3. PICK k \in 0..Cardinality(DOMAIN buf) :
        /\ IF Len(queue) < RcvWnd[e]
           THEN /\ \A i \in 0..(k - 1) : nxt + i \in DOMAIN buf
                /\ nxt + k \notin DOMAIN buf
           ELSE k = 0
        /\ rcv_nxt' = [rcv_nxt EXCEPT ![e] = nxt + k]
        /\ rcv_queue' = [rcv_queue EXCEPT ![e] = queue \o Run(buf, nxt, k)]
        /\ rcv_buf' = [rcv_buf EXCEPT ![e] = Rest(buf, nxt, k)]
  BY Zenon DEF MoveRun, Run, Rest
<1>4. k \in Nat
  BY <1>2, FS_CardinalityType
<1>5. Present(buf, nxt, k)
  BY <1>3, <1>4 DEF Present
<1> HIDE DEF nxt, chunks
<1>6. /\ queue \o Run(buf, nxt, k) \in Seq(Chunk)
      /\ Len(queue \o Run(buf, nxt, k)) = Len(queue) + k
      /\ Mirrors(queue \o Run(buf, nxt, k), nxt + k, chunks)
      /\ Waiting(Rest(buf, nxt, k), nxt + k, chunks)
  <2>1. Mirrors(queue, nxt, chunks) /\ Waiting(buf, nxt, chunks)
    BY DEF nxt, chunks
  <2> QED BY <1>1, <1>4, <1>5, <2>1, RunMoved, Zenon
<1>7. /\ rcv_nxt \in [Ends -> Nat] /\ rcv_queue \in [Ends -> Seq(Chunk)] /\ DOMAIN rcv_buf = Ends
      /\ nxt + k \in Nat
  <2>1. nxt + k \in Nat
    BY <1>1, <1>4
  <2> QED BY <2>1 DEF TypeOK
<1>8. rcv_nxt' \in [Ends -> Nat] /\ rcv_nxt'[e] = nxt + k
  BY <1>3, <1>7
<1>9. rcv_queue' \in [Ends -> Seq(Chunk)] /\ rcv_queue'[e] = queue \o Run(buf, nxt, k)
  BY <1>3, <1>6, <1>7
<1>10. DOMAIN rcv_buf' = Ends /\ rcv_buf'[e] = Rest(buf, nxt, k)
  BY <1>3, <1>7
<1>11. \A x \in Ends : x # e => /\ rcv_nxt'[x] = rcv_nxt[x] /\ rcv_queue'[x] = rcv_queue[x]
                                /\ rcv_buf'[x] = rcv_buf[x]
  BY <1>3, <1>7
<1>12. rcv_nxt'[e] - Len(rcv_queue'[e]) = nxt - Len(queue)
  <2>1. Len(rcv_queue'[e]) = Len(queue) + k
    BY <1>6, <1>9, Zenon
  <2> QED BY <1>1, <1>4, <1>8, <2>1
<1>13. Mirrors(rcv_queue'[e], rcv_nxt'[e], chunks) /\ Waiting(rcv_buf'[e], rcv_nxt'[e], chunks)
  BY <1>6, <1>8, <1>9, <1>10, Zenon
<1> QED BY <1>8, <1>9, <1>10, <1>11, <1>12, <1>13, Zenon DEF RcvMoved, nxt, chunks

\* Without a move the receiver is as it was.
LEMMA RcvUnmoved ==
    ASSUME IInv, NEW e \in Ends, UNCHANGED <<rcv_buf, rcv_queue, rcv_nxt>>
    PROVE  RcvMoved(e, rcv_queue[e])
<1>1. Peer(e) \in Ends /\ Peer(Peer(e)) = e
  BY PeerType
<1>2. ReceivedSent(Peer(e)) /\ TypeOK
  BY <1>1 DEF IInv
<1>3. /\ Mirrors(rcv_queue[e], rcv_nxt[e], sent[Peer(e)])
      /\ Waiting(rcv_buf[e], rcv_nxt[e], sent[Peer(e)])
  BY <1>1, <1>2 DEF ReceivedSent
<1>4. rcv_nxt \in [Ends -> Nat] /\ rcv_queue \in [Ends -> Seq(Chunk)] /\ DOMAIN rcv_buf = Ends
  BY <1>2 DEF TypeOK
<1> QED BY <1>3, <1>4 DEF RcvMoved

\* A receiver that mirrors what its peer sent is well typed.
LEMMA RcvTypes ==
    ASSUME IInv, NEW e \in Ends, NEW queue, RcvMoved(e, queue)
    PROVE  \A x \in Ends : /\ DOMAIN rcv_buf'[x] \subseteq Nat
                           /\ \A s \in DOMAIN rcv_buf'[x] : rcv_buf'[x][s] \in Chunk
<1>1. TypeOK /\ sent[Peer(e)] \in Seq(Chunk)
  BY PeerType DEF IInv, TypeOK
<1>2. ASSUME NEW s \in DOMAIN rcv_buf'[e] PROVE s \in Nat /\ rcv_buf'[e][s] \in Chunk
  <2>1. s \in Nat /\ s < Len(sent[Peer(e)]) /\ rcv_buf'[e][s] = sent[Peer(e)][s + 1]
    BY DEF RcvMoved, Waiting
  <2>2. s + 1 \in 1..Len(sent[Peer(e)])
    BY <1>1, <2>1, LenProperties
  <2> QED BY <1>1, <2>1, <2>2, ElementOfSeq
<1>3. \A x \in Ends : x # e => rcv_buf'[x] = rcv_buf[x]
  BY DEF RcvMoved
<1> QED BY <1>1, <1>2, <1>3 DEF TypeOK

\* The first n bytes of a stream.
ReadUpTo(t, n) == t \in Seq(Nat) /\ Len(t) = n /\ \A i \in 1..n : t[i] = i

\* Reading the chunk that follows what was read.
LEMMA ReadMore ==
    ASSUME NEW s, NEW lo \in Nat, NEW hi \in Nat, lo < hi, ReadUpTo(s, lo)
    PROVE  ReadUpTo(s \o [i \in 1..(hi - lo) |-> lo + i], hi)
<1> DEFINE r == [i \in 1..(hi - lo) |-> lo + i]
           t == s \o r
<1> USE DEF ReadUpTo
<1>1. r \in Seq(Nat) /\ Len(r) = hi - lo
  <2>1. hi - lo \in Nat /\ \A i \in 1..(hi - lo) : lo + i \in Nat
    OBVIOUS
  <2>2. r \in Seq(Nat)
    BY <2>1, SeqDef
  <2> QED BY <2>1, <2>2, LenProperties
<1>2. \A i \in 1..(hi - lo) : r[i] = lo + i
  OBVIOUS
<1> HIDE DEF r
<1>3. t \in Seq(Nat) /\ Len(t) = Len(s) + Len(r)
  BY <1>1, ConcatType
<1>4. \A i \in 1..Len(s) : t[i] = s[i]
  BY <1>1, ConcatType
<1>5. \A i \in 1..Len(r) : t[Len(s) + i] = r[i]
  BY <1>1, ConcatType
<1> HIDE DEF t
<1>6. ASSUME NEW i \in 1..hi PROVE t[i] = i
  <2>1. CASE i \in 1..lo
    BY <1>4, <2>1
  <2>2. CASE i \notin 1..lo
    <3> DEFINE j == i - lo
    <3>1. j \in 1..(hi - lo) /\ i = lo + j
      BY <2>2
    <3> HIDE DEF j
    <3> QED BY <1>1, <1>2, <1>5, <3>1
  <2> QED BY <2>1, <2>2
<1> QED BY <1>1, <1>3, <1>6 DEF t, r

\* Recv takes the segment at the head of rcv_queue, the oldest not read.
LEMMA MirrorsTail ==
    ASSUME NEW queue \in Seq(Chunk), queue # <<>>, NEW nxt \in Nat, NEW chunks \in Seq(Chunk),
           Mirrors(queue, nxt, chunks)
    PROVE  /\ Tail(queue) \in Seq(Chunk)
           /\ Len(Tail(queue)) = Len(queue) - 1
           /\ Mirrors(Tail(queue), nxt, chunks)
           /\ nxt - Len(queue) + 1 \in 1..Len(chunks)
           /\ Head(queue) = chunks[nxt - Len(queue) + 1]
<1>1. Len(queue) \in Nat \ {0} /\ Len(chunks) \in Nat /\ Len(queue) <= nxt /\ nxt <= Len(chunks)
  BY EmptySeq, LenProperties DEF Mirrors
<1>2. Tail(queue) \in Seq(Chunk) /\ Len(Tail(queue)) = Len(queue) - 1
  BY HeadTailProperties
<1>3. \A i \in 1..(Len(queue) - 1) : Tail(queue)[i] = queue[i + 1]
  BY HeadTailProperties
<1>4. ASSUME NEW i \in 1..(Len(queue) - 1)
      PROVE  Tail(queue)[i] = chunks[nxt - (Len(queue) - 1) + i]
  <2>1. i + 1 \in 1..Len(queue) /\ nxt - Len(queue) + (i + 1) = nxt - (Len(queue) - 1) + i
    BY <1>1
  <2>2. queue[i + 1] = chunks[nxt - Len(queue) + (i + 1)]
    BY <2>1 DEF Mirrors
  <2> QED BY <1>3, <2>1, <2>2
<1>5. Len(queue) - 1 <= nxt /\ nxt - Len(queue) + 1 \in 1..Len(chunks)
  BY <1>1
<1>6. Mirrors(Tail(queue), nxt, chunks)
  BY <1>1, <1>2, <1>4, <1>5 DEF Mirrors
<1>7. Head(queue) = queue[1] /\ 1 \in 1..Len(queue)
  BY <1>1, HeadTailProperties
<1>8. queue[1] = chunks[nxt - Len(queue) + 1]
  BY <1>7 DEF Mirrors
<1> QED BY <1>2, <1>5, <1>6, <1>7, <1>8

\* The chunk at the head of rcv_queue is the next one of the stream.
LEMMA HeadIsNext ==
    ASSUME IInv, NEW e \in Ends, rcv_queue[e] # <<>>
    PROVE  /\ Tail(rcv_queue[e]) \in Seq(Chunk)
           /\ Mirrors(Tail(rcv_queue[e]), rcv_nxt[e], sent[Peer(e)])
           /\ Head(rcv_queue[e]).lo \in Nat /\ Head(rcv_queue[e]).hi \in Nat
           /\ Head(rcv_queue[e]).lo < Head(rcv_queue[e]).hi
           /\ Len(rstream[e]) = Head(rcv_queue[e]).lo
           /\ EndOf(sent[Peer(e)], rcv_nxt[e] - Len(Tail(rcv_queue[e])), 0) = Head(rcv_queue[e]).hi
<1> DEFINE w == Peer(e)
           q == rcv_queue[e]
           head == Head(q)
           r == rcv_nxt[e] - Len(q)
<1>1. w \in Ends /\ Peer(w) = e
  BY PeerType
<1>2. TypeOK /\ StreamTiled(w) /\ ReceivedSent(w) /\ ReadSent(w)
  BY <1>1 DEF IInv
<1>3. q \in Seq(Chunk) /\ sent[w] \in Seq(Chunk) /\ rcv_nxt[e] \in Nat
  BY <1>1, <1>2 DEF TypeOK
<1>4. Mirrors(q, rcv_nxt[e], sent[w])
  BY <1>1, <1>2 DEF ReceivedSent
<1>5. /\ Tail(q) \in Seq(Chunk) /\ Mirrors(Tail(q), rcv_nxt[e], sent[w])
      /\ Len(Tail(q)) = Len(q) - 1
  BY <1>3, <1>4, MirrorsTail
<1>6. r + 1 \in 1..Len(sent[w]) /\ head = sent[w][r + 1]
  BY <1>3, <1>4, MirrorsTail
<1>7. r \in Nat /\ Len(q) \in Nat /\ rcv_nxt[e] - Len(Tail(q)) = r + 1
  BY <1>3, <1>5, <1>6, LenProperties
<1>8. /\ head \in Chunk
      /\ \E j \in 1..Len(sent[w]) : j # 0 /\ j = r + 1 /\ j - 1 = r /\ head = sent[w][j]
  <2>1. r + 1 - 1 = r /\ r + 1 # 0
    BY <1>7
  <2> QED BY <1>3, <1>6, <2>1, ElementOfSeq
<1> HIDE DEF head, r
<1>9. PICK j \in 1..Len(sent[w]) : j # 0 /\ j = r + 1 /\ j - 1 = r /\ head = sent[w][j]
  BY <1>8
<1>10. sent[w][j].lo = EndOf(sent[w], j - 1, 0) /\ sent[w][j].lo < sent[w][j].hi
  <2>1. Tiles(sent[w], 0, EndOf(sent[w], Len(sent[w]), 0))
    BY <1>2, Zenon DEF StreamTiled
  <2> QED BY <2>1, TilesAt, Zenon
<1>11. Len(rstream[e]) = EndOf(sent[w], r, 0)
  BY <1>1, <1>2 DEF ReadSent, r
<1>12. EndOf(sent[w], rcv_nxt[e] - Len(Tail(q)), 0) = head.hi
  BY <1>7, <1>9 DEF EndOf
<1>13. head.lo \in Nat /\ head.hi \in Nat /\ head.lo < head.hi /\ Len(rstream[e]) = head.lo
  BY <1>8, <1>9, <1>10, <1>11 DEF Chunk
<1> QED BY <1>5, <1>12, <1>13 DEF head

\* What Read returns is what follows in the stream.
LEMMA RecvReads ==
    ASSUME IInv, NEW e \in Ends, Recv(e)
    PROVE  /\ ReadUpTo(rstream'[e], Head(rcv_queue[e]).hi)
           /\ rstream' = [rstream EXCEPT ![e] = rstream'[e]]
<1> DEFINE head == Head(rcv_queue[e])
           new == rstream[e] \o [i \in 1..(head.hi - head.lo) |-> head.lo + i]
<1>1. rstream' = [rstream EXCEPT ![e] = new]
  BY DEF Recv
<1>2. head.lo \in Nat /\ head.hi \in Nat /\ head.lo < head.hi /\ Len(rstream[e]) = head.lo
  BY HeadIsNext DEF Recv
<1>3. Peer(e) \in Ends /\ Peer(Peer(e)) = e /\ TypeOK
  BY PeerType DEF IInv
<1> HIDE DEF head
<1>4. ReadUpTo(new, head.hi)
  <2>1. ReadUpTo(rstream[e], head.lo)
    BY <1>2, <1>3 DEF IInv, ReadSent, ReadUpTo, TypeOK
  <2> QED BY <1>2, <2>1, ReadMore, Zenon
<1> HIDE DEF new
<1>5. rstream'[e] = new
  BY <1>1, <1>3 DEF TypeOK
<1> QED BY <1>1, <1>4, <1>5 DEF head

\* KCP.Recv.
LEMMA RecvStep ==
    ASSUME ConstantsAssumption, IInv, NEW e \in Ends, Recv(e)
    PROVE  IInv'
<1> DEFINE w == Peer(e)
           q == rcv_queue[e]
<1>1. w \in Ends /\ Peer(w) = e /\ w # e /\ \A x \in Ends : x = e \/ x = w
  BY PeerType DEF Ends, Peer
<1>2. /\ TypeOK
      /\ \A x \in Ends : /\ StreamTiled(x) /\ SndBufSent(x) /\ InFlightSent(x)
                         /\ ReceivedSent(x) /\ ReadSent(x)
  BY DEF IInv
<1>3. /\ Tail(q) \in Seq(Chunk) /\ Mirrors(Tail(q), rcv_nxt[e], sent[w])
      /\ EndOf(sent[w], rcv_nxt[e] - Len(Tail(q)), 0) = Head(q).hi
  BY HeadIsNext, Zenon DEF Recv
<1>4. RcvMoved(e, Tail(q))
  <2>1. MoveRun(e, rcv_buf[e], Tail(q))
    BY DEF Recv
  <2>2. Waiting(rcv_buf[e], rcv_nxt[e], sent[w])
    BY <1>1, <1>2 DEF ReceivedSent
  <2> QED BY <1>2, <1>3, <2>1, <2>2, MoveRunFacts, Zenon
<1>5. ReadUpTo(rstream'[e], Head(q).hi) /\ rstream' = [rstream EXCEPT ![e] = rstream'[e]]
  BY RecvReads, Zenon
<1>6. /\ rstream' \in [Ends -> Seq(Nat)]
      /\ \A x \in Ends : x # e => rstream'[x] = rstream[x]
  BY <1>2, <1>5 DEF TypeOK, ReadUpTo
<1>7. UNCHANGED <<sndVars, acklist, rmt_wnd, probe_wait, todo, net, written>>
  BY DEF Recv
<1>8. TypeOK'
  <2>1. probe' \in [Ends -> SUBSET {"WASK", "WINS"}]
    BY <1>2 DEF Recv, TypeOK
  <2>2. \A x \in Ends : /\ DOMAIN rcv_buf'[x] \subseteq Nat
                        /\ \A s \in DOMAIN rcv_buf'[x] : rcv_buf'[x][s] \in Chunk
    BY <1>4, RcvTypes
  <2> QED BY <1>2, <1>4, <1>6, <1>7, <2>1, <2>2 DEF TypeOK, RcvMoved, sndVars
<1>9. ASSUME NEW x \in Ends
      PROVE  StreamTiled(x)' /\ SndBufSent(x)' /\ InFlightSent(x)'
  <2>1. UNCHANGED <<snd_queue, snd_buf, snd_una, snd_nxt, sent, net, written>>
    BY <1>7 DEF sndVars
  <2> QED BY <1>2, <2>1 DEF StreamTiled, SndBufSent, InFlightSent
<1>10. sent' = sent
  BY <1>7 DEF sndVars
<1>11. ReceivedSent(w)'
  BY <1>1, <1>4, <1>10 DEF ReceivedSent, RcvMoved
<1>12. ReadSent(w)'
  <2>1. rcv_nxt'[e] - Len(rcv_queue'[e]) = rcv_nxt[e] - Len(Tail(q))
    BY <1>4, Zenon DEF RcvMoved
  <2>2. Len(rstream'[e]) = EndOf(sent'[w], rcv_nxt'[e] - Len(rcv_queue'[e]), 0)
    BY <1>3, <1>5, <1>10, <2>1, Zenon DEF ReadUpTo
  <2>3. \A i \in 1..Len(rstream'[e]) : rstream'[e][i] = i
    BY <1>5 DEF ReadUpTo
  <2> QED BY <1>1, <2>2, <2>3 DEF ReadSent
<1>13. ReceivedSent(e)' /\ ReadSent(e)'
  <2>1. /\ rcv_nxt'[w] = rcv_nxt[w] /\ rcv_queue'[w] = rcv_queue[w] /\ rcv_buf'[w] = rcv_buf[w]
        /\ rstream'[w] = rstream[w]
    BY <1>1, <1>4, <1>6 DEF RcvMoved
  <2> QED BY <1>2, <1>10, <2>1 DEF ReceivedSent, ReadSent
<1> QED BY <1>1, <1>8, <1>9, <1>11, <1>12, <1>13 DEF IInv

\* parse_una and shrink_buf cut the window snd_una .. snd_nxt - 1 from below.
LEMMA ShrinkFacts ==
    ASSUME TypeOK, NEW e \in Ends, SndBufSent(e), NEW una \in Nat
    PROVE  /\ ShrinkBuf(e, RestrictFrom(snd_buf[e], una)) \in Nat
           /\ ShrinkBuf(e, RestrictFrom(snd_buf[e], una)) >= snd_una[e]
           /\ ShrinkBuf(e, RestrictFrom(snd_buf[e], una)) <= snd_nxt[e]
           /\ DOMAIN RestrictFrom(snd_buf[e], una) =
                 ShrinkBuf(e, RestrictFrom(snd_buf[e], una)) .. (snd_nxt[e] - 1)
<1> DEFINE lo == snd_una[e]
           hi == snd_nxt[e]
           dom == DOMAIN RestrictFrom(snd_buf[e], una)
           u == ShrinkBuf(e, RestrictFrom(snd_buf[e], una))
<1>1. lo \in Nat /\ hi \in Nat /\ lo <= hi
  BY DEF TypeOK, SndBufSent
<1>2. dom = {t \in lo .. (hi - 1) : t >= una}
  BY DEF SndBufSent, RestrictFrom
<1>3. u = IF dom = {} THEN hi ELSE CHOOSE s \in dom : \A t \in dom : s <= t
  BY DEF ShrinkBuf
<1> HIDE DEF lo, hi, dom, u
<1>4. CASE dom = {}
  <2>1. u = hi /\ dom = hi .. (hi - 1)
    BY <1>1, <1>3, <1>4
  <2> QED BY <1>1, <2>1 DEF lo, hi, dom, u
<1>5. CASE dom # {}
  <2> DEFINE least == IF una >= lo THEN una ELSE lo
  <2>1. least \in Nat /\ least >= lo /\ least <= hi /\ dom = least .. (hi - 1) /\ least \in dom
    BY <1>1, <1>2, <1>5
  <2> HIDE DEF least
  <2>2. \A t \in dom : least <= t
    BY <1>1, <2>1
  <2>3. u \in dom /\ \A t \in dom : u <= t
    BY <1>3, <1>5, <2>1, <2>2
  <2>4. u = least
    BY <1>1, <2>1, <2>2, <2>3
  <2> QED BY <1>1, <2>1, <2>4 DEF lo, hi, dom, u
<1> QED BY <1>4, <1>5

\* The acknowledgements Input may send at once.
LEMMA InputTailType ==
    ASSUME ConstantsAssumption, TypeOK, NEW e \in Ends, NEW acks \in Seq(Nat), NEW last,
           rcv_nxt' \in [Ends -> Nat], rcv_queue' \in [Ends -> Seq(Chunk)],
           InputTail(e, acks, last)
    PROVE  /\ acklist' \in [Ends -> Seq(Nat)]
           /\ net' \in [Ends -> SUBSET Segment]
           /\ \A x \in Ends : \A m \in net'[x] : m.cmd = "PUSH" => m \in net[x]
<1> DEFINE wnd == WndUnused(e, rcv_queue'[e])
           segs == AckSegs(acks, rcv_nxt'[e], wnd)
<1>1. rcv_nxt'[e] \in Nat /\ wnd \in Nat
  BY WndUnusedNat
<1>2. segs \subseteq Segment
  BY <1>1, AckSegsType
<1>3. \A m \in segs : m.cmd # "PUSH"
  BY DEF AckSegs, ControlSeg
<1> HIDE DEF segs
<1>4. CASE acklist' = [acklist EXCEPT ![e] = <<>>] /\ Transit(e, segs)
  <2>1. /\ net' \in [Ends -> SUBSET Segment]
        /\ net'[Peer(e)] \subseteq net[Peer(e)] \cup segs /\ net'[e] = net[e]
    BY <1>2, <1>4, TransitType
  <2>2. \A x \in Ends : x = e \/ x = Peer(e)
    BY DEF Ends, Peer
  <2>3. acklist' \in [Ends -> Seq(Nat)]
    BY <1>4, EmptySeq DEF TypeOK
  <2> QED BY <1>3, <2>1, <2>2, <2>3
<1>5. CASE acklist' = [acklist EXCEPT ![e] = acks] /\ UNCHANGED net
  BY <1>5 DEF TypeOK
<1> QED BY <1>4, <1>5 DEF InputTail, segs

\* buf is what parse_una leaves of snd_buf, but that some slots were acked.
Kept(e, una, buf) ==
    /\ DOMAIN buf = DOMAIN RestrictFrom(snd_buf[e], una)
    /\ \A s \in DOMAIN buf : buf[s] \in Slot /\ (~buf[s].acked => buf[s] = snd_buf[e][s])

\* parse_una alone only removes slots of snd_buf.
LEMMA KeptPlain ==
    ASSUME TypeOK, NEW e \in Ends, NEW una
    PROVE  Kept(e, una, RestrictFrom(snd_buf[e], una))
BY DEF Kept, RestrictFrom, TypeOK

\* parse_ack only marks a slot, whose payload it frees.
LEMMA KeptAcked ==
    ASSUME TypeOK, NEW e \in Ends, NEW una, NEW sn
    PROVE  Kept(e, una, ParseAck(RestrictFrom(snd_buf[e], una), sn))
<1>1. [data |-> NoData, acked |-> TRUE] \in Slot
  BY DEF Slot, NoData, Chunk
<1> QED BY <1>1 DEF Kept, ParseAck, RestrictFrom, TypeOK

\* What every segment does in Input, once its command has been acted on.
LEMMA InputCommon ==
    ASSUME ConstantsAssumption, IInv, NEW e \in Ends, NEW m \in net[e], NEW regular \in BOOLEAN,
           NEW last, NEW acks \in Seq(Nat), NEW buf,
           InputHeader(e, m, regular), Kept(e, m.una, buf),
           snd_buf' = [snd_buf EXCEPT ![e] = buf],
           RcvMoved(e, rcv_queue[e]), probe' \in [Ends -> SUBSET {"WASK", "WINS"}],
           InputTail(e, acks, last)
    PROVE  IInv'
<1> DEFINE w == Peer(e)
           u == ShrinkBuf(e, RestrictFrom(snd_buf[e], m.una))
<1>1. w \in Ends /\ Peer(w) = e /\ w # e /\ \A x \in Ends : x = e \/ x = w
  BY PeerType DEF Ends, Peer
<1>2. /\ TypeOK
      /\ \A x \in Ends : /\ StreamTiled(x) /\ SndBufSent(x) /\ InFlightSent(x)
                         /\ ReceivedSent(x) /\ ReadSent(x)
  BY DEF IInv
<1>3. /\ UNCHANGED <<snd_queue, snd_nxt, sent, rstream, probe_wait, todo, written>>
      /\ snd_una' = [snd_una EXCEPT ![e] = u]
      /\ rmt_wnd' = IF regular THEN [rmt_wnd EXCEPT ![e] = m.wnd] ELSE rmt_wnd
  BY DEF InputHeader
<1>4. m \in Segment /\ m.una \in Nat /\ m.wnd \in Nat
  BY <1>2, SMTT(20) DEF TypeOK, Segment
<1>5. /\ u \in Nat /\ u <= snd_nxt[e]
      /\ DOMAIN RestrictFrom(snd_buf[e], m.una) = u .. (snd_nxt[e] - 1)
      /\ u >= snd_una[e]
  BY <1>2, <1>4, ShrinkFacts
<1> HIDE DEF u
<1>6. snd_una' \in [Ends -> Nat] /\ snd_una'[e] = u /\ snd_una'[w] = snd_una[w]
  BY <1>1, <1>2, <1>3, <1>5 DEF TypeOK
<1>7. DOMAIN snd_buf' = Ends /\ snd_buf'[e] = buf /\ snd_buf'[w] = snd_buf[w]
  BY <1>1, <1>2 DEF TypeOK
<1>8. /\ rcv_nxt' \in [Ends -> Nat] /\ rcv_queue' \in [Ends -> Seq(Chunk)] /\ DOMAIN rcv_buf' = Ends
      /\ rcv_nxt'[e] - Len(rcv_queue'[e]) = rcv_nxt[e] - Len(rcv_queue[e])
      /\ rcv_nxt'[w] = rcv_nxt[w] /\ rcv_queue'[w] = rcv_queue[w] /\ rcv_buf'[w] = rcv_buf[w]
  BY <1>1 DEF RcvMoved
<1>9. /\ acklist' \in [Ends -> Seq(Nat)] /\ net' \in [Ends -> SUBSET Segment]
      /\ \A x \in Ends : \A s \in net'[x] : s.cmd = "PUSH" => s \in net[x]
  BY <1>2, <1>8, InputTailType
<1>10. SndBufSent(e)'
  <2>1. DOMAIN buf = u .. (snd_nxt[e] - 1)
    BY <1>5, Zenon DEF Kept
  <2>2. DOMAIN buf \subseteq DOMAIN snd_buf[e]
    BY DEF Kept, RestrictFrom
  <2>3. \A s \in DOMAIN buf : ~buf[s].acked => buf[s].data = sent[e][s + 1]
    BY <1>2, <2>2 DEF Kept, SndBufSent
  <2>4. snd_nxt[e] = Len(sent[e])
    BY <1>2 DEF SndBufSent
  <2> QED BY <1>3, <1>5, <1>6, <1>7, <2>1, <2>3, <2>4 DEF SndBufSent
<1>11. SndBufSent(w)'
  BY <1>1, <1>2, <1>3, <1>6, <1>7 DEF SndBufSent
<1>12. TypeOK'
  <2>1. rmt_wnd' \in [Ends -> Nat]
    BY <1>2, <1>3, <1>4 DEF TypeOK
  <2>2. \A x \in Ends : /\ DOMAIN rcv_buf'[x] \subseteq Nat
                        /\ \A s \in DOMAIN rcv_buf'[x] : rcv_buf'[x][s] \in Chunk
    BY RcvTypes
  <2>3. \A x \in Ends : /\ DOMAIN snd_buf'[x] \subseteq Nat
                        /\ \A s \in DOMAIN snd_buf'[x] : snd_buf'[x][s] \in Slot
    <3>1. DOMAIN buf \subseteq Nat
      BY <1>2 DEF Kept, RestrictFrom, TypeOK
    <3>2. \A s \in DOMAIN buf : buf[s] \in Slot
      BY DEF Kept
    <3> QED BY <1>1, <1>2, <1>7, <3>1, <3>2 DEF TypeOK
  <2> QED BY <1>2, <1>3, <1>6, <1>7, <1>8, <1>9, <2>1, <2>2, <2>3 DEF TypeOK
<1>13. ASSUME NEW x \in Ends PROVE StreamTiled(x)' /\ InFlightSent(x)'
  <2>1. StreamTiled(x)'
    BY <1>2, <1>3 DEF StreamTiled
  <2>2. Peer(x) \in Ends
    BY PeerType
  <2> QED BY <1>2, <1>3, <1>9, <2>1, <2>2 DEF InFlightSent
<1>14. ReceivedSent(w)' /\ ReadSent(w)'
  <2>1. ReceivedSent(w)'
    BY <1>1, <1>3 DEF ReceivedSent, RcvMoved
  <2>2. ReadSent(w)'
    BY <1>1, <1>2, <1>3, <1>8 DEF ReadSent
  <2> QED BY <2>1, <2>2
<1>15. ReceivedSent(e)' /\ ReadSent(e)'
  BY <1>2, <1>3, <1>8 DEF ReceivedSent, ReadSent
<1> QED BY <1>1, <1>10, <1>11, <1>12, <1>13, <1>14, <1>15 DEF IInv

\* Input of an ACK segment.
LEMMA InputAckStep ==
    ASSUME ConstantsAssumption, IInv, NEW e \in Ends, NEW m \in net[e], NEW regular \in BOOLEAN,
           NEW last, InputAck(e, m, regular, last)
    PROVE  IInv'
<1> DEFINE buf == ParseAck(RestrictFrom(snd_buf[e], m.una), m.sn)
<1>1. TypeOK /\ acklist[e] \in Seq(Nat) /\ probe \in [Ends -> SUBSET {"WASK", "WINS"}]
  BY DEF IInv, TypeOK
<1>2. /\ InputHeader(e, m, regular) /\ snd_buf' = [snd_buf EXCEPT ![e] = buf]
      /\ UNCHANGED <<rcv_buf, rcv_queue, rcv_nxt, probe>>
      /\ InputTail(e, acklist[e], last)
  BY DEF InputAck
<1>3. Kept(e, m.una, buf)
  BY <1>1, KeptAcked
<1>4. RcvMoved(e, rcv_queue[e]) /\ probe' \in [Ends -> SUBSET {"WASK", "WINS"}]
  BY <1>1, <1>2, RcvUnmoved
<1> HIDE DEF buf
<1> QED BY <1>1, <1>2, <1>3, <1>4, InputCommon, Zenon

\* Input of a WASK or a WINS segment.
LEMMA InputProbeStep ==
    ASSUME ConstantsAssumption, IInv, NEW e \in Ends, NEW m \in net[e], NEW regular \in BOOLEAN,
           NEW last, InputProbe(e, m, regular, last)
    PROVE  IInv'
<1> DEFINE buf == RestrictFrom(snd_buf[e], m.una)
<1>1. TypeOK /\ acklist[e] \in Seq(Nat) /\ probe \in [Ends -> SUBSET {"WASK", "WINS"}]
  BY DEF IInv, TypeOK
<1>2. /\ InputHeader(e, m, regular) /\ snd_buf' = [snd_buf EXCEPT ![e] = buf]
      /\ UNCHANGED <<rcv_buf, rcv_queue, rcv_nxt>>
      /\ InputTail(e, acklist[e], last)
  BY DEF InputProbe
<1>3. Kept(e, m.una, buf)
  BY <1>1, KeptPlain
<1>4. RcvMoved(e, rcv_queue[e])
  BY <1>2, RcvUnmoved
<1>5. probe' \in [Ends -> SUBSET {"WASK", "WINS"}]
  BY <1>1 DEF InputProbe
<1> HIDE DEF buf
<1> QED BY <1>1, <1>2, <1>3, <1>4, <1>5, InputCommon, Zenon

\* parse_data adds a segment that the peer sent under that sn.
LEMMA ParseDataMoved ==
    ASSUME IInv, NEW e \in Ends, NEW m \in net[e], m.cmd = "PUSH", m.sn >= rcv_nxt[e],
           ParseData(e, m)
    PROVE  RcvMoved(e, rcv_queue[e])
<1> DEFINE w == Peer(e)
           old == rcv_buf[e]
           buf == IF m.sn \in DOMAIN old THEN old
                  ELSE [s \in DOMAIN old \cup {m.sn} |-> IF s = m.sn THEN m.data ELSE old[s]]
<1>1. w \in Ends /\ Peer(w) = e
  BY PeerType
<1>2. /\ TypeOK /\ ReceivedSent(w) /\ InFlightSent(w) /\ SndBufSent(w)
      /\ rcv_queue[e] \in Seq(Chunk)
  BY <1>1 DEF IInv, TypeOK
<1>3. m.sn \in Nat /\ m.sn < Len(sent[w]) /\ m.data = sent[w][m.sn + 1]
  <2>1. m.sn \in Nat
    BY <1>2 DEF TypeOK, Segment
  <2>2. m.sn < snd_nxt[w] /\ m.data = sent[w][m.sn + 1]
    BY <1>1, <1>2 DEF InFlightSent
  <2>3. snd_nxt[w] = Len(sent[w])
    BY <1>2 DEF SndBufSent
  <2> QED BY <2>1, <2>2, <2>3
<1>4. Mirrors(rcv_queue[e], rcv_nxt[e], sent[w]) /\ Waiting(old, rcv_nxt[e], sent[w])
  BY <1>1, <1>2 DEF ReceivedSent
<1>5. Waiting(buf, rcv_nxt[e], sent[w])
  BY <1>3, <1>4 DEF Waiting
<1>6. MoveRun(e, buf, rcv_queue[e])
  BY DEF ParseData
<1> HIDE DEF buf
<1> QED BY <1>2, <1>4, <1>5, <1>6, MoveRunFacts, Zenon

\* Input of a PUSH segment, and the run parse_data moves to rcv_queue.
LEMMA InputPushStep ==
    ASSUME ConstantsAssumption, IInv, NEW e \in Ends, NEW m \in net[e], NEW regular \in BOOLEAN,
           NEW last, InputPush(e, m, regular, last)
    PROVE  IInv'
<1> DEFINE buf == RestrictFrom(snd_buf[e], m.una)
<1>1. TypeOK /\ acklist[e] \in Seq(Nat) /\ probe \in [Ends -> SUBSET {"WASK", "WINS"}] /\ m.sn \in Nat
  <2>1. TypeOK /\ acklist[e] \in Seq(Nat) /\ probe \in [Ends -> SUBSET {"WASK", "WINS"}]
    BY DEF IInv, TypeOK
  <2>2. m.sn \in Nat
    BY <2>1 DEF TypeOK, Segment
  <2> QED BY <2>1, <2>2
<1>2. /\ InputHeader(e, m, regular) /\ snd_buf' = [snd_buf EXCEPT ![e] = buf]
      /\ probe' = probe /\ m.cmd = "PUSH"
  BY DEF InputPush
<1>3. Kept(e, m.una, buf)
  BY <1>1, KeptPlain
<1>4. PICK acks \in Seq(Nat) : InputTail(e, acks, last)
  <2>1. Append(acklist[e], m.sn) \in Seq(Nat)
    BY <1>1, AppendProperties
  <2> QED BY <1>1, <2>1 DEF InputPush
<1>5. RcvMoved(e, rcv_queue[e])
  <2>1. CASE UNCHANGED <<rcv_buf, rcv_queue, rcv_nxt>>
    BY <2>1, RcvUnmoved
  <2>2. CASE m.sn >= rcv_nxt[e] /\ ParseData(e, m)
    BY <1>2, <2>2, ParseDataMoved
  <2> QED BY <2>1, <2>2 DEF InputPush
<1>6. probe' \in [Ends -> SUBSET {"WASK", "WINS"}]
  BY <1>1, <1>2
<1> HIDE DEF buf
<1> QED BY <1>2, <1>3, <1>4, <1>5, <1>6, InputCommon, Zenon

-----------------------------------------------------------------------------
(* The invariant and what follows from it. *)

\* The invariant holds of two fresh control blocks.
LEMMA InitIInv ==
    ASSUME ConstantsAssumption, Init
    PROVE  IInv
<1>1. TypeOK
  <2>1. <<>> \in Seq(Chunk) /\ <<>> \in Seq(Nat)
    BY EmptySeq
  <2> QED BY <2>1 DEF Init, TypeOK, NoSlots, ConstantsAssumption
<1>2. Len(<<>>) = 0
  OBVIOUS
<1>3. ASSUME NEW e \in Ends
      PROVE  StreamTiled(e) /\ SndBufSent(e) /\ InFlightSent(e) /\ ReceivedSent(e) /\ ReadSent(e)
  <2>1. Peer(e) \in Ends
    BY PeerType
  <2>2. StreamTiled(e) /\ SndBufSent(e)
    BY <1>2 DEF Init, StreamTiled, Tiles, Below, EndOf, SndBufSent, NoSlots
  <2>3. InFlightSent(e) /\ ReceivedSent(e)
    BY <1>2, <2>1 DEF Init, InFlightSent, ReceivedSent, Mirrors, Waiting, NoSlots
  <2>4. ReadSent(e)
    BY <1>2, <2>1 DEF Init, ReadSent, EndOf
  <2> QED BY <2>2, <2>3, <2>4
<1> QED BY <1>1, <1>3 DEF IInv

\* Every step of either end keeps the invariant.
LEMMA NextIInv ==
    ASSUME ConstantsAssumption, IInv, [Next]_vars
    PROVE  IInv'
<1>1. CASE UNCHANGED vars
  <2>1. UNCHANGED <<sndVars, rcvVars, net, written>>
    BY <1>1 DEF vars, sndVars, rcvVars
  <2>2. TypeOK'
    BY <1>1 DEF IInv, TypeOK, vars
  <2> QED BY <2>1, <2>2, QuietStep
<1>2. CASE Next
  <2> SUFFICES ASSUME NEW e \in Ends,
        \/ \E n \in 1..MaxWrite : WriteBegin(e, n)
        \/ WriteChunk(e)
        \/ \E due \in SUBSET Unacked(e), expired \in {FALSE, ProbeArmed(e)} :
              WriteEnd(e, due, expired)
        \/ \E due \in SUBSET Unacked(e), expired \in {FALSE, ProbeArmed(e)} :
              Update(e, due, expired)
        \/ Recv(e)
        \/ \E m \in net[e], regular \in Regular, last \in {TRUE, ~AckNoDelay} :
              Input(e, m, regular, last)
        PROVE IInv'
    BY <1>2 DEF Next
  <2>1. ASSUME NEW n \in 1..MaxWrite, WriteBegin(e, n) PROVE IInv'
    BY <2>1, WriteBeginStep
  <2>2. CASE WriteChunk(e)
    BY <2>2, WriteChunkStep
  <2>3. {FALSE, ProbeArmed(e)} \subseteq BOOLEAN
    BY DEF ProbeArmed, IInv, TypeOK
  <2>4. ASSUME NEW due \in SUBSET Unacked(e), NEW expired \in BOOLEAN, WriteEnd(e, due, expired)
        PROVE  IInv'
    BY <2>4, WriteEndStep
  <2>5. ASSUME NEW due \in SUBSET Unacked(e), NEW expired \in BOOLEAN, Update(e, due, expired)
        PROVE  IInv'
    BY <2>5, UpdateStep
  <2>6. CASE Recv(e)
    BY <2>6, RecvStep
  <2>7. ASSUME NEW m \in net[e], NEW regular \in BOOLEAN, NEW last, Input(e, m, regular, last)
        PROVE  IInv'
    BY <2>7, InputAckStep, InputPushStep, InputProbeStep DEF Input
  <2>8. Regular \subseteq BOOLEAN
    BY DEF Regular
  <2> QED BY <2>1, <2>2, <2>3, <2>4, <2>5, <2>6, <2>7, <2>8
<1> QED BY <1>1, <1>2

\* IInv is inductive: every payload anywhere is the one sent under its number.
THEOREM Inductive == Spec => []IInv
<1>1. Init => IInv
  BY ConstantsAssumption, InitIInv
<1>2. IInv /\ [Next]_vars => IInv'
  BY ConstantsAssumption, NextIInv
<1> QED BY <1>1, <1>2, PTL DEF Spec

\* The variables of the two control blocks keep their types, for every window
\* size, bound and network.
THEOREM TypeCorrect == Spec => []TypeOK
<1>1. IInv => TypeOK
  BY DEF IInv
<1> QED BY <1>1, Inductive, PTL

\* The chunks read lie below what was written.
LEMMA StreamFromIInv == IInv => StreamIntegrity
<1> SUFFICES ASSUME IInv, NEW e \in Ends
             PROVE  /\ Len(rstream[e]) <= written[Peer(e)]
                    /\ \A i \in 1..Len(rstream[e]) : rstream[e][i] = i
  BY DEF StreamIntegrity
<1> DEFINE w == Peer(e)
           r == rcv_nxt[e] - Len(rcv_queue[e])
<1>1. w \in Ends /\ Peer(w) = e
  BY PeerType
<1>2. TypeOK /\ StreamTiled(w) /\ ReceivedSent(w) /\ ReadSent(w)
  BY <1>1 DEF IInv
<1>3. Len(rstream[e]) = EndOf(sent[w], r, 0) /\ \A i \in 1..Len(rstream[e]) : rstream[e][i] = i
  BY <1>1, <1>2 DEF ReadSent
<1>4. /\ rcv_nxt[e] \in Nat /\ Len(rcv_queue[e]) \in Nat /\ Len(sent[w]) \in Nat
      /\ written[w] \in Nat
  BY <1>1, <1>2, LenProperties DEF TypeOK
<1>5. r \in 0..Len(sent[w])
  BY <1>1, <1>2, <1>4 DEF ReceivedSent, Mirrors
<1>6. Below(sent[w], written[w])
  BY <1>2 DEF StreamTiled
<1> HIDE DEF r
<1>7. EndOf(sent[w], r, 0) <= written[w]
  BY <1>4, <1>5, <1>6 DEF EndOf, Below
<1> QED BY <1>3, <1>7

\* Whatever the network loses, repeats or reorders and whatever is sent again,
\* Read returns a prefix of what the other end wrote.
THEOREM StreamCorrect == Spec => []StreamIntegrity
BY Inductive, StreamFromIInv, PTL

-----------------------------------------------------------------------------
(* The protocol implements the byte streams. *)

\* A Write that is under way has claimed its bytes.
Claimed == \A e \in Ends : written[e] + todo[e] <= MaxBytes[e]

\* No step takes more bytes from the application than MaxBytes, the bound of the
\* model that the abstract Write shares.
LEMMA NextClaimed ==
    ASSUME ConstantsAssumption, TypeOK, Claimed, [Next]_vars
    PROVE  Claimed'
<1>1. /\ written \in [Ends -> Nat] /\ todo \in [Ends -> Nat] /\ Mss \in Nat
      /\ \A e \in Ends : MaxBytes[e] \in Nat /\ written[e] + todo[e] <= MaxBytes[e]
  BY DEF TypeOK, ConstantsAssumption, Claimed
<1>2. ASSUME NEW e \in Ends, NEW n \in 1..MaxWrite, WriteBegin(e, n) PROVE Claimed'
  BY <1>1, <1>2 DEF WriteBegin, Unlocked, Claimed, ConstantsAssumption
<1>3. ASSUME NEW e \in Ends, WriteChunk(e) PROVE Claimed'
  BY <1>1, <1>3 DEF WriteChunk, Claimed
<1>4. ASSUME NEW e \in Ends, NEW due, NEW expired, WriteEnd(e, due, expired) PROVE Claimed'
  <2>1. /\ written' = [written EXCEPT ![e] = written[e] + todo[e]]
        /\ todo' = [todo EXCEPT ![e] = 0]
    BY <1>4 DEF WriteEnd
  <2> QED BY <1>1, <2>1 DEF Claimed
<1>5. CASE UNCHANGED <<written, todo>>
  BY <1>5 DEF Claimed
<1>6. ASSUME NEW e \in Ends, NEW due, NEW expired, Update(e, due, expired) PROVE UNCHANGED <<written, todo>>
  BY <1>6 DEF Update
<1>7. ASSUME NEW e \in Ends, Recv(e) PROVE UNCHANGED <<written, todo>>
  BY <1>7 DEF Recv
<1>8. ASSUME NEW e \in Ends, NEW m \in net[e], NEW regular, NEW last, Input(e, m, regular, last)
      PROVE  UNCHANGED <<written, todo>>
  BY <1>8 DEF Input, InputAck, InputPush, InputProbe, InputHeader
<1>9. CASE UNCHANGED vars
  BY <1>5, <1>9 DEF vars
<1> QED BY <1>2, <1>3, <1>4, <1>5, <1>6, <1>7, <1>8, <1>9 DEF Next

\* A Send extends the stream that was written.
LEMMA WriteMaps ==
    ASSUME ConstantsAssumption, TypeOK, Claimed, NEW e \in Ends, NEW n \in Nat, n > 0, n <= todo[e],
           written' = [written EXCEPT ![e] = written[e] + n], UNCHANGED rstream
    PROVE  Stream!Next
<1>1. written[e] + n \in (written[e] + 1)..MaxBytes[e]
  <2>1. written[e] \in Nat /\ todo[e] \in Nat
    BY DEF TypeOK
  <2>2. MaxBytes[e] \in Nat /\ written[e] + todo[e] <= MaxBytes[e]
    BY DEF Claimed, ConstantsAssumption
  <2> QED BY <2>1, <2>2
<1>2. Stream!Write(e)
  BY <1>1, Zenon DEF Stream!Write
<1>3. e \in Stream!Ends
  BY DEF Ends, Stream!Ends
<1> QED BY <1>2, <1>3 DEF Stream!Next

\* A Recv reads the bytes that follow, and they were written.
LEMMA ReadMaps ==
    ASSUME ConstantsAssumption, IInv, IInv', NEW e \in Ends, Recv(e)
    PROVE  Stream!Next
<1> DEFINE head == Head(rcv_queue[e])
           w == Peer(e)
           n == head.hi - head.lo
<1>1. /\ head.lo \in Nat /\ head.hi \in Nat /\ head.lo < head.hi
      /\ Len(rstream[e]) = head.lo
  BY HeadIsNext DEF Recv
<1>2. rstream' = [rstream EXCEPT ![e] = rstream[e] \o [i \in 1..n |-> head.lo + i]]
  BY DEF Recv
<1>3. Len(rstream'[e]) = head.hi /\ written' = written
  <2>1. ReadUpTo(rstream'[e], Head(rcv_queue[e]).hi)
    BY RecvReads, Zenon
  <2>2. written' = written
    BY DEF Recv
  <2> QED BY <2>1, <2>2 DEF ReadUpTo
<1>4. Len(rstream'[e]) <= written'[w]
  <2>1. StreamIntegrity'
    BY StreamFromIInv, PTL
  <2> QED BY <2>1 DEF StreamIntegrity
<1>5. w \in Ends /\ written[w] \in Nat
  BY PeerType DEF IInv, TypeOK
<1> HIDE DEF head, w
<1>6. n \in 1..(written[w] - Len(rstream[e]))
  BY <1>1, <1>3, <1>4, <1>5, SMTT(20)
<1>7. rstream' = [rstream EXCEPT ![e] = rstream[e] \o [i \in 1..n |-> Len(rstream[e]) + i]]
  BY <1>1, <1>2, Zenon
<1>8. Stream!Other(e) = w
  BY DEF Stream!Other, Peer, w
<1> HIDE DEF n
<1>9. Stream!Read(e)
  BY <1>3, <1>6, <1>7, <1>8, Zenon DEF Stream!Read
<1>10. e \in Stream!Ends
  BY DEF Ends, Stream!Ends
<1> QED BY <1>9, <1>10 DEF Stream!Next

\* Every step of the two control blocks is a Write, a Read of the next bytes,
\* or invisible above.
THEOREM Refinement == Spec => ImplementsByteStream
<1>1. Init => Stream!Init
  BY DEF Init, Stream!Init, Ends, Stream!Ends
<1>2. Init => Claimed
  BY ConstantsAssumption DEF Init, Claimed, ConstantsAssumption
<1>3. TypeOK /\ Claimed /\ [Next]_vars => Claimed'
  BY ConstantsAssumption, NextClaimed
<1>4. ASSUME IInv, IInv', Claimed, [Next]_vars
      PROVE  [Stream!Next]_<<written, rstream>>
  <2>1. TypeOK /\ todo \in [Ends -> Nat] /\ Mss \in Nat \ {0}
    BY <1>4, ConstantsAssumption DEF IInv, TypeOK, ConstantsAssumption
  <2>2. ASSUME NEW e \in Ends, NEW n \in 1..MaxWrite, WriteBegin(e, n)
        PROVE  UNCHANGED <<written, rstream>>
    BY <2>2 DEF WriteBegin, rcvVars
  <2>3. ASSUME NEW e \in Ends, WriteChunk(e) PROVE Stream!Next
    <3>1. /\ todo[e] > Mss /\ written' = [written EXCEPT ![e] = written[e] + Mss]
          /\ UNCHANGED rstream
      BY <2>3 DEF WriteChunk, rcvVars
    <3>2. Mss \in Nat /\ Mss > 0 /\ Mss <= todo[e]
      BY <2>1, <3>1
    <3> QED BY <1>4, <2>1, <3>1, <3>2, ConstantsAssumption, WriteMaps, Zenon
  <2>4. ASSUME NEW e \in Ends, NEW due, NEW expired, WriteEnd(e, due, expired)
        PROVE  Stream!Next
    <3>1. /\ todo[e] \in 1..Mss /\ written' = [written EXCEPT ![e] = written[e] + todo[e]]
          /\ UNCHANGED rstream
      BY <2>4 DEF WriteEnd, rcvVars
    <3>2. todo[e] \in Nat /\ todo[e] > 0 /\ todo[e] <= todo[e]
      BY <2>1, <3>1
    <3> QED BY <1>4, <2>1, <3>1, <3>2, ConstantsAssumption, WriteMaps, Zenon
  <2>5. ASSUME NEW e \in Ends, NEW due, NEW expired, Update(e, due, expired)
        PROVE  UNCHANGED <<written, rstream>>
    BY <2>5 DEF Update, rcvVars
  <2>6. ASSUME NEW e \in Ends, Recv(e) PROVE Stream!Next
    BY <1>4, <2>6, ConstantsAssumption, ReadMaps
  <2>7. ASSUME NEW e \in Ends, NEW m \in net[e], NEW regular, NEW last, Input(e, m, regular, last)
        PROVE  UNCHANGED <<written, rstream>>
    BY <2>7 DEF Input, InputAck, InputPush, InputProbe, InputHeader
  <2>8. CASE UNCHANGED vars
    BY <2>8 DEF vars
  <2> QED BY <1>4, <2>2, <2>3, <2>4, <2>5, <2>6, <2>7, <2>8 DEF Next
<1>5. IInv => TypeOK
  BY DEF IInv
<1> QED BY <1>1, <1>2, <1>3, <1>4, <1>5, Inductive, PTL DEF Spec, ImplementsByteStream, Stream!Spec

-----------------------------------------------------------------------------
(* Acknowledgements and windows. *)

\* What the datagrams on their way to e say of their sender was so when they left,
\* and is still.
Told(e) ==
    \A m \in net[e] : /\ m.una <= rcv_nxt[Peer(e)] /\ m.wnd <= RcvWnd[Peer(e)]
                      /\ m.cmd = "ACK" => Has(Peer(e), m.sn)

\* What e will acknowledge it has.
ToAck(e) == \A i \in 1..Len(acklist[e]) : Has(e, acklist[e][i])

\* AckedImpliesReceived, for the segments of e.
Released(e) ==
    \A sn \in 0..(snd_nxt[e] - 1) :
        (sn \notin DOMAIN snd_buf[e] \/ snd_buf[e][sn].acked) => Has(Peer(e), sn)

\* snd_una is a number the receiver has told, and numbering stops at the window.
InWindow(e) == snd_una[e] <= rcv_nxt[Peer(e)] /\ snd_nxt[e] - snd_una[e] <= SndWnd[e]

\* However old rmt_wnd and snd_una are, together they do not reach beyond the receiver's
\* window, unless they did before its first datagram.
RemoteFits(e) ==
    InitWnd <= RcvWnd[Peer(e)] => /\ rmt_wnd[e] <= RcvWnd[Peer(e)]
                                  /\ snd_nxt[e] <= rcv_nxt[Peer(e)] + RcvWnd[Peer(e)]

\* What waits is of the window, which bounds the run that one free place lets in.
Admitted(e) ==
    /\ \A s \in DOMAIN rcv_buf[e] : s < rcv_nxt[e] + RcvWnd[e]
    /\ Len(rcv_queue[e]) <= 2 * RcvWnd[e] - 1

AckInv ==
    \A e \in Ends : Told(e) /\ ToAck(e) /\ Released(e) /\ InWindow(e) /\ RemoteFits(e) /\ Admitted(e)

\* A step of e leaves the other end alone.
OnlyEnd(e) ==
    \A x \in Ends : x # e =>
        /\ rcv_nxt'[x] = rcv_nxt[x] /\ rcv_buf'[x] = rcv_buf[x] /\ rcv_queue'[x] = rcv_queue[x]
        /\ acklist'[x] = acklist[x] /\ snd_buf'[x] = snd_buf[x] /\ snd_una'[x] = snd_una[x]
        /\ snd_nxt'[x] = snd_nxt[x] /\ rmt_wnd'[x] = rmt_wnd[x]

\* After the step e has sn, a number of before it.
HasThen(e, sn) == sn < rcv_nxt'[e] \/ sn \in DOMAIN rcv_buf'[e]

\* What it has received it keeps.
RcvOnward(e) ==
    /\ rcv_nxt'[e] >= rcv_nxt[e]
    /\ \A sn \in Nat : Has(e, sn) => Has(e, sn)'
    /\ Admitted(e)'

\* It releases what the other end has, and takes nothing of that back.
SndOnward(e) ==
    /\ snd_una'[e] >= snd_una[e]
    /\ \A sn \in DOMAIN snd_buf[e] \cap DOMAIN snd_buf'[e] :
          snd_buf[e][sn].acked => snd_buf'[e][sn].acked
    /\ Released(e)' /\ InWindow(e)' /\ RemoteFits(e)'

\* What it sends is so.
Tells(e) ==
    /\ net'[e] \subseteq net[e]
    /\ \A m \in net'[Peer(e)] :
          \/ m \in net[Peer(e)]
          \/ /\ m.una <= rcv_nxt'[e] /\ m.wnd <= RcvWnd[e]
             /\ m.cmd = "ACK" => Has(e, m.sn)'

Onward(e) == OnlyEnd(e) /\ RcvOnward(e) /\ SndOnward(e) /\ Tells(e) /\ ToAck(e)'

\* A step of e after which all this holds of e keeps the other end's invariant too.
LEMMA OnwardInv ==
    ASSUME ConstantsAssumption, TypeOK, TypeOK', AckInv, NEW e \in Ends, Onward(e)
    PROVE  AckInv'
<1> DEFINE w == Peer(e)
<1>1. w \in Ends /\ Peer(w) = e /\ w # e /\ \A x \in Ends : x = e \/ x = w
  BY PeerType DEF Ends, Peer
<1>2. /\ rcv_nxt'[w] = rcv_nxt[w] /\ rcv_buf'[w] = rcv_buf[w] /\ rcv_queue'[w] = rcv_queue[w]
      /\ acklist'[w] = acklist[w] /\ snd_buf'[w] = snd_buf[w] /\ snd_una'[w] = snd_una[w]
      /\ snd_nxt'[w] = snd_nxt[w] /\ rmt_wnd'[w] = rmt_wnd[w]
  BY <1>1 DEF Onward, OnlyEnd
<1>3. /\ rcv_nxt[e] \in Nat /\ rcv_nxt'[e] \in Nat /\ rcv_nxt'[e] >= rcv_nxt[e]
      /\ \A sn \in Nat : Has(e, sn) => Has(e, sn)'
      /\ snd_una[w] \in Nat /\ snd_nxt[w] \in Nat /\ RcvWnd[e] \in Nat
  BY <1>1 DEF Onward, RcvOnward, TypeOK, ConstantsAssumption
<1>4. \A sn : Has(w, sn)' = Has(w, sn)
  BY <1>2 DEF Has
<1>5. \A m \in net[w] : m.una \in Nat /\ m.wnd \in Nat /\ m.sn \in Nat
  <2>1. net[w] \subseteq Segment
    BY <1>1 DEF TypeOK
  <2> QED BY <2>1 DEF Segment
<1>6. Told(e)'
  <2>1. net'[e] \subseteq net[e]
    BY DEF Onward, Tells
  <2> QED BY <1>2, <1>4, <2>1 DEF AckInv, Told
<1>7. Told(w)'
  <2> SUFFICES ASSUME NEW m \in net'[w]
               PROVE  /\ m.una <= rcv_nxt'[e] /\ m.wnd <= RcvWnd[e]
                      /\ m.cmd = "ACK" => Has(e, m.sn)'
    BY <1>1 DEF Told
  <2>1. CASE m \in net[w]
    <3>1. /\ m.una <= rcv_nxt[e] /\ m.wnd <= RcvWnd[e]
          /\ m.cmd = "ACK" => Has(e, m.sn)
      BY <1>1, <2>1 DEF AckInv, Told
    <3> QED BY <1>1, <1>3, <1>5, <2>1, <3>1
  <2>2. CASE m \notin net[w]
    BY <2>2 DEF Onward, Tells
  <2> QED BY <2>1, <2>2
<1>8. ToAck(w)' /\ Admitted(w)'
  BY <1>1, <1>2, <1>4 DEF AckInv, ToAck, Admitted
<1>9. Released(w)'
  <2>1. \A sn \in 0..(snd_nxt[w] - 1) : sn \in Nat
    BY <1>3
  <2> QED BY <1>1, <1>2, <1>3, <2>1 DEF AckInv, Released
<1>10. InWindow(w)' /\ RemoteFits(w)'
  BY <1>1, <1>2, <1>3 DEF AckInv, InWindow, RemoteFits
<1>11. ToAck(e)' /\ Released(e)' /\ InWindow(e)' /\ RemoteFits(e)' /\ Admitted(e)'
  BY DEF Onward, RcvOnward, SndOnward
<1> QED BY <1>1, <1>6, <1>7, <1>8, <1>9, <1>10, <1>11 DEF AckInv

\* What the two windows leave room for, in numbers.
LEMMA RoomFits ==
    ASSUME NEW una \in Nat, NEW nxt \in Nat, NEW s \in Nat, NEW r \in Nat, NEW len \in Nat,
           una + Smaller(s, r) - nxt > 0
    PROVE  LET n == Smaller(una + Smaller(s, r) - nxt, len)
           IN  nxt + n <= una + s /\ nxt + n <= una + r
BY DEF Smaller

\* flush numbers no segment beyond its own window or the remote one.
LEMMA NewSegsFit ==
    ASSUME ConstantsAssumption, TypeOK, NEW e \in Ends, NEW queue \in Seq(Chunk), NewSegs(e, queue) # 0
    PROVE  /\ snd_nxt[e] + NewSegs(e, queue) <= snd_una[e] + SndWnd[e]
           /\ snd_nxt[e] + NewSegs(e, queue) <= snd_una[e] + rmt_wnd[e]
<1>1. /\ snd_una[e] \in Nat /\ SndWnd[e] \in Nat /\ rmt_wnd[e] \in Nat
      /\ snd_nxt[e] \in Nat /\ Len(queue) \in Nat
  BY LenProperties DEF TypeOK, ConstantsAssumption
<1> DEFINE room == snd_una[e] + Smaller(SndWnd[e], rmt_wnd[e]) - snd_nxt[e]
<1>2. room \in Int
  BY <1>1 DEF Smaller
<1>3. NewSegs(e, queue) = Smaller(room, Len(queue)) /\ room > 0
  BY <1>2 DEF NewSegs
<1> QED BY <1>1, <1>3, RoomFits

\* The conversion to the 16-bit field makes no number larger.
LEMMA ModAtMost ==
    ASSUME NEW a \in Nat, NEW m \in Nat \ {0}
    PROVE  a % m \in Nat /\ a % m <= a
OBVIOUS

\* wnd_unused tells no more than the window, also when it is cut to 16 bits.
LEMMA WndUnusedFits ==
    ASSUME ConstantsAssumption, NEW e \in Ends, NEW queue \in Seq(Chunk)
    PROVE  WndUnused(e, queue) <= RcvWnd[e]
<1>1. RcvWnd[e] \in Nat /\ WndSpace \in Nat \ {0} /\ Len(queue) \in Nat
  BY LenProperties DEF ConstantsAssumption
<1> DEFINE free == RcvWnd[e] - Len(queue)
           wnd == free % WndSpace
<1>2. Len(queue) < RcvWnd[e] => free \in Nat /\ free <= RcvWnd[e]
  BY <1>1
<1> HIDE DEF free
<1>3. Len(queue) < RcvWnd[e] => wnd \in Nat /\ wnd <= free
  BY <1>1, <1>2, ModAtMost
<1>4. WndUnused(e, queue) = IF Len(queue) < RcvWnd[e] THEN wnd ELSE 0
  BY DEF WndUnused, free
<1> HIDE DEF wnd
<1> QED BY <1>1, <1>2, <1>3, <1>4

\* An acknowledgement tells rcv_nxt, the free window, and a number of the acklist.
LEMMA AckSegsTell ==
    ASSUME NEW acks \in Seq(Nat), NEW una, NEW wnd, NEW m \in AckSegs(acks, una, wnd)
    PROVE  m.una = una /\ m.wnd = wnd /\ m.cmd = "ACK" /\ \E i \in 1..Len(acks) : m.sn = acks[i]
<1>1. DOMAIN acks = 1..Len(acks)
  BY LenProperties
<1> QED BY <1>1 DEF AckSegs, ControlSeg

\* Nothing but what is handed to the network joins what is in flight.
LEMMA TransitTells ==
    ASSUME TypeOK, NEW e \in Ends, NEW segs, Transit(e, segs)
    PROVE  net'[Peer(e)] \subseteq net[Peer(e)] \cup segs /\ net'[e] = net[e]
<1>1. PICK kept \in SUBSET (net[Peer(e)] \cup segs) : net' = [net EXCEPT ![Peer(e)] = kept]
  BY DEF Transit
<1> QED BY <1>1, PeerType DEF TypeOK

\* A step that leaves receiving alone.
LEMMA RcvStays ==
    ASSUME AckInv, TypeOK, NEW e \in Ends, UNCHANGED <<rcv_buf, rcv_queue, rcv_nxt>>
    PROVE  RcvOnward(e)
<1>1. Admitted(e)'
  BY DEF AckInv, Admitted
<1>2. \A sn : Has(e, sn)' = Has(e, sn)
  BY DEF Has
<1> QED BY <1>1, <1>2 DEF RcvOnward, TypeOK

\* So does one that leaves sending alone.
LEMMA SndStays ==
    ASSUME AckInv, TypeOK, NEW e \in Ends, OnlyEnd(e), UNCHANGED <<snd_buf, snd_una, snd_nxt, rmt_wnd>>
    PROVE  SndOnward(e)
<1>1. Peer(e) \in Ends /\ Peer(e) # e
  BY PeerType
<1>2. rcv_nxt'[Peer(e)] = rcv_nxt[Peer(e)] /\ \A sn : Has(Peer(e), sn)' = Has(Peer(e), sn)
  BY <1>1 DEF OnlyEnd, Has
<1>3. Released(e)'
  BY <1>2 DEF AckInv, Released
<1>4. InWindow(e)' /\ RemoteFits(e)'
  BY <1>2 DEF AckInv, InWindow, RemoteFits
<1> QED BY <1>3, <1>4 DEF SndOnward, TypeOK

\* The run that MoveRun takes off buf is the receiver's for good, and not longer than the
\* window.
LEMMA MoveRunOnward ==
    ASSUME ConstantsAssumption, TypeOK, NEW e \in Ends, NEW buf, NEW queue \in Seq(Chunk),
           DOMAIN rcv_buf[e] \subseteq DOMAIN buf, Len(queue) <= 2 * RcvWnd[e] - 1,
           DOMAIN buf \subseteq rcv_nxt[e] .. (rcv_nxt[e] + RcvWnd[e] - 1),
           \A s \in DOMAIN buf : buf[s] \in Chunk,
           MoveRun(e, buf, queue)
    PROVE  RcvOnward(e) /\ \A s \in DOMAIN buf : Has(e, s)'
<1> DEFINE nxt == rcv_nxt[e]
           wnd == RcvWnd[e]
<1>1. nxt \in Nat /\ wnd \in Nat \ {0} /\ Len(queue) \in Nat
  BY LenProperties DEF TypeOK, ConstantsAssumption
<1>2. IsFiniteSet(DOMAIN buf)
  <2>1. IsFiniteSet(nxt .. (nxt + wnd - 1))
    <3>1. nxt \in Int /\ nxt + wnd - 1 \in Int
      BY <1>1
    <3> QED BY <3>1, FS_Interval, Zenon
  <2> QED BY <2>1, FS_Subset, Zenon
<1>3. PICK k \in 0..Cardinality(DOMAIN buf) :
        /\ IF Len(queue) < wnd
           THEN /\ \A i \in 0..(k - 1) : nxt + i \in DOMAIN buf
                /\ nxt + k \notin DOMAIN buf
           ELSE k = 0
        /\ rcv_nxt' = [rcv_nxt EXCEPT ![e] = nxt + k]
        /\ rcv_queue' = [rcv_queue EXCEPT ![e] = queue \o Run(buf, nxt, k)]
        /\ rcv_buf' = [rcv_buf EXCEPT ![e] = Rest(buf, nxt, k)]
  BY Zenon DEF MoveRun, Run, Rest
<1>4. k \in Nat
  BY <1>2, FS_CardinalityType
<1>5. /\ rcv_nxt'[e] = nxt + k /\ rcv_buf'[e] = Rest(buf, nxt, k)
      /\ rcv_queue'[e] = queue \o Run(buf, nxt, k)
  BY <1>3 DEF TypeOK
<1>6. DOMAIN buf \subseteq nxt .. (nxt + wnd - 1) /\ DOMAIN rcv_buf[e] \subseteq DOMAIN buf
  OBVIOUS
<1> HIDE DEF nxt, wnd
<1>7. k # 0 => k <= wnd /\ Len(queue) < wnd
  <2>1. k # 0 => k - 1 \in 0..(k - 1) /\ nxt + (k - 1) \in DOMAIN buf /\ Len(queue) < wnd
    BY <1>3, <1>4
  <2> QED BY <1>1, <1>4, <1>6, <2>1
<1>8. Len(queue \o Run(buf, nxt, k)) = Len(queue) + k
  <2>1. \A i \in 1..k : nxt + i - 1 \in DOMAIN buf
    <3>1. \A i \in 1..k : i - 1 \in 0..(k - 1) /\ nxt + (i - 1) = nxt + i - 1 /\ k # 0
      BY <1>1, <1>4
    <3> QED BY <1>3, <1>7, <3>1
  <2>2. Run(buf, nxt, k) \in [1..k -> Chunk]
    BY <2>1 DEF Run
  <2>3. Run(buf, nxt, k) \in Seq(Chunk)
    BY <1>4, <2>2, SeqDef
  <2>4. Len(Run(buf, nxt, k)) = k
    BY <1>4, <2>2, <2>3, LenProperties
  <2> DEFINE run == Run(buf, nxt, k)
  <2> HIDE DEF run
  <2>5. Len(queue \o run) = Len(queue) + Len(run)
    <3>1. run \in Seq(Chunk) /\ queue \in Seq(Chunk)
      BY <2>3 DEF run
    <3> QED BY <3>1, ConcatType
  <2> QED BY <2>4, <2>5 DEF run
<1>9. \A s \in DOMAIN buf : Has(e, s)'
  BY <1>1, <1>4, <1>5, <1>6 DEF Has, Rest
<1>10. Admitted(e)'
  <2>1. \A s \in DOMAIN rcv_buf'[e] : s < rcv_nxt'[e] + wnd
    BY <1>1, <1>4, <1>5, <1>6 DEF Rest
  <2>2. Len(rcv_queue'[e]) <= 2 * wnd - 1
    BY <1>1, <1>4, <1>5, <1>7, <1>8 DEF wnd
  <2> QED BY <2>1, <2>2 DEF Admitted, wnd
<1>11. \A sn \in Nat : Has(e, sn) => Has(e, sn)'
  <2>1. \A sn \in Nat : sn < nxt => sn < nxt + k
    BY <1>1, <1>4
  <2> QED BY <1>5, <1>6, <1>9, <2>1 DEF Has, nxt
<1>12. rcv_nxt'[e] >= rcv_nxt[e]
  BY <1>1, <1>4, <1>5 DEF nxt
<1> QED BY <1>9, <1>10, <1>11, <1>12 DEF RcvOnward

\* What waits at e has numbers from rcv_nxt on.
LEMMA RcvBufWaits ==
    ASSUME IInv, NEW e \in Ends
    PROVE  \A s \in DOMAIN rcv_buf[e] : s \in Nat /\ s >= rcv_nxt[e] /\ rcv_buf[e][s] \in Chunk
<1>1. TypeOK /\ Peer(e) \in Ends /\ Peer(Peer(e)) = e
  BY PeerType DEF IInv
<1>2. ReceivedSent(Peer(e))
  BY <1>1 DEF IInv
<1>3. Waiting(rcv_buf[e], rcv_nxt[e], sent[Peer(e)])
  BY <1>1, <1>2 DEF ReceivedSent
<1> QED BY <1>1, <1>3 DEF Waiting, TypeOK

\* flush numbers what both windows admit, tells what it has received, and releases nothing.
LEMMA FlushOnward ==
    ASSUME ConstantsAssumption, IInv, AckInv, NEW e \in Ends, NEW queue \in Seq(Chunk),
           NEW due \in SUBSET Unacked(e), NEW expired \in BOOLEAN,
           Flush(e, queue, due, expired), UNCHANGED <<snd_una, rcvVars, rmt_wnd>>
    PROVE  Onward(e)
<1> DEFINE n == NewSegs(e, queue)
           w == Peer(e)
           wnd == WndUnused(e, rcv_queue[e])
<1>1. TypeOK /\ w \in Ends /\ w # e /\ SndBufSent(e)
  BY PeerType DEF IInv
<1>2. UNCHANGED <<rcv_buf, rcv_queue, rcv_nxt>>
  BY DEF rcvVars
<1>3. /\ snd_buf' = [snd_buf EXCEPT ![e] = Numbered(e, queue)]
      /\ snd_nxt' = [snd_nxt EXCEPT ![e] = snd_nxt[e] + n]
      /\ acklist' = [acklist EXCEPT ![e] = <<>>]
      /\ Transit(e, FlushSegs(e, queue, due, expired))
  BY DEF Flush
<1>4. OnlyEnd(e)
  BY <1>1, <1>2, <1>3 DEF OnlyEnd, TypeOK
<1>5. RcvOnward(e)
  BY <1>1, <1>2, RcvStays
<1>6. ToAck(e)'
  BY <1>1, <1>3 DEF ToAck, TypeOK
<1>7. Tells(e)
  <2>1. /\ net'[w] \subseteq net[w] \cup FlushSegs(e, queue, due, expired)
        /\ net'[e] = net[e]
    BY <1>1, <1>3, TransitTells
  <2>2. rcv_queue[e] \in Seq(Chunk) /\ acklist[e] \in Seq(Nat) /\ rcv_nxt[e] \in Nat
    BY <1>1 DEF TypeOK
  <2>3. wnd <= RcvWnd[e]
    BY <2>2, WndUnusedFits
  <2> HIDE DEF wnd
  <2>4. ASSUME NEW m \in FlushSegs(e, queue, due, expired)
        PROVE  m.una = rcv_nxt[e] /\ m.wnd = wnd /\ (m.cmd = "ACK" => Has(e, m.sn))
    <3>1. CASE m \in AckSegs(acklist[e], rcv_nxt[e], wnd)
      <4>1. PICK i \in 1..Len(acklist[e]) :
              m.una = rcv_nxt[e] /\ m.wnd = wnd /\ m.sn = acklist[e][i]
        <5> DEFINE acks == acklist[e]
                   una == rcv_nxt[e]
        <5>1. acks \in Seq(Nat) /\ m \in AckSegs(acks, una, wnd)
          BY <2>2, <3>1
        <5> HIDE DEF acks, una
        <5>2. m.una = una /\ m.wnd = wnd /\ \E i \in 1..Len(acks) : m.sn = acks[i]
          BY <5>1, AckSegsTell
        <5> QED BY <5>2 DEF acks, una
      <4>2. Has(e, acklist[e][i])
        BY DEF AckInv, ToAck
      <4> QED BY <4>1, <4>2
    <3>2. CASE m \notin AckSegs(acklist[e], rcv_nxt[e], wnd)
      <4>1. probe[e] \subseteq {"WASK", "WINS"}
        BY <1>1 DEF TypeOK
      <4> QED BY <2>4, <3>2, <4>1 DEF FlushSegs, ControlSeg, PushSeg, wnd
    <3> QED BY <3>1, <3>2
  <2>5. \A sn : Has(e, sn)' = Has(e, sn)
    BY <1>2 DEF Has
  <2> QED BY <1>2, <2>1, <2>2, <2>3, <2>4, <2>5 DEF Tells
<1>8. SndOnward(e)
  <2> DEFINE fresh == snd_nxt[e] .. (snd_nxt[e] + n - 1)
  <2>1. n \in 0..Len(queue) /\ Len(queue) \in Nat
    BY <1>1, NewSegsRange, LenProperties
  <2>2. /\ snd_nxt[e] \in Nat /\ snd_una[e] \in Nat /\ rmt_wnd[e] \in Nat /\ rcv_nxt[w] \in Nat
        /\ SndWnd[e] \in Nat /\ RcvWnd[w] \in Nat
    BY <1>1 DEF TypeOK, ConstantsAssumption
  <2>3. n # 0 => snd_nxt[e] + n <= snd_una[e] + SndWnd[e] /\ snd_nxt[e] + n <= snd_una[e] + rmt_wnd[e]
    BY <1>1, NewSegsFit
  <2>4. snd_buf'[e] = Numbered(e, queue) /\ snd_nxt'[e] = snd_nxt[e] + n /\ snd_una'[e] = snd_una[e]
    BY <1>1, <1>3 DEF TypeOK
  <2>5. DOMAIN snd_buf[e] = snd_una[e] .. (snd_nxt[e] - 1)
    BY <1>1 DEF SndBufSent
  <2>6. /\ DOMAIN snd_buf'[e] = DOMAIN snd_buf[e] \cup fresh
        /\ \A s \in fresh : ~snd_buf'[e][s].acked
        /\ \A s \in DOMAIN snd_buf[e] : snd_buf'[e][s] = snd_buf[e][s]
    BY <2>1, <2>2, <2>4, <2>5 DEF Numbered
  <2>7. rcv_nxt'[w] = rcv_nxt[w] /\ \A sn : Has(w, sn)' = Has(w, sn)
    BY <1>2 DEF Has
  <2>8. Released(e)'
    <3>1. ASSUME NEW sn \in 0..(snd_nxt'[e] - 1), sn \notin DOMAIN snd_buf'[e] \/ snd_buf'[e][sn].acked
          PROVE  Has(w, sn)
      <4>1. sn \notin fresh /\ (sn \notin DOMAIN snd_buf[e] \/ snd_buf[e][sn].acked)
        BY <2>6, <3>1
      <4>2. sn \in 0..(snd_nxt[e] - 1)
        BY <2>1, <2>2, <2>4, <4>1
      <4> QED BY <4>1, <4>2 DEF AckInv, Released
    <3> QED BY <2>7, <3>1 DEF Released
  <2> HIDE DEF n
  <2>9. InWindow(e)'
    <3>1. snd_una[e] <= rcv_nxt[w] /\ snd_nxt[e] - snd_una[e] <= SndWnd[e]
      BY DEF AckInv, InWindow
    <3> QED BY <2>1, <2>2, <2>3, <2>4, <2>7, <3>1 DEF InWindow
  <2>10. RemoteFits(e)'
    <3>1. snd_una[e] <= rcv_nxt[w]
      BY DEF AckInv, InWindow
    <3>2. InitWnd <= RcvWnd[w] => rmt_wnd[e] <= RcvWnd[w] /\ snd_nxt[e] <= rcv_nxt[w] + RcvWnd[w]
      BY DEF AckInv, RemoteFits
    <3>3. rmt_wnd'[e] = rmt_wnd[e]
      OBVIOUS
    <3>4. InitWnd <= RcvWnd[w] => snd_nxt[e] + n <= rcv_nxt[w] + RcvWnd[w]
      <4>1. CASE n = 0
        BY <2>2, <3>2, <4>1
      <4>2. CASE n # 0
        <5>1. snd_nxt[e] + n <= snd_una[e] + rmt_wnd[e] /\ snd_nxt[e] + n \in Nat
          BY <2>1, <2>2, <2>3, <4>2
        <5> QED BY <2>2, <3>1, <3>2, <5>1, SMTT(20)
      <4> QED BY <4>1, <4>2
    <3> QED BY <2>4, <2>7, <3>2, <3>3, <3>4 DEF RemoteFits
  <2> QED BY <2>2, <2>4, <2>6, <2>8, <2>9, <2>10 DEF SndOnward
<1> QED BY <1>4, <1>5, <1>6, <1>7, <1>8 DEF Onward

\* A step that only queues or reads.
LEMMA SndQuiet ==
    ASSUME AckInv, TypeOK, NEW e \in Ends, RcvOnward(e), OnlyEnd(e),
           UNCHANGED <<snd_buf, snd_una, snd_nxt, rmt_wnd, acklist, net>>
    PROVE  Onward(e)
<1>1. SndOnward(e)
  BY SndStays
<1>2. Tells(e)
  BY DEF Tells
<1>3. ToAck(e)'
  <2>1. acklist[e] \in Seq(Nat)
    BY DEF TypeOK
  <2>2. \A i \in 1..Len(acklist[e]) : acklist[e][i] \in Nat
    BY <2>1, ElementOfSeq
  <2> QED BY <2>2 DEF AckInv, ToAck, RcvOnward
<1> QED BY <1>1, <1>2, <1>3 DEF Onward

\* Recv moves another run in when there is room again.
LEMMA RecvOnward ==
    ASSUME ConstantsAssumption, IInv, AckInv, NEW e \in Ends, Recv(e)
    PROVE  Onward(e)
<1>1. /\ rcv_queue[e] \in Seq(Chunk) /\ rcv_queue[e] # <<>> /\ TypeOK
      /\ MoveRun(e, rcv_buf[e], Tail(rcv_queue[e]))
      /\ UNCHANGED <<snd_buf, snd_una, snd_nxt, rmt_wnd, acklist, net>>
  BY DEF Recv, IInv, TypeOK, sndVars
<1>2. /\ Tail(rcv_queue[e]) \in Seq(Chunk)
      /\ Len(Tail(rcv_queue[e])) = Len(rcv_queue[e]) - 1 /\ Len(rcv_queue[e]) \in Nat
  BY <1>1, HeadTailProperties, LenProperties
<1>3. Admitted(e) /\ RcvWnd[e] \in Nat /\ rcv_nxt[e] \in Nat
  BY <1>1 DEF AckInv, ConstantsAssumption, TypeOK
<1>4. Len(Tail(rcv_queue[e])) <= 2 * RcvWnd[e] - 1
  BY <1>2, <1>3 DEF Admitted
<1>5. /\ DOMAIN rcv_buf[e] \subseteq rcv_nxt[e] .. (rcv_nxt[e] + RcvWnd[e] - 1)
      /\ \A s \in DOMAIN rcv_buf[e] : rcv_buf[e][s] \in Chunk
  BY <1>3, RcvBufWaits DEF Admitted
<1>6. RcvOnward(e)
  BY <1>1, <1>2, <1>4, <1>5, MoveRunOnward
<1>7. OnlyEnd(e)
  BY <1>1 DEF OnlyEnd, MoveRun, TypeOK
<1> QED BY <1>1, <1>6, <1>7, SndQuiet

\* buf marks what snd_buf marks, and besides only what the other end has.
Frees(e, buf) ==
    \A s \in DOMAIN buf : /\ snd_buf[e][s].acked => buf[s].acked
                          /\ buf[s].acked => snd_buf[e][s].acked \/ Has(Peer(e), s)

\* What parse_una and parse_ack take from snd_buf the sender of the datagram has.
LEMMA InputOnward ==
    ASSUME ConstantsAssumption, IInv, AckInv, TypeOK', NEW e \in Ends, NEW m \in net[e],
           NEW regular \in BOOLEAN, NEW last, NEW acks \in Seq(Nat), NEW buf,
           InputHeader(e, m, regular), snd_buf' = [snd_buf EXCEPT ![e] = buf],
           DOMAIN buf = DOMAIN RestrictFrom(snd_buf[e], m.una),
           Frees(e, buf),
           RcvOnward(e),
           \A x \in Ends : x # e => /\ rcv_nxt'[x] = rcv_nxt[x] /\ rcv_queue'[x] = rcv_queue[x]
                                    /\ rcv_buf'[x] = rcv_buf[x],
           \A i \in 1..Len(acks) : HasThen(e, acks[i]),
           InputTail(e, acks, last)
    PROVE  Onward(e)
<1> DEFINE w == Peer(e)
           u == ShrinkBuf(e, RestrictFrom(snd_buf[e], m.una))
<1>1. TypeOK /\ w \in Ends /\ w # e /\ SndBufSent(e) /\ Peer(w) = e
  BY PeerType DEF IInv
<1>2. /\ m.una \in Nat /\ m.wnd \in Nat /\ m.una <= rcv_nxt[w] /\ m.wnd <= RcvWnd[w]
  <2>1. m \in Segment
    BY <1>1 DEF TypeOK
  <2> QED BY <2>1 DEF Segment, AckInv, Told
<1>3. /\ snd_nxt' = snd_nxt /\ snd_una' = [snd_una EXCEPT ![e] = u]
      /\ rmt_wnd' = IF regular THEN [rmt_wnd EXCEPT ![e] = m.wnd] ELSE rmt_wnd
  BY DEF InputHeader
<1>4. /\ u \in Nat /\ u >= snd_una[e] /\ u <= snd_nxt[e]
      /\ DOMAIN RestrictFrom(snd_buf[e], m.una) = u .. (snd_nxt[e] - 1)
  BY <1>1, <1>2, ShrinkFacts
<1> HIDE DEF u
<1>5. /\ snd_una'[e] = u /\ snd_buf'[e] = buf
      /\ snd_una[e] \in Nat /\ snd_nxt[e] \in Nat /\ rcv_nxt[w] \in Nat /\ rmt_wnd[e] \in Nat
      /\ SndWnd[e] \in Nat /\ RcvWnd[w] \in Nat
      /\ DOMAIN snd_buf[e] = snd_una[e] .. (snd_nxt[e] - 1)
  BY <1>1, <1>3 DEF TypeOK, SndBufSent, ConstantsAssumption
<1>6. DOMAIN buf = {s \in DOMAIN snd_buf[e] : s >= m.una}
  BY DEF RestrictFrom
<1>7. u <= rcv_nxt[w]
  <2>1. CASE u = snd_una[e]
    BY <2>1 DEF AckInv, InWindow
  <2>2. CASE u > snd_una[e]
    <3>1. u - 1 \in DOMAIN snd_buf[e] /\ u - 1 \notin DOMAIN buf
      BY <1>4, <1>5, <2>2
    <3>2. u - 1 < m.una
      <4>1. ~(u - 1 >= m.una)
        BY <1>6, <3>1
      <4> QED BY <1>2, <1>4, <4>1
    <3> QED BY <1>2, <1>4, <1>5, <3>2
  <2> QED BY <1>4, <1>5, <2>1, <2>2
<1>8. acklist' = [acklist EXCEPT ![e] = <<>>] \/ acklist' = [acklist EXCEPT ![e] = acks]
  BY DEF InputTail
<1>9. OnlyEnd(e)
  BY <1>1, <1>3, <1>8 DEF OnlyEnd, TypeOK
<1>10. \A sn : Has(w, sn)' = Has(w, sn)
  BY <1>1 DEF Has
<1>11. Released(e)'
  <2>1. ASSUME NEW sn \in 0..(snd_nxt[e] - 1), sn \notin DOMAIN buf \/ buf[sn].acked
        PROVE  Has(w, sn)
    <3>1. CASE sn \notin DOMAIN snd_buf[e] \/ snd_buf[e][sn].acked
      BY <3>1 DEF AckInv, Released
    <3>2. CASE sn \in DOMAIN snd_buf[e] /\ sn \notin DOMAIN buf
      <4>1. sn < rcv_nxt[w]
        BY <1>2, <1>5, <1>6, <3>2
      <4> QED BY <4>1 DEF Has
    <3>3. CASE sn \in DOMAIN buf
      BY <2>1, <3>1, <3>3 DEF Frees
    <3> QED BY <3>1, <3>2, <3>3
  <2> QED BY <1>3, <1>5, <1>10, <2>1 DEF Released
<1>12. InWindow(e)'
  <2>1. snd_nxt[e] - snd_una[e] <= SndWnd[e] /\ rcv_nxt'[w] = rcv_nxt[w]
    BY <1>1 DEF AckInv, InWindow
  <2> QED BY <1>3, <1>4, <1>5, <1>7, <2>1, SMTT(20) DEF InWindow
<1>13. RemoteFits(e)'
  <2>1. rmt_wnd'[e] = rmt_wnd[e] \/ rmt_wnd'[e] = m.wnd
    BY <1>1, <1>3 DEF TypeOK
  <2>2. rcv_nxt'[w] = rcv_nxt[w]
    BY <1>1
  <2> QED BY <1>2, <1>3, <2>1, <2>2 DEF AckInv, RemoteFits
<1>14. SndOnward(e)
  <2>1. \A s \in DOMAIN snd_buf[e] \cap DOMAIN snd_buf'[e] : snd_buf[e][s].acked => snd_buf'[e][s].acked
    BY <1>5 DEF Frees
  <2> QED BY <1>4, <1>5, <1>11, <1>12, <1>13, <2>1 DEF SndOnward
<1>15. ToAck(e)'
  <2>1. acklist'[e] = <<>> \/ acklist'[e] = acks
    BY <1>1, <1>8 DEF TypeOK
  <2>2. \A i \in 1..Len(<<>>) : FALSE
    OBVIOUS
  <2> QED BY <2>1, <2>2 DEF ToAck, Has, HasThen
<1>16. Tells(e)
  <2> DEFINE wnd == WndUnused(e, rcv_queue'[e])
             una == rcv_nxt'[e]
  <2>1. CASE UNCHANGED net
    BY <2>1 DEF Tells
  <2>2. CASE Transit(e, AckSegs(acks, una, wnd))
    <3>1. net'[w] \subseteq net[w] \cup AckSegs(acks, una, wnd) /\ net'[e] = net[e]
      BY <1>1, <2>2, TransitTells
    <3>2. una \in Nat /\ wnd <= RcvWnd[e]
      BY WndUnusedFits DEF TypeOK
    <3> HIDE DEF wnd, una
    <3>3. ASSUME NEW s \in AckSegs(acks, una, wnd)
          PROVE  s.una <= una /\ s.wnd <= RcvWnd[e] /\ Has(e, s.sn)'
      <4>1. s.una = una /\ s.wnd = wnd /\ \E i \in 1..Len(acks) : s.sn = acks[i]
        BY AckSegsTell
      <4> QED BY <3>2, <4>1 DEF Has, HasThen
    <3> QED BY <3>1, <3>3 DEF Tells, una
  <2> QED BY <2>1, <2>2 DEF InputTail
<1> QED BY <1>9, <1>14, <1>15, <1>16 DEF Onward

\* An ACK tells of a segment that its sender has.
LEMMA InputAckOnward ==
    ASSUME ConstantsAssumption, IInv, AckInv, TypeOK', NEW e \in Ends, NEW m \in net[e],
           NEW regular \in BOOLEAN, NEW last, InputAck(e, m, regular, last)
    PROVE  Onward(e)
<1> DEFINE left == RestrictFrom(snd_buf[e], m.una)
           buf == ParseAck(left, m.sn)
<1>1. /\ InputHeader(e, m, regular) /\ snd_buf' = [snd_buf EXCEPT ![e] = buf] /\ m.cmd = "ACK"
      /\ UNCHANGED <<rcv_buf, rcv_queue, rcv_nxt>> /\ InputTail(e, acklist[e], last)
  BY DEF InputAck
<1>2. TypeOK /\ acklist[e] \in Seq(Nat)
  BY DEF IInv, TypeOK
<1>3. Has(Peer(e), m.sn)
  BY <1>1 DEF AckInv, Told
<1>4. DOMAIN left \subseteq DOMAIN snd_buf[e] /\ \A s \in DOMAIN left : left[s] = snd_buf[e][s]
  BY DEF RestrictFrom
<1> HIDE DEF left
<1>5. DOMAIN buf = DOMAIN left
  BY DEF ParseAck
<1>6. Frees(e, buf)
  BY <1>3, <1>4, <1>5 DEF ParseAck, Frees
<1>7. RcvOnward(e)
  BY <1>1, <1>2, RcvStays
<1>8. \A i \in 1..Len(acklist[e]) : HasThen(e, acklist[e][i])
  BY <1>1 DEF AckInv, ToAck, Has, HasThen
<1> HIDE DEF buf
<1> QED BY <1>1, <1>2, <1>5, <1>6, <1>7, <1>8, InputOnward DEF left

\* Without parse_ack the slots that stay are as they were.
LEMMA PlainSlots ==
    ASSUME NEW e \in Ends, NEW una
    PROVE  \A s \in DOMAIN RestrictFrom(snd_buf[e], una) :
              RestrictFrom(snd_buf[e], una)[s] = snd_buf[e][s]
BY DEF RestrictFrom

\* A window command tells nothing but una and the window.
LEMMA InputProbeOnward ==
    ASSUME ConstantsAssumption, IInv, AckInv, TypeOK', NEW e \in Ends, NEW m \in net[e],
           NEW regular \in BOOLEAN, NEW last, InputProbe(e, m, regular, last)
    PROVE  Onward(e)
<1> DEFINE buf == RestrictFrom(snd_buf[e], m.una)
<1>1. /\ InputHeader(e, m, regular) /\ snd_buf' = [snd_buf EXCEPT ![e] = buf]
      /\ UNCHANGED <<rcv_buf, rcv_queue, rcv_nxt>> /\ InputTail(e, acklist[e], last)
  BY DEF InputProbe
<1>2. TypeOK /\ acklist[e] \in Seq(Nat)
  BY DEF IInv, TypeOK
<1>3. Frees(e, buf)
  BY PlainSlots DEF Frees
<1>4. RcvOnward(e)
  BY <1>1, <1>2, RcvStays
<1>5. \A i \in 1..Len(acklist[e]) : HasThen(e, acklist[e][i])
  BY <1>1 DEF AckInv, ToAck, Has, HasThen
<1>6. DOMAIN buf = DOMAIN RestrictFrom(snd_buf[e], m.una)
  OBVIOUS
<1> HIDE DEF buf
<1> QED BY <1>1, <1>2, <1>3, <1>4, <1>5, <1>6, InputOnward

\* parse_data keeps a segment of the window, which is why it is acknowledged.
LEMMA ParseDataOnward ==
    ASSUME ConstantsAssumption, IInv, AckInv, NEW e \in Ends, NEW m \in net[e],
           m.sn >= rcv_nxt[e], m.sn < rcv_nxt[e] + RcvWnd[e], ParseData(e, m)
    PROVE  RcvOnward(e) /\ Has(e, m.sn)'
<1> DEFINE old == rcv_buf[e]
           buf == IF m.sn \in DOMAIN old THEN old
                  ELSE [s \in DOMAIN old \cup {m.sn} |-> IF s = m.sn THEN m.data ELSE old[s]]
<1>1. TypeOK /\ rcv_queue[e] \in Seq(Chunk) /\ rcv_nxt[e] \in Nat /\ RcvWnd[e] \in Nat
  BY DEF IInv, TypeOK, ConstantsAssumption
<1>2. m.sn \in Nat /\ m.data \in Chunk
  <2>1. m \in Segment
    BY <1>1 DEF TypeOK
  <2> QED BY <2>1 DEF Segment
<1>3. Admitted(e)
  BY DEF AckInv
<1>4. DOMAIN buf = DOMAIN old \cup {m.sn} /\ \A s \in DOMAIN buf : buf[s] \in Chunk
  BY <1>2, RcvBufWaits
<1>5. MoveRun(e, buf, rcv_queue[e])
  BY DEF ParseData
<1> HIDE DEF buf
<1>6. DOMAIN buf \subseteq rcv_nxt[e] .. (rcv_nxt[e] + RcvWnd[e] - 1)
  BY <1>1, <1>2, <1>3, <1>4, RcvBufWaits DEF Admitted
<1>7. Len(rcv_queue[e]) <= 2 * RcvWnd[e] - 1
  BY <1>3 DEF Admitted
<1> QED BY <1>1, <1>4, <1>5, <1>6, <1>7, MoveRunOnward

\* A PUSH is acknowledged if it is there afterwards, or has long been.
LEMMA InputPushOnward ==
    ASSUME ConstantsAssumption, IInv, AckInv, TypeOK', NEW e \in Ends, NEW m \in net[e],
           NEW regular \in BOOLEAN, NEW last, InputPush(e, m, regular, last)
    PROVE  Onward(e)
<1> DEFINE buf == RestrictFrom(snd_buf[e], m.una)
<1>1. /\ InputHeader(e, m, regular) /\ snd_buf' = [snd_buf EXCEPT ![e] = buf] /\ m.cmd = "PUSH"
  BY DEF InputPush
<1>2. TypeOK /\ acklist[e] \in Seq(Nat) /\ rcv_nxt[e] \in Nat /\ rcv_nxt'[e] \in Nat
  BY DEF IInv, TypeOK
<1>3. m.sn \in Nat
  <2>1. m \in Segment
    BY <1>2 DEF TypeOK
  <2> QED BY <2>1 DEF Segment
<1>4. Frees(e, buf)
  BY PlainSlots DEF Frees
<1>5. RcvMoved(e, rcv_queue[e])
  <2>1. CASE UNCHANGED <<rcv_buf, rcv_queue, rcv_nxt>>
    BY <2>1, RcvUnmoved
  <2>2. CASE m.sn >= rcv_nxt[e] /\ ParseData(e, m)
    BY <1>1, <2>2, ParseDataMoved
  <2> QED BY <2>1, <2>2 DEF InputPush
<1>6. \A i \in 1..Len(acklist[e]) : acklist[e][i] \in Nat /\ Has(e, acklist[e][i])
  BY <1>2, ElementOfSeq DEF AckInv, ToAck
<1>7. /\ RcvOnward(e)
      /\ m.sn < rcv_nxt[e] + RcvWnd[e] => Has(e, m.sn)'
  <2>1. CASE m.sn < rcv_nxt[e] + RcvWnd[e] /\ m.sn >= rcv_nxt[e] /\ ParseData(e, m)
    BY <2>1, ParseDataOnward
  <2>2. CASE UNCHANGED <<rcv_buf, rcv_queue, rcv_nxt>> /\ m.sn < rcv_nxt[e]
    BY <1>2, <2>2, RcvStays DEF Has
  <2>3. CASE UNCHANGED <<rcv_buf, rcv_queue, rcv_nxt>> /\ m.sn >= rcv_nxt[e] + RcvWnd[e]
    <3>1. RcvWnd[e] \in Nat
      BY DEF ConstantsAssumption
    <3> QED BY <1>2, <1>3, <2>3, <3>1, RcvStays
  <2> QED BY <1>2, <1>3, <2>1, <2>2, <2>3 DEF InputPush
<1>8. \A i \in 1..Len(acklist[e]) : HasThen(e, acklist[e][i])
  BY <1>6, <1>7 DEF RcvOnward, Has, HasThen
<1>9. \A x \in Ends : x # e => /\ rcv_nxt'[x] = rcv_nxt[x] /\ rcv_queue'[x] = rcv_queue[x]
                               /\ rcv_buf'[x] = rcv_buf[x]
  BY <1>5 DEF RcvMoved
<1>10. DOMAIN buf = DOMAIN RestrictFrom(snd_buf[e], m.una)
  OBVIOUS
<1>11. RcvOnward(e)
  BY <1>7
<1> HIDE DEF buf
<1>12. CASE InputTail(e, acklist[e], last)
  BY <1>1, <1>2, <1>4, <1>8, <1>9, <1>10, <1>11, <1>12, InputOnward
<1>13. CASE m.sn < rcv_nxt[e] + RcvWnd[e] /\ InputTail(e, Append(acklist[e], m.sn), last)
  <2> DEFINE a == Append(acklist[e], m.sn)
  <2>1. /\ a \in Seq(Nat) /\ Len(a) = Len(acklist[e]) + 1 /\ Len(acklist[e]) \in Nat
        /\ a[Len(acklist[e]) + 1] = m.sn /\ \A i \in 1..Len(acklist[e]) : a[i] = acklist[e][i]
    BY <1>2, <1>3, AppendProperties, LenProperties
  <2>2. InputTail(e, a, last)
    BY <1>13
  <2> HIDE DEF a
  <2>3. \A i \in 1..Len(a) : HasThen(e, a[i])
    <3>1. HasThen(e, m.sn)
      BY <1>7, <1>13 DEF Has, HasThen
    <3>2. \A i \in 1..Len(a) : i \in 1..Len(acklist[e]) \/ i = Len(acklist[e]) + 1
      BY <2>1
    <3> QED BY <1>8, <2>1, <3>1, <3>2
  <2> QED BY <1>1, <1>4, <1>9, <1>10, <1>11, <2>1, <2>2, <2>3, InputOnward
<1> QED BY <1>12, <1>13 DEF InputPush

\* Every step of either end goes onward.
LEMMA NextOnward ==
    ASSUME ConstantsAssumption, IInv, IInv', AckInv, Next
    PROVE  \E e \in Ends : Onward(e)
<1>1. TypeOK /\ TypeOK'
  BY DEF IInv
<1> SUFFICES ASSUME NEW e \in Ends,
      \/ \E n \in 1..MaxWrite : WriteBegin(e, n)
      \/ WriteChunk(e)
      \/ \E due \in SUBSET Unacked(e), expired \in {FALSE, ProbeArmed(e)} :
            WriteEnd(e, due, expired)
      \/ \E due \in SUBSET Unacked(e), expired \in {FALSE, ProbeArmed(e)} :
            Update(e, due, expired)
      \/ Recv(e)
      \/ \E m \in net[e], regular \in Regular, last \in {TRUE, ~AckNoDelay} :
            Input(e, m, regular, last)
      PROVE Onward(e)
  BY DEF Next
<1>2. CASE UNCHANGED <<snd_buf, snd_una, snd_nxt, rcvVars, rmt_wnd, acklist, net>>
  <2>1. UNCHANGED <<rcv_buf, rcv_queue, rcv_nxt, acklist, snd_buf, snd_una, snd_nxt, rmt_wnd, net>>
    BY <1>2 DEF rcvVars
  <2>2. RcvOnward(e)
    BY <1>1, <2>1, RcvStays
  <2>3. OnlyEnd(e)
    BY <2>1 DEF OnlyEnd
  <2> QED BY <1>1, <2>1, <2>2, <2>3, SndQuiet
<1>3. ASSUME NEW n \in 1..MaxWrite, WriteBegin(e, n) PROVE Onward(e)
  BY <1>2, <1>3 DEF WriteBegin, sndVars, ctlVars
<1>4. CASE WriteChunk(e)
  BY <1>2, <1>4 DEF WriteChunk, ctlVars
<1>5. {FALSE, ProbeArmed(e)} \subseteq BOOLEAN /\ Regular \subseteq BOOLEAN
  BY <1>1 DEF ProbeArmed, TypeOK, Regular
<1>6. ASSUME NEW due \in SUBSET Unacked(e), NEW expired \in BOOLEAN, WriteEnd(e, due, expired)
      PROVE  Onward(e)
  <2> DEFINE queue == Send(snd_queue[e], written[e], todo[e])
  <2>1. todo[e] \in 1..Mss /\ UNCHANGED <<snd_una, rcvVars, rmt_wnd>>
    BY <1>6 DEF WriteEnd
  <2>2. queue \in Seq(Chunk)
    BY <2>1, SendFacts
  <2>3. \/ Flush(e, queue, due, expired)
        \/ UNCHANGED <<snd_buf, snd_nxt, acklist, net>>
    BY <1>6 DEF WriteEnd
  <2> HIDE DEF queue
  <2>4. CASE Flush(e, queue, due, expired)
    BY <2>1, <2>2, <2>4, FlushOnward
  <2>5. CASE UNCHANGED <<snd_buf, snd_nxt, acklist, net>>
    BY <1>2, <2>1, <2>5
  <2> QED BY <2>3, <2>4, <2>5
<1>7. ASSUME NEW due \in SUBSET Unacked(e), NEW expired \in BOOLEAN, Update(e, due, expired)
      PROVE  Onward(e)
  <2>1. snd_queue[e] \in Seq(Chunk)
    BY <1>1 DEF TypeOK
  <2> QED BY <1>7, <2>1, FlushOnward DEF Update
<1>8. CASE Recv(e)
  BY <1>8, RecvOnward
<1>9. ASSUME NEW m \in net[e], NEW regular \in BOOLEAN, NEW last, Input(e, m, regular, last)
      PROVE  Onward(e)
  BY <1>1, <1>9, InputAckOnward, InputPushOnward, InputProbeOnward DEF Input
<1> QED BY <1>3, <1>4, <1>5, <1>6, <1>7, <1>8, <1>9

\* Nothing has been sent, told or acknowledged.
LEMMA InitAckInv ==
    ASSUME ConstantsAssumption, Init
    PROVE  AckInv
<1> SUFFICES ASSUME NEW e \in Ends
             PROVE  Told(e) /\ ToAck(e) /\ Released(e) /\ InWindow(e) /\ RemoteFits(e) /\ Admitted(e)
  BY DEF AckInv
<1>1. /\ Peer(e) \in Ends /\ RcvWnd[e] \in Nat \ {0} /\ SndWnd[e] \in Nat /\ RcvWnd[Peer(e)] \in Nat
  BY PeerType DEF ConstantsAssumption
<1>2. Told(e) /\ ToAck(e) /\ Released(e)
  BY DEF Init, Told, ToAck, Released
<1>3. InWindow(e) /\ RemoteFits(e)
  BY <1>1 DEF Init, InWindow, RemoteFits, ConstantsAssumption
<1>4. Admitted(e)
  BY <1>1 DEF Init, Admitted, NoSlots
<1> QED BY <1>2, <1>3, <1>4

LEMMA NextAckInv ==
    ASSUME ConstantsAssumption, IInv, IInv', AckInv, [Next]_vars
    PROVE  AckInv'
<1>1. TypeOK /\ TypeOK'
  BY DEF IInv
<1>2. CASE UNCHANGED vars
  BY <1>2 DEF vars, AckInv, Told, ToAck, Released, InWindow, RemoteFits, Admitted, Has
<1>3. CASE Next
  BY <1>1, <1>3, NextOnward, OnwardInv
<1> QED BY <1>2, <1>3

\* What the ends tell each other about the segments they have is so, and stays so.
THEOREM AcksSound == Spec => []AckInv
<1>1. Init => AckInv
  BY ConstantsAssumption, InitAckInv
<1>2. IInv /\ IInv' /\ AckInv /\ [Next]_vars => AckInv'
  BY ConstantsAssumption, NextAckInv
<1> QED BY <1>1, <1>2, Inductive, PTL DEF Spec

\* A segment that is removed or freed is one the receiver has, for every window, whatever
\* is lost, repeated or overtaken.
THEOREM ReleasedReceived == Spec => []AckedImpliesReceived
<1>1. AckInv => AckedImpliesReceived
  BY DEF AckInv, Released, AckedImpliesReceived
<1> QED BY <1>1, AcksSound, PTL

\* The window is kept, and the send buffer is exactly what lies in it.
THEOREM WindowKept == Spec => []SendWindow
<1>1. AckInv /\ IInv => SendWindow
  BY DEF AckInv, InWindow, IInv, SndBufSent, SendWindow
<1> QED BY <1>1, AcksSound, Inductive, PTL

\* If the window a sender assumes at first fits, no segment lies beyond the receiver's,
\* however old the window it was last told.
THEOREM NothingOverruns ==
    ASSUME \A e \in Ends : InitWnd <= RcvWnd[e]
    PROVE  Spec => []NoOverrun
<1>1. ASSUME AckInv, IInv, NEW e \in Ends, NEW m \in net[e], m.cmd = "PUSH"
      PROVE  m.sn < rcv_nxt[e] + RcvWnd[e]
  <2>1. Peer(e) \in Ends /\ Peer(Peer(e)) = e
    BY PeerType
  <2>2. m.sn < snd_nxt[Peer(e)]
    BY <1>1, <2>1 DEF IInv, InFlightSent
  <2>3. snd_nxt[Peer(e)] <= rcv_nxt[e] + RcvWnd[e]
    BY <1>1, <2>1 DEF AckInv, RemoteFits
  <2>4. m.sn \in Nat /\ snd_nxt[Peer(e)] \in Nat /\ rcv_nxt[e] \in Nat /\ RcvWnd[e] \in Nat
    <3>1. TypeOK /\ m \in Segment
      BY <1>1 DEF IInv, TypeOK
    <3> QED BY <2>1, <3>1, ConstantsAssumption DEF TypeOK, Segment, ConstantsAssumption
  <2> QED BY <2>2, <2>3, <2>4
<1>2. AckInv /\ IInv => NoOverrun
  BY <1>1 DEF NoOverrun
<1> QED BY <1>2, AcksSound, Inductive, PTL

\* A run that one free place lets in leaves the receive queue below twice the window.
THEOREM QueueBounded == Spec => []RcvQueueBound
<1>1. AckInv => RcvQueueBound
  BY DEF AckInv, Admitted, RcvQueueBound
<1> QED BY <1>1, AcksSound, PTL

\* No stale datagram takes snd_una, rcv_nxt or an acknowledgement back.
THEOREM ProgressKept == Spec => NoRetreat
<1>1. ASSUME IInv, IInv', AckInv, [Next]_vars, NEW x \in Ends
      PROVE  /\ snd_una'[x] >= snd_una[x] /\ rcv_nxt'[x] >= rcv_nxt[x]
             /\ \A sn \in DOMAIN snd_buf[x] \cap DOMAIN snd_buf'[x] :
                   snd_buf[x][sn].acked => snd_buf'[x][sn].acked
  <2>1. snd_una[x] \in Nat /\ rcv_nxt[x] \in Nat
    BY <1>1 DEF IInv, TypeOK
  <2>2. CASE UNCHANGED vars
    BY <2>1, <2>2 DEF vars
  <2>3. CASE Next
    <3>1. PICK e \in Ends : Onward(e)
      BY <1>1, <2>3, ConstantsAssumption, NextOnward
    <3>2. CASE x = e
      BY <3>1, <3>2 DEF Onward, RcvOnward, SndOnward
    <3>3. CASE x # e
      BY <2>1, <3>1, <3>3 DEF Onward, OnlyEnd
    <3> QED BY <3>2, <3>3
  <2> QED BY <1>1, <2>2, <2>3
<1>2. IInv /\ IInv' /\ AckInv /\ [Next]_vars =>
        [\A e \in Ends :
            /\ snd_una'[e] >= snd_una[e]
            /\ rcv_nxt'[e] >= rcv_nxt[e]
            /\ \A sn \in DOMAIN snd_buf[e] \cap DOMAIN snd_buf'[e] :
                  snd_buf[e][sn].acked => snd_buf'[e][sn].acked]_vars
  BY <1>1
<1> QED BY <1>2, AcksSound, Inductive, PTL DEF Spec, NoRetreat

-----------------------------------------------------------------------------
(* No byte is dropped. *)

\* A set of numbers has a least one.
LEMMA LeastNumber ==
    ASSUME NEW S, S \subseteq Nat, S # {}
    PROVE  \E n \in S : \A m \in S : n <= m
<1> DEFINE R == OpToRel(<, Nat)
<1>1. \A m \in Nat, n \in Nat : m < n => <<m, n>> \in R
  BY DEF OpToRel
<1>2. IsWellFoundedOn(R, Nat)
  BY NatLessThanWellFounded, Zenon
<1> HIDE DEF R
<1>3. PICK n \in S : \A m \in S : ~(<<m, n>> \in R)
  BY <1>2, WFMin
<1>4. \A m \in S : ~(m < n)
  BY <1>1, <1>3
<1> QED BY <1>4

\* Tiles leave no gap: every byte between their ends is in one of them.
LEMMA TilesCover ==
    ASSUME NEW q \in Seq(Chunk), NEW a \in Nat, NEW b \in Nat, Tiles(q, a, b),
           NEW x \in (a + 1)..b
    PROVE  \E i \in 1..Len(q) : Covers(q[i], x)
<1> DEFINE S == {i \in 1..Len(q) : x <= q[i].hi}
<1>1. Len(q) \in Nat /\ \A i \in 1..Len(q) : q[i].lo \in Nat /\ q[i].hi \in Nat
  <2>1. \A i \in 1..Len(q) : q[i] \in Chunk
    BY ElementOfSeq
  <2> QED BY <2>1, LenProperties DEF Chunk
<1>2. EndOf(q, Len(q), a) = b
  BY DEF Tiles
<1>3. Len(q) \in S
  BY <1>1, <1>2 DEF EndOf
<1>4. S \in SUBSET Nat /\ S # {}
  BY <1>1, <1>3
<1>5. PICK n \in S : \A m \in S : n <= m
  <2> HIDE DEF S
  <2> QED BY <1>4, LeastNumber
<1>6. n \in 1..Len(q) /\ x <= q[n].hi /\ q[n].lo = EndOf(q, n - 1, a)
  BY <1>5, TilesAt
<1>7. EndOf(q, n - 1, a) < x
  <2>1. CASE n = 1
    BY <2>1 DEF EndOf
  <2>2. CASE n # 1
    <3>1. n - 1 \in 1..Len(q) /\ n - 1 # 0 /\ n - 1 < n
      BY <1>1, <1>6, <2>2
    <3>2. n - 1 \notin S
      BY <1>5, <1>6, <3>1
    <3>3. ~(x <= q[n - 1].hi)
      BY <3>1, <3>2
    <3> QED BY <1>1, <3>1, <3>3 DEF EndOf
  <2> QED BY <2>1, <2>2
<1> QED BY <1>6, <1>7 DEF Covers

\* A byte that was numbered and not read is of a segment that waits to be read, or waits
\* for those before it, or is not acknowledged.
LEMMA NumberedHeld ==
    ASSUME IInv, AckInv, NEW e \in Ends, NEW b \in Nat, b > Len(rstream[Peer(e)]),
           b <= EndOf(sent[e], Len(sent[e]), 0)
    PROVE  \/ \E sn \in DOMAIN snd_buf[e] : Covers(snd_buf[e][sn].data, b)
           \/ \E sn \in DOMAIN rcv_buf[Peer(e)] : Covers(rcv_buf[Peer(e)][sn], b)
           \/ \E i \in DOMAIN rcv_queue[Peer(e)] : Covers(rcv_queue[Peer(e)][i], b)
<1> DEFINE p == Peer(e)
           q == rcv_queue[p]
           r == rcv_nxt[p] - Len(q)
           s == sent[e]
           end == EndOf(s, Len(s), 0)
           left == SubSeq(s, r + 1, Len(s))
<1>1. p \in Ends /\ TypeOK /\ StreamTiled(e) /\ SndBufSent(e) /\ ReceivedSent(e) /\ ReadSent(e)
  BY PeerType DEF IInv
<1>2. s \in Seq(Chunk) /\ q \in Seq(Chunk) /\ rcv_nxt[p] \in Nat /\ Len(q) \in Nat /\ Len(s) \in Nat
  BY <1>1, LenProperties DEF TypeOK
<1>3. /\ r \in 0..Len(s) /\ rcv_nxt[p] <= Len(s)
      /\ \A i \in 1..Len(q) : q[i] = s[r + i]
      /\ \A sn \in DOMAIN rcv_buf[p] : rcv_buf[p][sn] = s[sn + 1]
  BY <1>1, <1>2 DEF ReceivedSent, Mirrors, Waiting
<1>4. Len(rstream[p]) = EndOf(s, r, 0) /\ Len(rstream[p]) \in Nat
  BY <1>1, LenProperties DEF ReadSent, TypeOK
<1>5. Tiles(s, 0, end)
  BY <1>1, Zenon DEF StreamTiled
<1>6. snd_nxt[e] = Len(s) /\ \A sn \in DOMAIN snd_buf[e] : ~snd_buf[e][sn].acked => snd_buf[e][sn].data = s[sn + 1]
  BY <1>1 DEF SndBufSent
<1>7. DOMAIN q = 1..Len(q)
  BY <1>2, LenProperties
<1>8. r = rcv_nxt[p] - Len(q)
  OBVIOUS
<1> HIDE DEF r
<1>9. end \in Nat
  <2>1. \A i \in 1..Len(s) : s[i] \in Chunk
    BY <1>2, ElementOfSeq
  <2> HIDE DEF s
  <2>2. Len(s) # 0 => s[Len(s)] \in Chunk
    BY <1>2, <2>1
  <2> QED BY <2>2 DEF EndOf, Chunk
<1>10. /\ Tiles(left, EndOf(s, r, 0), end) /\ left \in Seq(Chunk) /\ Len(left) = Len(s) - r
      /\ \A j \in 1..(Len(s) - r) : left[j] = s[r + j]
  BY <1>2, <1>3, <1>5, TilesCut, CutType
<1> HIDE DEF s, end, left
<1>11. b \in (EndOf(s, r, 0) + 1)..end
  BY <1>4, <1>9 DEF s, end
<1>12. PICK j \in 1..Len(left) : Covers(left[j], b)
  BY <1>4, <1>9, <1>10, <1>11, TilesCover
<1>13. r + j \in 1..Len(s) /\ Covers(s[r + j], b)
  BY <1>2, <1>3, <1>10, <1>12
<1>14. CASE j \in 1..Len(q)
  BY <1>3, <1>7, <1>13, <1>14
<1>15. CASE j > Len(q)
  <2> DEFINE sn == r + j - 1
  <2>1. /\ sn \in 0..(snd_nxt[e] - 1) /\ ~(sn < rcv_nxt[p])
        /\ sn + 1 = r + j
    <3>1. j \in Nat /\ j > Len(q) /\ r \in Nat
      BY <1>2, <1>3, <1>10, <1>12, <1>15
    <3>2. r + Len(q) = rcv_nxt[p] /\ r + j <= Len(s)
      BY <1>2, <1>8, <1>13
    <3> QED BY <1>2, <1>6, <3>1, <3>2, SMTT(20)
  <2> HIDE DEF sn
  <2>2. Covers(s[sn + 1], b)
    BY <1>13, <2>1
  <2>3. CASE sn \in DOMAIN rcv_buf[p]
    BY <1>3, <2>2, <2>3
  <2>4. CASE sn \notin DOMAIN rcv_buf[p]
    <3>1. ~Has(p, sn)
      BY <2>1, <2>4 DEF Has
    <3>2. sn \in DOMAIN snd_buf[e] /\ ~snd_buf[e][sn].acked
      BY <2>1, <3>1 DEF AckInv, Released
    <3> QED BY <1>6, <2>2, <3>2
  <2> QED BY <2>3, <2>4
<1> QED BY <1>2, <1>12, <1>14, <1>15

\* Between Write and Read no byte is lost: it is queued, sent and not acknowledged, or
\* held by the receiver.
THEOREM NothingDropped == Spec => []NoByteDropped
<1>1. ASSUME IInv, AckInv, NEW e \in Ends, NEW b \in (Len(rstream[Peer(e)]) + 1)..written[e]
      PROVE  \/ \E i \in DOMAIN snd_queue[e] : Covers(snd_queue[e][i], b)
             \/ \E sn \in DOMAIN snd_buf[e] : Covers(snd_buf[e][sn].data, b)
             \/ \E sn \in DOMAIN rcv_buf[Peer(e)] : Covers(rcv_buf[Peer(e)][sn], b)
             \/ \E i \in DOMAIN rcv_queue[Peer(e)] : Covers(rcv_queue[Peer(e)][i], b)
  <2> DEFINE s == sent[e]
             end == EndOf(s, Len(s), 0)
             q == snd_queue[e]
  <2>1. /\ Peer(e) \in Ends /\ TypeOK /\ Tiles(q, end, written[e])
    BY <1>1, PeerType, Zenon DEF IInv, StreamTiled
  <2>2. /\ s \in Seq(Chunk) /\ q \in Seq(Chunk) /\ written[e] \in Nat
        /\ Len(rstream[Peer(e)]) \in Nat
    BY <2>1, LenProperties DEF TypeOK
  <2>3. b \in Nat /\ b > Len(rstream[Peer(e)]) /\ b <= written[e]
    BY <1>1, <2>2
  <2>4. end \in Nat /\ DOMAIN q = 1..Len(q)
    <3>1. \A i \in 1..Len(s) : s[i] \in Chunk
      BY <2>2, ElementOfSeq
    <3> QED BY <2>2, <3>1, LenProperties, SMTT(20) DEF EndOf, Chunk
  <2> HIDE DEF q
  <2>5. CASE b <= end
    BY <1>1, <2>3, <2>5, NumberedHeld
  <2> HIDE DEF end
  <2>6. CASE b > end
    <3>1. b \in (end + 1)..written[e]
      BY <2>2, <2>3, <2>4, <2>6
    <3>2. \E i \in 1..Len(q) : Covers(q[i], b)
      BY <2>1, <2>2, <2>4, <3>1, TilesCover
    <3> QED BY <2>4, <3>2 DEF q
  <2> QED BY <2>3, <2>4, <2>5, <2>6
<1>2. IInv /\ AckInv => NoByteDropped
  BY <1>1 DEF NoByteDropped
<1> QED BY <1>2, AcksSound, Inductive, PTL

=============================================================================
