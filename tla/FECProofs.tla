----------------------------- MODULE FECProofs -----------------------------
(***************************************************************************)
(* Proofs about forward error correction for every number of shards, queue *)
(* limit, width of seqid and starting point.                               *)
(*                                                                         *)
(* Packets are reasoned about by their position: the seqid of packet n is  *)
(* Id(n) throughout, positions below Most are compared rightly by          *)
(* _itimediff across the one wrap there is, and a group is the positions   *)
(* that agree in n div shardSize.  The queue is then a sequence of numbers *)
(* that increase, in which the packets of a group stand together and       *)
(* within the search window of any one of them.  FECInv adds what decode   *)
(* has done for each group.                                                *)
(***************************************************************************)
EXTENDS FEC, SequenceTheorems, FiniteSetTheorems, WellFoundedInduction, TLAPS

-----------------------------------------------------------------------------
(* Arithmetic *)

\* Division with remainder.
LEMMA DivMod ==
    ASSUME NEW a \in Int, NEW b \in Nat, b > 0
    PROVE  /\ a \div b \in Int /\ a % b \in 0..(b - 1)
           /\ a = (a \div b) * b + (a % b)
OBVIOUS

\* Multiples that differ differ by the number at least.
LEMMA Multiples ==
    ASSUME NEW b \in Nat, b > 0, NEW x \in Int, NEW y \in Int
    PROVE  /\ x * b \in Int /\ (x + y) * b = x * b + y * b
           /\ (x - y) * b = x * b - y * b /\ (x + 1) * b = x * b + b
           /\ x < y => x * b + b <= y * b
<1>1. x * b \in Int /\ y * b \in Int
  OBVIOUS
<1>2. (x + y) * b = x * b + y * b /\ (x - y) * b = x * b - y * b /\ (x + 1) * b = x * b + b
  OBVIOUS
<1>3. ASSUME x < y PROVE x * b + b <= y * b
  <2>1. y - (x + 1) \in Nat
    BY <1>3
  <2>2. (y - (x + 1)) * b \in Nat
    BY <2>1
  <2>3. (y - (x + 1)) * b = y * b - (x * b + b)
    OBVIOUS
  <2> QED
    BY <1>1, <2>2, <2>3
<1> QED
  BY <1>1, <1>2, <1>3

\* And only those quotient and remainder.
LEMMA Quotient ==
    ASSUME NEW b \in Nat, b > 0, NEW q \in Int, NEW r \in 0..(b - 1)
    PROVE  (q * b + r) \div b = q /\ (q * b + r) % b = r
<1> DEFINE a == q * b + r
           q2 == a \div b
           r2 == a % b
<1>1. a \in Int /\ a = q * b + r /\ q * b \in Int
  OBVIOUS
<1>2. q2 \in Int /\ r2 \in 0..(b - 1) /\ a = q2 * b + r2 /\ q2 * b \in Int
  <2>1. q2 \in Int /\ r2 \in 0..(b - 1) /\ a = q2 * b + r2
    BY <1>1, DivMod
  <2> HIDE DEF q2, r2
  <2> QED
    BY <2>1
<1> HIDE DEF a, q2, r2
<1>3. ~(q < q2)
  <2>1. q < q2 => q * b + b <= q2 * b
    BY <1>2, Multiples
  <2> QED
    BY <1>1, <1>2, <2>1
<1>4. ~(q2 < q)
  <2>1. q2 < q => q2 * b + b <= q * b
    BY <1>2, Multiples
  <2> QED
    BY <1>1, <1>2, <2>1
<1>5. q2 = q
  BY <1>2, <1>3, <1>4
<1>6. r2 = r
  BY <1>1, <1>2, <1>5
<1> QED
  BY <1>5, <1>6 DEF a, q2, r2

-----------------------------------------------------------------------------
(* Seqids *)

\* How many groups there are before seqid starts again, and where the run starts.
Rounds == (IdSpace - 1) \div shardSize - 1
StartRound == Start \div shardSize
Half == IdSpace \div 2

\* Positions up to the end of the group of the last packet.
Most == MaxSent + shardSize

\* The seqid of packet n.
Id(n) == IF Start + n - 1 < paws THEN Start + n - 1 ELSE Start + n - 1 - paws

\* What the assumption on the constants gives.
LEMMA Sizes ==
    /\ dataShards \in Nat /\ parityShards \in Nat /\ rxlimit \in Nat
    /\ dataShards > 0 /\ parityShards > 0 /\ rxlimit >= shardSize
    /\ shardSize \in Nat /\ shardSize = dataShards + parityShards /\ shardSize > 0
    /\ Rounds \in Nat /\ paws \in Nat /\ paws > 0 /\ paws = Rounds * shardSize
    /\ StartRound \in Nat /\ StartRound < Rounds /\ Start = StartRound * shardSize
    /\ Start \in Nat /\ Start < paws
    /\ IdSpace \in Nat /\ paws < IdSpace /\ IdSpace - paws <= 2 * shardSize
    /\ Half \in Nat /\ 2 * Half <= IdSpace /\ IdSpace <= 2 * Half + 1
    /\ MaxSent \in Nat /\ Most \in Nat /\ Most = MaxSent + shardSize
    /\ Most + 2 * shardSize <= Half /\ Most < paws
<1>1. /\ dataShards \in Nat /\ parityShards \in Nat /\ rxlimit \in Nat
      /\ dataShards > 0 /\ parityShards > 0 /\ rxlimit >= shardSize
      /\ IdSpace \in Nat /\ paws > 0 /\ Start \in 0..(paws - 1) /\ Start % shardSize = 0
      /\ MaxSent \in Nat /\ MaxSent + 3 * shardSize <= Half
  BY ConstantsAssumption DEF ConstantsAssumption, Half
<1>2. shardSize \in Nat /\ shardSize = dataShards + parityShards /\ shardSize > 1
  BY <1>1 DEF shardSize
<1>3. paws = Rounds * shardSize
  BY DEF paws, Rounds
<1>4. Half \in Int /\ 2 * Half <= IdSpace /\ IdSpace <= 2 * Half + 1
  BY <1>1 DEF Half
<1>5. /\ Rounds \in Int /\ IdSpace - 1 = (Rounds + 1) * shardSize + ((IdSpace - 1) % shardSize)
      /\ (IdSpace - 1) % shardSize \in 0..(shardSize - 1)
  <2> DEFINE a == IdSpace - 1
  <2>1. a \in Int
    BY <1>1
  <2>2. /\ a \div shardSize \in Int /\ a % shardSize \in 0..(shardSize - 1)
        /\ a = (a \div shardSize) * shardSize + (a % shardSize)
    <3>1. shardSize \in Nat /\ shardSize > 0
      BY <1>2
    <3> HIDE DEF a
    <3> QED
      BY <2>1, <3>1, DivMod, Zenon
  <2>3. Rounds \in Int /\ Rounds + 1 = a \div shardSize
    BY <2>2 DEF Rounds
  <2> QED
    BY <2>2, <2>3
<1>6. paws \in Int /\ (Rounds + 1) * shardSize = paws + shardSize
  BY <1>2, <1>3, <1>5, Multiples
<1>7. paws < IdSpace /\ IdSpace - paws <= 2 * shardSize
  <2> DEFINE r == (IdSpace - 1) % shardSize
  <2>1. r \in 0..(shardSize - 1) /\ IdSpace - 1 = (paws + shardSize) + r
    BY <1>5, <1>6
  <2> HIDE DEF r
  <2> QED
    BY <1>1, <1>2, <1>6, <2>1
<1>8. Start \in Nat /\ Start < paws /\ paws \in Nat
  BY <1>1, <1>6
<1>9. StartRound \in Int /\ Start = StartRound * shardSize
  <2>1. /\ Start \div shardSize \in Int
        /\ Start = (Start \div shardSize) * shardSize + (Start % shardSize)
    BY <1>2, <1>8, DivMod
  <2>2. StartRound \in Int /\ Start = StartRound * shardSize + 0
    BY <1>1, <2>1 DEF StartRound
  <2>3. StartRound * shardSize \in Int
    BY <1>2, <2>2, Multiples
  <2> QED
    BY <2>2, <2>3
<1>10. Rounds >= 0 /\ StartRound >= 0 /\ StartRound < Rounds
  <2>1. 0 * shardSize = 0 /\ 0 \in Int
    BY <1>2
  <2>2. \A x, y \in Int : x < y => x * shardSize + shardSize <= y * shardSize
    BY <1>2, Multiples
  <2>3. Rounds < 0 => paws + shardSize <= 0
    <3>1. Rounds < 0 => Rounds * shardSize + shardSize <= 0 * shardSize
      BY <1>5, <2>1, <2>2
    <3> QED
      BY <1>3, <2>1, <3>1
  <2>4. StartRound < 0 => Start + shardSize <= 0
    BY <1>2, <1>9, <2>1, Multiples
  <2>5. Rounds < StartRound => paws + shardSize <= Start
    <3>1. Rounds < StartRound => Rounds * shardSize + shardSize <= StartRound * shardSize
      BY <1>5, <1>9, <2>2
    <3> QED
      BY <1>3, <1>9, <3>1
  <2>6. Rounds # StartRound
    BY <1>3, <1>8, <1>9
  <2> QED
    BY <1>2, <1>5, <1>6, <1>8, <1>9, <2>3, <2>4, <2>5, <2>6
<1>11. Most = MaxSent + shardSize /\ Most \in Nat /\ Most + 2 * shardSize <= Half
  BY <1>1, <1>2, <1>4 DEF Most
<1>12. Half \in Nat /\ Most < paws
  BY <1>1, <1>2, <1>4, <1>6, <1>7, <1>11
<1> QED
  BY <1>1, <1>2, <1>3, <1>4, <1>5, <1>7, <1>8, <1>9, <1>10, <1>11, <1>12

\* Seqids are numbers below paws.
LEMMA IdType ==
    ASSUME NEW n \in 1..(Most + 1)
    PROVE  Id(n) \in 0..(paws - 1) /\ Id(n) \in Nat /\ Id(n) \in 0..(IdSpace - 1)
BY Sizes DEF Id

\* The remainder of a number that is out of range by once the range at most.
LEMMA Remainder ==
    ASSUME NEW b \in Nat, b > 0, NEW x \in Int
    PROVE  /\ 0 <= x /\ x < b => x % b = x
           /\ x < 0 /\ 0 <= x + b => x % b = x + b
           /\ b <= x /\ x < 2 * b => x % b = x - b
<1>1. 0 * b = 0 /\ (-1) * b = -b /\ 1 * b = b
  OBVIOUS
<1>2. ASSUME 0 <= x, x < b PROVE x % b = x
  <2>1. x \in 0..(b - 1) /\ 0 * b + x = x
    BY <1>1, <1>2
  <2>2. (0 * b + x) % b = x
    BY <2>1, Quotient
  <2> QED
    BY <2>1, <2>2
<1>3. ASSUME x < 0, 0 <= x + b PROVE x % b = x + b
  <2>1. x + b \in 0..(b - 1) /\ (-1) * b + (x + b) = x
    BY <1>1, <1>3
  <2>2. ((-1) * b + (x + b)) % b = x + b
    BY <2>1, Quotient
  <2> QED
    BY <2>1, <2>2
<1>4. ASSUME b <= x, x < 2 * b PROVE x % b = x - b
  <2>1. x - b \in 0..(b - 1) /\ 1 * b + (x - b) = x
    BY <1>1, <1>4
  <2>2. (1 * b + (x - b)) % b = x - b
    BY <2>1, Quotient
  <2> QED
    BY <2>1, <2>2
<1> QED
  BY <1>2, <1>3, <1>4

\* _itimediff has the sign of the difference of the positions, also across the wrap.
LEMMA Signed ==
    ASSUME NEW m \in 1..Most, NEW n \in 1..Most
    PROVE  /\ Diff(Id(m), Id(n)) \in Int
           /\ Diff(Id(m), Id(n)) >= 0 <=> m >= n
           /\ Diff(Id(m), Id(n)) <= 0 <=> m <= n
           /\ Diff(Id(m), Id(n)) > 0 <=> m > n
<1> DEFINE d == Id(m) - Id(n)
           x == d + Half
<1>1. Diff(Id(m), Id(n)) = (x % IdSpace) - Half
  BY DEF Diff, Half
<1>2. x \in Int
  BY IdType, Sizes
<1>3. /\ x < 0 /\ 0 <= x + IdSpace => x % IdSpace = x + IdSpace
      /\ 0 <= x /\ x < IdSpace => x % IdSpace = x
      /\ IdSpace <= x /\ x < 2 * IdSpace => x % IdSpace = x - IdSpace
  <2> HIDE DEF x
  <2>1. IdSpace \in Nat /\ IdSpace > 0
    BY Sizes
  <2> QED
    BY <1>2, <2>1, Remainder
<1> DEFINE y == x % IdSpace
<1>4. Diff(Id(m), Id(n)) = y - Half
  BY <1>1
<1>5. /\ x < 0 /\ 0 <= x + IdSpace => y = x + IdSpace
      /\ 0 <= x /\ x < IdSpace => y = x
      /\ IdSpace <= x /\ x < 2 * IdSpace => y = x - IdSpace
  BY <1>3
<1>6. d = m - n \/ (m > n /\ d = (m - n) - paws) \/ (m < n /\ d = (m - n) + paws)
  BY Sizes DEF Id
<1>7. x = d + Half
  OBVIOUS
<1> HIDE DEF y, x, d
<1>8. CASE d = m - n
  <2>1. 0 <= x /\ x < IdSpace
    BY <1>7, <1>8, Sizes
  <2>2. y - Half = m - n
    BY <1>5, <1>7, <1>8, <2>1, Sizes
  <2> QED
    BY <1>4, <2>2
<1>9. CASE m > n /\ d = (m - n) - paws
  <2>1. x < 0 /\ 0 <= x + IdSpace
    BY <1>7, <1>9, Sizes
  <2>2. y - Half = (m - n) + (IdSpace - paws) /\ IdSpace - paws > 0 /\ y - Half \in Int
    BY <1>5, <1>7, <1>9, <2>1, Sizes
  <2>3. y - Half > 0
    BY <1>9, <2>2, Sizes
  <2> QED
    BY <1>4, <1>9, <2>2, <2>3
<1>10. CASE m < n /\ d = (m - n) + paws
  <2>1. IdSpace <= x /\ x < 2 * IdSpace
    BY <1>7, <1>10, Sizes
  <2>2. y - Half = (m - n) - (IdSpace - paws) /\ IdSpace - paws > 0 /\ y - Half \in Int
    BY <1>5, <1>7, <1>10, <2>1, Sizes
  <2>3. y - Half < 0
    BY <1>10, <2>2, Sizes
  <2> QED
    BY <1>4, <1>10, <2>2, <2>3
<1> QED
  BY <1>6, <1>8, <1>9, <1>10

\* Packets do not share a seqid.
LEMMA IdsDiffer ==
    ASSUME NEW m \in 1..Most, NEW n \in 1..Most, Id(m) = Id(n)
    PROVE  m = n
<1>1. Diff(Id(n), Id(n)) >= 0 /\ Diff(Id(n), Id(n)) <= 0
  BY Signed
<1>2. m >= n /\ m <= n
  BY <1>1, Signed
<1> QED
  BY <1>2

-----------------------------------------------------------------------------
(* Groups *)

\* The position of a packet in its group.
Pos(n) == (n - 1) % shardSize

\* A group is a run of shardSize packets.
LEMMA GroupOf ==
    ASSUME NEW n \in Nat, n > 0
    PROVE  /\ Group(n) \in Nat /\ Pos(n) \in 0..(shardSize - 1)
           /\ Group(n) * shardSize \in Nat
           /\ (Group(n) + 1) * shardSize = Group(n) * shardSize + shardSize
           /\ n = Group(n) * shardSize + Pos(n) + 1
           /\ \A g \in Nat : n \in Members(g) <=> Group(n) = g
<1>1. n - 1 \in Nat /\ shardSize \in Nat /\ shardSize > 0
  BY Sizes
<1> DEFINE a == n - 1
<1>2. /\ a \div shardSize \in Int /\ a % shardSize \in 0..(shardSize - 1)
      /\ a = (a \div shardSize) * shardSize + (a % shardSize)
  <2> HIDE DEF a
  <2> QED
    BY <1>1, DivMod DEF a
<1>3. /\ Group(n) \in Int /\ Pos(n) \in 0..(shardSize - 1)
      /\ a = Group(n) * shardSize + Pos(n)
  BY <1>2 DEF Group, Pos
<1>4. \A x, y \in Int : /\ x * shardSize \in Int /\ (x + 1) * shardSize = x * shardSize + shardSize
                        /\ x < y => x * shardSize + shardSize <= y * shardSize
  BY <1>1, Multiples
<1>5. n = Group(n) * shardSize + Pos(n) + 1
  BY <1>1, <1>3, <1>4
<1>6. Group(n) >= 0
  <2>1. 0 * shardSize = 0 /\ 0 \in Int
    BY <1>1
  <2>2. Group(n) < 0 => Group(n) * shardSize + shardSize <= 0
    BY <1>3, <1>4, <2>1
  <2> QED
    BY <1>1, <1>3, <1>4, <2>2
<1>7. ASSUME NEW g \in Nat PROVE n \in Members(g) <=> Group(n) = g
  <2>1. n \in Members(g) <=> g * shardSize + 1 <= n /\ n <= g * shardSize + shardSize
    BY <1>4 DEF Members
  <2>2. CASE Group(n) = g
    BY <1>1, <1>3, <1>4, <1>5, <2>1, <2>2
  <2>3. CASE Group(n) < g
    <3>1. Group(n) * shardSize + shardSize <= g * shardSize
      BY <1>3, <1>4, <2>3
    <3> QED
      BY <1>1, <1>3, <1>4, <1>5, <2>1, <2>3, <3>1
  <2>4. CASE g < Group(n)
    <3>1. g * shardSize + shardSize <= Group(n) * shardSize
      BY <1>3, <1>4, <2>4
    <3> QED
      BY <1>1, <1>3, <1>4, <1>5, <2>1, <2>4, <3>1
  <2> QED
    BY <1>3, <2>2, <2>3, <2>4
<1>8. Group(n) * shardSize \in Nat
  BY <1>1, <1>3, <1>6
<1> QED
  BY <1>3, <1>4, <1>5, <1>6, <1>7, <1>8

\* Where a seqid is in its group tells where the packet is in its.
LEMMA IdInGroup ==
    ASSUME NEW n \in 1..Most
    PROVE  /\ Id(n) % shardSize = Pos(n)
           /\ Id(n) - Pos(n) = Id(Group(n) * shardSize + 1)
           /\ Id(n) - Pos(n) + shardSize - 1 = Id((Group(n) + 1) * shardSize)
<1> DEFINE g == Group(n)
           p == Pos(n)
           k == StartRound + g
<1>1. /\ g \in Nat /\ p \in 0..(shardSize - 1) /\ g * shardSize \in Nat
      /\ (g + 1) * shardSize = g * shardSize + shardSize
      /\ n = g * shardSize + p + 1
  <2>1. n \in Nat /\ n > 0
    BY Sizes
  <2> QED
    BY <2>1, GroupOf
<1> HIDE DEF g, p
<1>2. shardSize \in Nat /\ shardSize > 0 /\ k \in Int /\ Rounds \in Int
  BY <1>1, Sizes
<1>3. k * shardSize \in Int /\ k * shardSize = Start + g * shardSize
  BY <1>1, <1>2, Sizes, Multiples
<1>4. (k - Rounds) * shardSize = k * shardSize - paws
  BY <1>2, Sizes, Multiples
<1>5. \A x, y \in Int : x < y => x * shardSize + shardSize <= y * shardSize
  BY <1>2, Multiples
<1> HIDE DEF k
<1>6. CASE k < Rounds
  <2>1. k * shardSize + shardSize <= paws
    <3>1. k * shardSize + shardSize <= Rounds * shardSize
      BY <1>2, <1>5, <1>6
    <3> QED
      BY <3>1, Sizes
  <2>2. /\ Id(n) = k * shardSize + p
        /\ Id(g * shardSize + 1) = k * shardSize
        /\ Id((g + 1) * shardSize) = k * shardSize + shardSize - 1
    BY <1>1, <1>2, <1>3, <2>1, Sizes DEF Id
  <2>3. Id(n) % shardSize = p
    BY <1>1, <1>2, <2>2, Quotient
  <2> QED
    BY <1>1, <1>2, <1>3, <2>2, <2>3 DEF g, p
<1>7. CASE k >= Rounds
  <2>1. k * shardSize >= paws
    <3>1. k = Rounds => k * shardSize = paws
      BY Sizes
    <3>2. Rounds < k => Rounds * shardSize + shardSize <= k * shardSize
      BY <1>2, <1>5
    <3> QED
      BY <1>2, <1>3, <1>7, <3>1, <3>2, Sizes
  <2>2. /\ Id(n) = (k - Rounds) * shardSize + p
        /\ Id(g * shardSize + 1) = k * shardSize - paws
        /\ Id((g + 1) * shardSize) = k * shardSize - paws + shardSize - 1
    BY <1>1, <1>2, <1>3, <1>4, <2>1, Sizes DEF Id
  <2>3. Id(n) % shardSize = p
    <3>1. k - Rounds \in Int
      BY <1>2
    <3> QED
      BY <1>1, <1>2, <2>2, <3>1, Quotient
  <2> QED
    BY <1>1, <1>2, <1>3, <1>4, <2>2, <2>3, Sizes DEF g, p
<1> QED
  BY <1>2, <1>6, <1>7

\* The bounds of the group of a packet that was sent are positions.
LEMMA GroupBounds ==
    ASSUME NEW n \in 1..MaxSent
    PROVE  /\ n \in 1..Most /\ n \in Nat /\ n > 0
           /\ Group(n) * shardSize + 1 \in 1..Most /\ (Group(n) + 1) * shardSize \in 1..Most
<1>1. n \in Nat /\ n > 0
  BY Sizes
<1>2. /\ Group(n) \in Nat /\ Pos(n) \in 0..(shardSize - 1) /\ Group(n) * shardSize \in Nat
      /\ (Group(n) + 1) * shardSize = Group(n) * shardSize + shardSize
      /\ n = Group(n) * shardSize + Pos(n) + 1
  BY <1>1, GroupOf
<1> QED
  BY <1>1, <1>2, Sizes

-----------------------------------------------------------------------------
(* The encoder *)

\* markParity counts on from any packet.
LEMMA MarkParityNext ==
    ASSUME NEW n \in 1..Most
    PROVE  MarkParity(Id(n)) = Id(n + 1)
<1>1. Id(n) + 1 \in Int /\ Id(n) + 1 <= paws /\ Id(n) + 1 > 0
  BY IdType, Sizes
<1>2. CASE Id(n) + 1 < paws
  <2>1. (Id(n) + 1) % paws = Id(n) + 1
    BY <1>1, <1>2, Sizes, Remainder
  <2>2. Id(n + 1) = Id(n) + 1
    BY <1>2, Sizes DEF Id
  <2> QED
    BY <2>1, <2>2 DEF MarkParity
<1>3. CASE Id(n) + 1 = paws
  <2>1. (Id(n) + 1) % paws = (Id(n) + 1) - paws
    BY <1>1, <1>3, Sizes, Remainder
  <2>2. Id(n + 1) = 0
    BY <1>3, Sizes DEF Id
  <2> QED
    BY <1>3, <2>1, <2>2, Sizes DEF MarkParity
<1> QED
  BY <1>1, <1>2, <1>3, Sizes

\* markData counts on from a data packet: seqid never wraps there.
LEMMA MarkDataNext ==
    ASSUME NEW n \in 1..Most, Pos(n) < dataShards
    PROVE  MarkData(Id(n)) = Id(n + 1)
<1>1. Id(n) + 1 \in Int /\ Id(n) + 1 <= paws /\ Id(n) + 1 > 0
  BY IdType, Sizes
<1>2. Id(n) + 1 # paws
  <2>1. SUFFICES ASSUME Id(n) + 1 = paws PROVE FALSE
    OBVIOUS
  <2>2. Id(n) = (Rounds - 1) * shardSize + (shardSize - 1)
    <3>1. (Rounds - 1) * shardSize = Rounds * shardSize - 1 * shardSize
      BY Sizes, Multiples
    <3>2. 1 * shardSize = shardSize
      BY Sizes
    <3> QED
      BY <1>1, <2>1, <3>1, <3>2, Sizes, IdType
  <2>3. ((Rounds - 1) * shardSize + (shardSize - 1)) % shardSize = shardSize - 1
    <3>1. /\ Rounds - 1 \in Int /\ shardSize - 1 \in 0..(shardSize - 1)
          /\ shardSize \in Nat /\ shardSize > 0
      BY Sizes
    <3> QED
      BY <3>1, Quotient
  <2>4. Pos(n) = shardSize - 1
    BY <2>2, <2>3, IdInGroup
  <2> QED
    BY <2>4, Sizes
<1>3. (Id(n) + 1) % IdSpace = Id(n) + 1
  BY <1>1, Sizes, Remainder
<1>4. Id(n + 1) = Id(n) + 1
  BY <1>1, <1>2, Sizes DEF Id
<1> QED
  BY <1>3, <1>4 DEF MarkData

\* A set of numbers that is not empty has a least one.
LEMMA LeastNumber ==
    ASSUME NEW S, S \subseteq Nat, S # {}
    PROVE  \E n \in S : \A m \in S : n <= m
<1>1. IsWellFoundedOn(OpToRel(<, Nat), Nat)
  BY NatLessThanWellFounded
<1>2. PICK n \in S : \A m \in S : <<m, n>> \notin OpToRel(<, Nat)
  BY <1>1, WFMin
<1>3. \A m \in S : ~(m < n)
  BY <1>2 DEF OpToRel
<1> QED
  BY <1>3

\* The parity packets of a group take the seqids that follow.
LEMMA ParityIdsAre ==
    ASSUME NEW n \in 1..Most, n + parityShards <= Most + 1
    PROVE  \A k \in 1..parityShards : ParityIds(Id(n))[k] = Id(n + k - 1)
<1> DEFINE Is(f) == f = [k \in 1..parityShards |-> IF k = 1 THEN Id(n) ELSE MarkParity(f[k - 1])]
           w == [k \in 1..parityShards |-> Id(n + k - 1)]
<1>1. n \in Nat /\ parityShards \in Nat /\ parityShards > 0 /\ Most \in Nat
  BY Sizes
<1>2. \A k \in 1..parityShards : k # 1 => MarkParity(Id(n + (k - 1) - 1)) = Id(n + k - 1)
  <2>1. TAKE k \in 1..parityShards
  <2>2. SUFFICES ASSUME k # 1 PROVE MarkParity(Id(n + (k - 1) - 1)) = Id(n + k - 1)
    OBVIOUS
  <2>3. n + (k - 1) - 1 \in 1..Most /\ (n + (k - 1) - 1) + 1 = n + k - 1
    BY <1>1, <2>2
  <2> QED
    BY <2>3, MarkParityNext
<1>3. n + 1 - 1 = n
  BY <1>1
<1>4. Is(w)
  <2>1. ASSUME NEW k \in 1..parityShards
        PROVE  w[k] = IF k = 1 THEN Id(n) ELSE MarkParity(w[k - 1])
    <3>1. CASE k = 1
      BY <1>3, <3>1
    <3>2. CASE k # 1
      <4>1. k - 1 \in 1..parityShards
        BY <1>1, <3>2
      <4> QED
        BY <1>2, <3>2, <4>1
    <3> QED
      BY <3>1, <3>2
  <2>2. w = [k \in 1..parityShards |-> w[k]]
    OBVIOUS
  <2> HIDE DEF w
  <2> QED
    BY <2>1, <2>2
<1> DEFINE g == CHOOSE f : Is(f)
<1>5. Is(g)
  BY <1>4
<1>6. ParityIds(Id(n)) = g
  BY DEF ParityIds
<1>7. \A k \in 1..parityShards : g[k] = IF k = 1 THEN Id(n) ELSE MarkParity(g[k - 1])
  <2> HIDE DEF g
  <2> QED
    BY <1>5
<1> HIDE DEF g, w, Is
<1> DEFINE Bad == {k \in 1..parityShards : g[k] # Id(n + k - 1)}
<1>8. Bad = {}
  <2>1. SUFFICES ASSUME Bad # {} PROVE FALSE
    OBVIOUS
  <2>2. PICK k \in Bad : \A m \in Bad : k <= m
    <3>1. Bad \subseteq Nat
      OBVIOUS
    <3> HIDE DEF Bad
    <3> QED
      BY <2>1, <3>1, LeastNumber
  <2>3. k \in 1..parityShards /\ k # 1 /\ k - 1 \in 1..parityShards
    BY <1>1, <1>3, <1>7, <2>2
  <2>4. k - 1 \notin Bad
    <3>1. ~(k <= k - 1)
      BY <2>3
    <3> HIDE DEF Bad
    <3> QED
      BY <2>2, <3>1
  <2>5. g[k - 1] = Id(n + (k - 1) - 1)
    BY <2>3, <2>4
  <2>6. g[k] = Id(n + k - 1)
    BY <1>2, <1>7, <2>3, <2>5
  <2> QED
    BY <2>2, <2>6
<1> QED
  BY <1>6, <1>8

\* Packet n of the encoder.
PacketOf(n) == [seqid |-> Id(n), data |-> Pos(n) < dataShards]

\* The encoder is shardCount data packets into a group, and what it sent follows from the
\* positions.
Coded ==
    /\ shardCount \in 0..(dataShards - 1)
    /\ sent \in Seq(Packet) /\ Len(sent) <= MaxSent
    /\ \E g \in Nat : Len(sent) = g * shardSize + shardCount
    /\ next = Id(Len(sent) + 1)
    /\ \A n \in 1..Len(sent) : sent[n] = PacketOf(n)

\* Where a packet is, given its group.
LEMMA PosIs ==
    ASSUME NEW g \in Nat, NEW p \in 0..(shardSize - 1)
    PROVE  /\ g * shardSize \in Nat /\ g * shardSize + p + 1 \in Nat
           /\ Pos(g * shardSize + p + 1) = p /\ Group(g * shardSize + p + 1) = g
<1>1. g * shardSize \in Nat
  BY Sizes
<1>2. (g * shardSize + p) % shardSize = p /\ (g * shardSize + p) \div shardSize = g
  BY Sizes, Quotient
<1>3. (g * shardSize + p + 1) - 1 = g * shardSize + p
  BY <1>1, Sizes
<1> QED
  BY <1>1, <1>2, <1>3, Sizes DEF Pos, Group

\* Its type, and its two kinds.
LEMMA PacketTyped ==
    ASSUME NEW n \in 1..(Most + 1)
    PROVE  /\ PacketOf(n) \in Packet /\ PacketOf(n).seqid = Id(n)
           /\ PacketOf(n).data <=> Pos(n) < dataShards
           /\ Pos(n) < dataShards => PacketOf(n) = [seqid |-> Id(n), data |-> TRUE]
           /\ ~(Pos(n) < dataShards) => PacketOf(n) = [seqid |-> Id(n), data |-> FALSE]
<1>1. Id(n) \in 0..(IdSpace - 1)
  BY IdType
<1>2. CASE Pos(n) < dataShards
  <2>1. (Pos(n) < dataShards) = TRUE
    BY <1>2
  <2>2. PacketOf(n) = [seqid |-> Id(n), data |-> TRUE]
    BY <2>1, Zenon DEF PacketOf
  <2> QED
    BY <1>1, <1>2, <2>2 DEF Packet
<1>3. CASE ~(Pos(n) < dataShards)
  <2>1. (Pos(n) < dataShards) = FALSE
    BY <1>3
  <2>2. PacketOf(n) = [seqid |-> Id(n), data |-> FALSE]
    BY <2>1, Zenon DEF PacketOf
  <2> QED
    BY <1>1, <1>3, <2>2 DEF Packet
<1> QED
  BY <1>2, <1>3

\* The packets of a call of encode are the next ones of the sequence.
LEMMA EncodeKeeps ==
    ASSUME Coded, Encode
    PROVE  /\ Coded'
           /\ Len(sent') >= Len(sent)
           /\ \A n \in 1..Len(sent) : sent'[n] = sent[n]
           /\ net \subseteq 1..Len(sent) => net' \subseteq 1..Len(sent')
<1> DEFINE n0 == Len(sent) + 1
           packet == [seqid |-> next, data |-> TRUE]
           full == shardCount + 1 = dataShards
           ids == ParityIds(MarkData(next))
           parity == [k \in 1..parityShards |-> [seqid |-> ids[k], data |-> FALSE]]
           all == sent \o <<packet>> \o (IF full THEN parity ELSE <<>>)
<1>1. /\ Len(all) <= MaxSent /\ sent' = all
      /\ next' = IF full THEN MarkParity(ids[parityShards]) ELSE MarkData(next)
      /\ shardCount' = Collected(shardCount)
      /\ net' \subseteq net \cup (Len(sent) + 1)..Len(all)
  BY DEF Encode
<1>2. PICK g \in Nat : Len(sent) = g * shardSize + shardCount
  BY DEF Coded
<1>3. /\ shardCount \in 0..(dataShards - 1) /\ shardCount \in 0..(shardSize - 1)
      /\ sent \in Seq(Packet) /\ Len(sent) \in Nat /\ Len(sent) <= MaxSent
      /\ g * shardSize \in Nat /\ n0 \in Nat /\ n0 = g * shardSize + shardCount + 1
      /\ n0 \in 1..Most
  BY <1>2, Sizes DEF Coded
<1>4. Pos(n0) = shardCount /\ Pos(n0) < dataShards
  <2>1. Pos(g * shardSize + shardCount + 1) = shardCount
    BY <1>3, PosIs
  <2> QED
    BY <1>3, <2>1, Sizes
<1>5. next = Id(n0) /\ MarkData(next) = Id(n0 + 1)
  BY <1>3, <1>4, MarkDataNext DEF Coded
<1>6. packet = PacketOf(n0) /\ packet \in Packet
  <2>1. n0 \in 1..(Most + 1)
    BY <1>3, Sizes
  <2> QED
    BY <1>4, <1>5, <2>1, PacketTyped
<1> DEFINE s1 == sent \o <<packet>>
<1>7. /\ s1 \in Seq(Packet) /\ Len(s1) = n0
      /\ \A n \in 1..Len(sent) : s1[n] = sent[n]
      /\ \A n \in 1..n0 : s1[n] = PacketOf(n)
  <2>1. s1 \in Seq(Packet) /\ Len(s1) = n0
    BY <1>3, <1>6
  <2>2. \A n \in 1..Len(sent) : s1[n] = sent[n]
    BY <1>3, <1>6
  <2>3. s1[n0] = packet
    BY <1>3, <1>6
  <2>4. \A n \in 1..n0 : n = n0 \/ n \in 1..Len(sent)
    BY <1>3
  <2> HIDE DEF s1, packet
  <2> QED
    BY <1>6, <2>1, <2>2, <2>3, <2>4 DEF Coded
<1> HIDE DEF packet
<1>8. Len(sent) + 1 = n0
  OBVIOUS
<1>9. CASE ~full
  <2>1. all = s1
    BY <1>7, <1>9
  <2>2. shardCount' = shardCount + 1 /\ shardCount' \in 0..(dataShards - 1)
    BY <1>1, <1>3, <1>9, Sizes DEF Collected
  <2>3. Len(sent') = g * shardSize + shardCount' /\ Len(sent') = n0 /\ sent' = s1
    BY <1>1, <1>3, <1>7, <2>1, <2>2
  <2> HIDE DEF s1, all
  <2>4. next' = Id(Len(sent') + 1)
    BY <1>1, <1>5, <1>9, <2>3
  <2>5. Coded'
    BY <1>1, <1>3, <1>7, <2>1, <2>2, <2>3, <2>4 DEF Coded
  <2>6. net \subseteq 1..Len(sent) => net' \subseteq 1..Len(sent')
    BY <1>1, <1>3, <2>1, <2>3
  <2> QED
    BY <1>3, <1>7, <2>3, <2>5, <2>6
<1>10. CASE full
  <2> DEFINE m == n0 + parityShards
  <2>1. m \in Nat /\ n0 + 1 \in 1..Most /\ (n0 + 1) + parityShards <= Most + 1
    BY <1>3, Sizes
  <2>2. \A k \in 1..parityShards : ids[k] = Id((n0 + 1) + k - 1)
    BY <1>5, <2>1, ParityIdsAre
  <2>3. \A k \in 1..parityShards : parity[k] = PacketOf(n0 + k) /\ PacketOf(n0 + k) \in Packet
    <3>1. TAKE k \in 1..parityShards
    <3>2. /\ (n0 + 1) + k - 1 = n0 + k /\ n0 + k \in 1..(Most + 1)
          /\ n0 + k = g * shardSize + (shardCount + k) + 1
      BY <1>3, <2>1, Sizes
    <3>3. Pos(n0 + k) = shardCount + k
      <4>1. shardCount + k \in 0..(shardSize - 1)
        BY <1>3, <1>10, Sizes
      <4>2. Pos(g * shardSize + (shardCount + k) + 1) = shardCount + k
        BY <4>1, PosIs
      <4> QED
        BY <3>2, <4>2
    <3>4. ~(Pos(n0 + k) < dataShards)
      BY <1>3, <1>10, <3>3, Sizes
    <3>5. parity[k] = [seqid |-> Id(n0 + k), data |-> FALSE]
      BY <2>2, <3>2
    <3> QED
      BY <3>2, <3>4, <3>5, PacketTyped
  <2>4. parity \in Seq(Packet) /\ Len(parity) = parityShards
    <3>1. parity = [k \in 1..parityShards |-> parity[k]]
      OBVIOUS
    <3> HIDE DEF parity
    <3>2. parity \in [1..parityShards -> Packet]
      BY <2>3, <3>1
    <3> QED
      BY <3>2, Sizes
  <2>5. all = s1 \o parity
    BY <1>10
  <2> HIDE DEF parity
  <2>6. /\ s1 \o parity \in Seq(Packet) /\ Len(s1 \o parity) = n0 + parityShards
        /\ \A n \in 1..(n0 + parityShards) :
              (s1 \o parity)[n] = IF n <= n0 THEN s1[n] ELSE parity[n - n0]
    <3>1. s1 \in Seq(Packet) /\ Len(s1) = n0
      BY <1>7
    <3> HIDE DEF s1, n0
    <3>2. /\ s1 \o parity \in Seq(Packet) /\ Len(s1 \o parity) = Len(s1) + Len(parity)
          /\ \A n \in 1..(Len(s1) + Len(parity)) :
                (s1 \o parity)[n] = IF n <= Len(s1) THEN s1[n] ELSE parity[n - Len(s1)]
      BY <2>4, <3>1, ConcatProperties
    <3> QED
      BY <2>4, <3>1, <3>2
  <2> HIDE DEF all
  <2>7. \A n \in 1..m : all[n] = PacketOf(n)
    <3>1. TAKE n \in 1..m
    <3>2. CASE n <= n0
      <4>1. n \in 1..n0
        BY <1>3, <3>2
      <4> HIDE DEF s1
      <4> QED
        BY <1>7, <2>5, <2>6, <3>2, <4>1
    <3>3. CASE ~(n <= n0)
      <4>1. n - n0 \in 1..parityShards /\ n0 + (n - n0) = n
        BY <1>3, <3>3, Sizes
      <4>2. parity[n - n0] = PacketOf(n)
        BY <2>3, <4>1
      <4> HIDE DEF s1
      <4> QED
        BY <2>5, <2>6, <3>3, <4>2
    <3> QED
      BY <3>2, <3>3
  <2>8. all \in Seq(Packet) /\ Len(all) = m /\ m <= MaxSent
    <3> HIDE DEF s1
    <3> QED
      BY <1>1, <2>5, <2>6
  <2>9. shardCount' = 0 /\ 0 \in 0..(dataShards - 1)
    BY <1>1, <1>10, Sizes DEF Collected
  <2>10. Len(sent') = (g + 1) * shardSize + shardCount' /\ Len(sent') = m /\ sent' = all
    <3>1. (g + 1) * shardSize = g * shardSize + shardSize
      BY Sizes
    <3> HIDE DEF all
    <3> QED
      BY <1>1, <1>3, <1>10, <2>8, <2>9, <3>1, Sizes
  <2>11. next' = Id(Len(sent') + 1)
    <3>1. parityShards \in 1..parityShards /\ (n0 + 1) + parityShards - 1 = m /\ m \in 1..Most
      BY <1>3, <2>1, <2>8, Sizes
    <3>2. ids[parityShards] = Id(m)
      BY <2>2, <3>1
    <3>3. MarkParity(Id(m)) = Id(m + 1)
      BY <3>1, MarkParityNext
    <3> HIDE DEF all, m, ids
    <3> QED
      BY <1>1, <1>10, <2>10, <3>2, <3>3
  <2> HIDE DEF all
  <2>12. Coded'
    <3>1. g + 1 \in Nat
      OBVIOUS
    <3> QED
      BY <2>7, <2>8, <2>9, <2>10, <2>11, <3>1 DEF Coded
  <2>13. net \subseteq 1..Len(sent) => net' \subseteq 1..Len(sent')
    BY <1>1, <1>3, <2>8, <2>10, Sizes
  <2>14. \A n \in 1..Len(sent) : sent'[n] = sent[n]
    <3>1. TAKE n \in 1..Len(sent)
    <3>2. n \in 1..(n0 + parityShards) /\ n <= n0
      BY <1>3, Sizes
    <3> HIDE DEF n0, s1
    <3> QED
      BY <1>7, <2>5, <2>6, <2>10, <3>2
  <2>15. Len(sent') >= Len(sent)
    BY <1>3, <2>10, Sizes
  <2> QED
    BY <2>12, <2>13, <2>14, <2>15
<1> QED
  BY <1>9, <1>10

-----------------------------------------------------------------------------
(* Queues: sequences of numbers that increase *)

Increasing(q) == \A i, j \in 1..Len(q) : i < j => q[i] < q[j]

\* The largest and the least of a set of places.
LEMMA MaxIs ==
    ASSUME NEW n \in Nat, NEW S, S \subseteq 1..n, S # {}
    PROVE  /\ Max(S) \in S /\ \A k \in S : k <= Max(S)
           /\ Min(S) \in S /\ \A k \in S : Min(S) <= k
<1>1. PICK a \in {n - k : k \in S} : \A b \in {n - k : k \in S} : a <= b
  <2>1. {n - k : k \in S} \subseteq Nat /\ {n - k : k \in S} # {}
    <3>1. \A k \in S : n - k \in Nat
      OBVIOUS
    <3> QED
      BY <3>1
  <2> QED
    BY <2>1, LeastNumber
<1>2. PICK m \in S : a = n - m
  OBVIOUS
<1>3. \A k \in S : k <= m /\ m \in Int
  <2>1. \A k \in S : n - m <= n - k
    BY <1>1, <1>2
  <2> QED
    BY <2>1
<1>4. \E x \in S : \A y \in S : x >= y
  BY <1>3
<1>5. Max(S) \in S /\ \A k \in S : Max(S) >= k
  BY <1>4, Zenon DEF Max
<1>6. \E x \in S : \A y \in S : x =< y
  <2>1. S \subseteq Nat
    OBVIOUS
  <2> QED
    BY <2>1, LeastNumber
<1>7. Min(S) \in S /\ \A k \in S : Min(S) =< k
  BY <1>6, Zenon DEF Min
<1> QED
  BY <1>5, <1>7

\* Numbers that increase along places differ by as much as the places at least.
LEMMA Spread ==
    ASSUME NEW q \in Seq(Nat), Increasing(q),
           NEW i \in 1..Len(q), NEW j \in 1..Len(q), i <= j
    PROVE  q[i] \in Nat /\ q[j] \in Nat /\ j - i <= q[j] - q[i]
<1> DEFINE Bad == {k \in 0..(Len(q) - i) : ~(k <= q[i + k] - q[i])}
<1>1. Len(q) \in Nat /\ \A k \in 1..Len(q) : q[k] \in Nat
  OBVIOUS
<1>2. Bad = {}
  <2>1. SUFFICES ASSUME Bad # {} PROVE FALSE
    OBVIOUS
  <2>2. PICK k \in Bad : \A m \in Bad : k <= m
    <3>1. Bad \subseteq Nat
      OBVIOUS
    <3> HIDE DEF Bad
    <3> QED
      BY <2>1, <3>1, LeastNumber
  <2>3. k \in 0..(Len(q) - i) /\ ~(k <= q[i + k] - q[i])
    OBVIOUS
  <2>4. k # 0
    <3>1. i + 0 = i
      OBVIOUS
    <3> QED
      BY <1>1, <2>3, <3>1
  <2>5. k - 1 \in 0..(Len(q) - i)
    BY <1>1, <2>3, <2>4
  <2>6. k - 1 \notin Bad
    <3>1. ~(k <= k - 1)
      BY <2>3
    <3> HIDE DEF Bad
    <3> QED
      BY <2>2, <3>1
  <2>7. k - 1 <= q[i + (k - 1)] - q[i]
    BY <2>5, <2>6
  <2>8. i + (k - 1) \in 1..Len(q) /\ i + k \in 1..Len(q) /\ i + (k - 1) < i + k
    BY <1>1, <2>3, <2>4
  <2>9. q[i + (k - 1)] < q[i + k]
    BY <2>8 DEF Increasing
  <2> DEFINE x == q[i]
             y == q[i + (k - 1)]
             z == q[i + k]
  <2>10. x \in Nat /\ y \in Nat /\ z \in Nat /\ k \in Nat
    BY <1>1, <2>3, <2>8
  <2>11. k - 1 <= y - x /\ y < z /\ ~(k <= z - x)
    BY <2>3, <2>7, <2>9
  <2> HIDE DEF x, y, z
  <2> QED
    BY <2>10, <2>11
<1>3. j - i \in 0..(Len(q) - i) /\ i + (j - i) = j
  BY <1>1
<1> QED
  BY <1>1, <1>2, <1>3

\* The numbers in a queue.
LEMMA RangeIs ==
    ASSUME NEW q \in Seq(Nat)
    PROVE  /\ Range(q) = {q[k] : k \in 1..Len(q)} /\ Range(q) \subseteq Nat
           /\ Len(q) \in Nat /\ \A k \in 1..Len(q) : q[k] \in Nat
BY DEF Range

\* The numbers of a queue after place b.
LEMMA RestOf ==
    ASSUME NEW q \in Seq(Nat), NEW b \in 0..Len(q)
    PROVE  /\ SubSeq(q, b + 1, Len(q)) \in Seq(Nat)
           /\ Len(SubSeq(q, b + 1, Len(q))) = Len(q) - b
           /\ \A k \in 1..(Len(q) - b) : SubSeq(q, b + 1, Len(q))[k] = q[b + k]
<1> DEFINE c == b + 1
           L == Len(q)
<1>1. L \in Nat /\ b \in Nat /\ b <= L /\ \A k \in 1..L : q[k] \in Nat
  OBVIOUS
<1>2. /\ c \in Int /\ L \in Int /\ (IF c <= L THEN L - c + 1 ELSE 0) = L - b /\ L - c + 1 = L - b
      /\ \A k \in c..L : q[k] \in Nat
      /\ \A k \in 1..(L - b) : c + k - 1 = b + k
  BY <1>1
<1> HIDE DEF c, L
<1>3. /\ SubSeq(q, c, L) \in Seq(Nat) /\ Len(SubSeq(q, c, L)) = L - b
      /\ \A k \in 1..(L - b) : SubSeq(q, c, L)[k] = q[c + k - 1]
  BY <1>2, SubSeqProperties
<1>4. \A k \in 1..(L - b) : SubSeq(q, c, L)[k] = q[b + k]
  BY <1>2, <1>3
<1> QED
  BY <1>3, <1>4 DEF c, L

\* A number put where it belongs.
LEMMA Inserted ==
    ASSUME NEW q \in Seq(Nat), Increasing(q), NEW n \in Nat, NEW i \in 0..Len(q),
           \A j \in 1..i : q[j] < n, \A j \in (i + 1)..Len(q) : n < q[j]
    PROVE  /\ InsertAt(q, i + 1, n) \in Seq(Nat) /\ Len(InsertAt(q, i + 1, n)) = Len(q) + 1
           /\ InsertAt(q, i + 1, n)[i + 1] = n
           /\ Increasing(InsertAt(q, i + 1, n))
           /\ Range(InsertAt(q, i + 1, n)) = Range(q) \cup {n}
<1> DEFINE front == SubSeq(q, 1, i)
           rest == SubSeq(q, i + 1, Len(q))
           r == front \o <<n>> \o rest
           L == Len(q)
<1>1. L \in Nat /\ i \in 0..L /\ \A k \in 1..L : q[k] \in Nat
  OBVIOUS
<1>2. InsertAt(q, i + 1, n) = r
  <2>1. (i + 1) - 1 = i
    BY <1>1
  <2> QED
    BY <2>1 DEF InsertAt
<1>3. front \in Seq(Nat) /\ Len(front) = i /\ \A k \in 1..i : front[k] = q[k]
  <2>1. \A k \in 1..i : q[k] \in Nat
    BY <1>1
  <2> QED
    BY <1>1, <2>1, SubSeqProperties
<1>4. rest \in Seq(Nat) /\ Len(rest) = L - i /\ \A k \in 1..(L - i) : rest[k] = q[i + k]
  BY RestOf
<1> HIDE DEF front, rest, L
<1>5. /\ front \o <<n>> \in Seq(Nat) /\ Len(front \o <<n>>) = i + 1
      /\ \A k \in 1..(i + 1) : (front \o <<n>>)[k] = IF k <= i THEN front[k] ELSE n
  <2>1. <<n>> \in Seq(Nat) /\ Len(<<n>>) = 1 /\ <<n>>[1] = n
    OBVIOUS
  <2>2. /\ front \o <<n>> \in Seq(Nat) /\ Len(front \o <<n>>) = i + 1
        /\ \A k \in 1..(i + 1) : (front \o <<n>>)[k] = IF k <= i THEN front[k] ELSE <<n>>[k - i]
    BY <1>1, <1>3, <2>1, ConcatProperties
  <2>3. \A k \in 1..(i + 1) : ~(k <= i) => k - i = 1
    BY <1>1
  <2> QED
    BY <2>1, <2>2, <2>3
<1>6. /\ r \in Seq(Nat) /\ Len(r) = L + 1
      /\ \A k \in 1..(L + 1) : r[k] = IF k <= i + 1 THEN (front \o <<n>>)[k] ELSE rest[k - (i + 1)]
  <2> DEFINE f1 == front \o <<n>>
  <2>1. f1 \in Seq(Nat) /\ Len(f1) = i + 1 /\ (i + 1) + (L - i) = L + 1
    BY <1>1, <1>5
  <2>2. r = f1 \o rest
    OBVIOUS
  <2> HIDE DEF f1
  <2>3. /\ f1 \o rest \in Seq(Nat) /\ Len(f1 \o rest) = Len(f1) + Len(rest)
        /\ \A k \in 1..(Len(f1) + Len(rest)) :
              (f1 \o rest)[k] = IF k <= Len(f1) THEN f1[k] ELSE rest[k - Len(f1)]
    BY <1>4, <2>1, ConcatProperties
  <2>4. /\ r \in Seq(Nat) /\ Len(r) = L + 1
        /\ \A k \in 1..(L + 1) : r[k] = IF k <= i + 1 THEN f1[k] ELSE rest[k - (i + 1)]
    <3> HIDE DEF r
    <3> QED
      BY <1>4, <2>1, <2>2, <2>3
  <2> QED
    BY <2>4 DEF f1
<1> HIDE DEF r
<1>7. \A k \in 1..(L + 1) : r[k] = IF k <= i THEN q[k] ELSE IF k = i + 1 THEN n ELSE q[k - 1]
  <2>1. TAKE k \in 1..(L + 1)
  <2>2. CASE k <= i
    <3>1. k \in 1..i /\ k \in 1..(i + 1) /\ k <= i + 1
      BY <1>1, <2>2
    <3> QED
      BY <1>3, <1>5, <1>6, <2>2, <3>1
  <2>3. CASE k = i + 1
    <3>1. ~(k <= i) /\ k \in 1..(i + 1) /\ k <= i + 1
      BY <1>1, <2>3
    <3> QED
      BY <1>5, <1>6, <2>3, <3>1
  <2>4. CASE k > i + 1
    <3>1. /\ ~(k <= i) /\ ~(k <= i + 1) /\ k # i + 1
          /\ k - (i + 1) \in 1..(L - i) /\ i + (k - (i + 1)) = k - 1
      BY <1>1, <2>4
    <3> QED
      BY <1>4, <1>6, <3>1
  <2> QED
    BY <1>1, <2>2, <2>3, <2>4
<1>8. i + 1 \in 1..(L + 1) /\ r[i + 1] = n
  <2>1. i + 1 \in 1..(L + 1) /\ ~(i + 1 <= i)
    BY <1>1
  <2> QED
    BY <1>7, <2>1
<1>9. Increasing(r)
  <2>1. SUFFICES ASSUME NEW a \in 1..(L + 1), NEW b \in 1..(L + 1), a < b PROVE r[a] < r[b]
    BY <1>6 DEF Increasing
  <2>2. \A j \in 1..i : q[j] < n /\ j \in 1..L
    BY <1>1
  <2>3. \A j \in (i + 1)..L : n < q[j] /\ j \in 1..L
    BY <1>1 DEF L
  <2>4. \A x, y \in 1..L : x < y => q[x] < q[y]
    BY DEF L, Increasing
  <2>5. CASE b <= i
    BY <1>1, <1>7, <2>1, <2>4, <2>5
  <2>6. CASE b = i + 1
    BY <1>1, <1>7, <2>1, <2>2, <2>6
  <2>7. CASE b > i + 1
    <3>1. r[b] = q[b - 1] /\ b - 1 \in (i + 1)..L /\ b - 1 \in 1..L
      BY <1>1, <1>7, <2>7
    <3>2. CASE a <= i
      BY <1>1, <1>7, <2>4, <3>1, <3>2
    <3>3. CASE a = i + 1
      BY <1>7, <1>8, <2>3, <3>1, <3>3
    <3>4. CASE a > i + 1
      <4>1. r[a] = q[a - 1] /\ a - 1 \in 1..L /\ a - 1 < b - 1
        BY <1>1, <1>7, <2>1, <3>4
      <4> QED
        BY <2>4, <3>1, <4>1
    <3> QED
      BY <1>1, <3>2, <3>3, <3>4
  <2> QED
    BY <1>1, <2>5, <2>6, <2>7
<1>10. Range(r) = Range(q) \cup {n}
  <2>1. Range(r) = {r[k] : k \in 1..(L + 1)} /\ Range(q) = {q[k] : k \in 1..L}
    BY <1>6, RangeIs DEF L
  <2>2. ASSUME NEW k \in 1..(L + 1) PROVE r[k] \in Range(q) \cup {n}
    <3>1. CASE k <= i
      <4>1. k \in 1..L
        BY <1>1, <3>1
      <4> QED
        BY <1>7, <2>1, <3>1, <4>1
    <3>2. CASE k = i + 1
      BY <1>8, <3>2
    <3>3. CASE k > i + 1
      <4>1. k - 1 \in 1..L /\ ~(k <= i) /\ k # i + 1
        BY <1>1, <3>3
      <4> QED
        BY <1>7, <2>1, <4>1
    <3> QED
      BY <1>1, <3>1, <3>2, <3>3
  <2>3. ASSUME NEW k \in 1..L PROVE q[k] \in Range(r)
    <3>1. CASE k <= i
      <4>1. k \in 1..(L + 1) /\ r[k] = q[k]
        BY <1>1, <1>7, <3>1
      <4> QED
        BY <2>1, <4>1
    <3>2. CASE k > i
      <4>1. k + 1 \in 1..(L + 1) /\ ~(k + 1 <= i) /\ k + 1 # i + 1 /\ (k + 1) - 1 = k
        BY <1>1, <3>2
      <4>2. r[k + 1] = q[k]
        BY <1>7, <4>1
      <4> QED
        BY <2>1, <4>1, <4>2
    <3> QED
      BY <1>1, <3>1, <3>2
  <2>4. n \in Range(r)
    BY <1>8, <2>1
  <2> QED
    BY <2>1, <2>2, <2>3, <2>4
<1> QED
  BY <1>2, <1>6, <1>8, <1>9, <1>10 DEF L

\* A queue without the numbers from one place to another.
LEMMA CutOut ==
    ASSUME NEW q \in Seq(Nat), Increasing(q), NEW a \in 0..Len(q), NEW b \in a..Len(q)
    PROVE  LET r == SubSeq(q, 1, a) \o SubSeq(q, b + 1, Len(q)) IN
           /\ r \in Seq(Nat) /\ Len(r) = Len(q) - (b - a) /\ Increasing(r)
           /\ Range(r) = {q[k] : k \in 1..a \cup (b + 1)..Len(q)}
<1> DEFINE front == SubSeq(q, 1, a)
           rest == SubSeq(q, b + 1, Len(q))
           r == front \o rest
           L == Len(q)
           d == b - a
<1>1. /\ L \in Nat /\ a \in 0..L /\ b \in a..L /\ b \in Nat /\ b <= L
      /\ d \in 0..L /\ L - d \in Nat /\ \A k \in 1..L : q[k] \in Nat
  OBVIOUS
<1>2. front \in Seq(Nat) /\ Len(front) = a /\ \A k \in 1..a : front[k] = q[k]
  <2>1. \A k \in 1..a : q[k] \in Nat
    BY <1>1
  <2> QED
    BY <1>1, <2>1, SubSeqProperties
<1>3. rest \in Seq(Nat) /\ Len(rest) = L - b /\ \A k \in 1..(L - b) : rest[k] = q[b + k]
  BY RestOf
<1> HIDE DEF front, rest, L
<1>4. /\ r \in Seq(Nat) /\ Len(r) = L - d
      /\ \A k \in 1..(L - d) : r[k] = IF k <= a THEN front[k] ELSE rest[k - a]
  <2>1. /\ front \o rest \in Seq(Nat) /\ Len(front \o rest) = Len(front) + Len(rest)
        /\ \A k \in 1..(Len(front) + Len(rest)) :
              (front \o rest)[k] = IF k <= Len(front) THEN front[k] ELSE rest[k - Len(front)]
    BY <1>2, <1>3, ConcatProperties
  <2>2. Len(front) + Len(rest) = L - d
    BY <1>1, <1>2, <1>3
  <2> QED
    BY <1>2, <2>1, <2>2
<1> HIDE DEF r
<1>5. \A k \in 1..(L - d) : /\ k <= a => r[k] = q[k] /\ k \in 1..L
                            /\ ~(k <= a) => r[k] = q[k + d]
                                            /\ k + d \in (b + 1)..L /\ k + d \in 1..L
  <2>1. TAKE k \in 1..(L - d)
  <2>2. CASE k <= a
    <3>1. k \in 1..a /\ k \in 1..L
      BY <1>1, <2>2
    <3> QED
      BY <1>2, <1>4, <2>2, <3>1
  <2>3. CASE ~(k <= a)
    <3>1. k - a \in 1..(L - b) /\ b + (k - a) = k + d /\ k + d \in (b + 1)..L /\ k + d \in 1..L
      BY <1>1, <2>3
    <3> QED
      BY <1>3, <1>4, <2>3, <3>1
  <2> QED
    BY <2>2, <2>3
<1>6. Increasing(r)
  <2>1. SUFFICES ASSUME NEW i \in 1..(L - d), NEW j \in 1..(L - d), i < j PROVE r[i] < r[j]
    BY <1>4 DEF Increasing
  <2>2. \A x, y \in 1..L : x < y => q[x] < q[y]
    BY DEF L, Increasing
  <2>3. CASE j <= a
    <3>1. i <= a
      BY <1>1, <2>1, <2>3
    <3> QED
      BY <1>5, <2>1, <2>2, <2>3, <3>1
  <2>4. CASE ~(j <= a) /\ i <= a
    <3>1. i < j + d
      BY <1>1, <2>1
    <3> QED
      BY <1>5, <2>2, <2>4, <3>1
  <2>5. CASE ~(j <= a) /\ ~(i <= a)
    <3>1. i + d < j + d
      BY <1>1, <2>1
    <3> QED
      BY <1>5, <2>2, <2>5, <3>1
  <2> QED
    BY <2>3, <2>4, <2>5
<1>7. Range(r) = {q[k] : k \in 1..a \cup (b + 1)..L}
  <2>1. Range(r) = {r[k] : k \in 1..(L - d)}
    BY <1>4, RangeIs
  <2>2. ASSUME NEW k \in 1..(L - d) PROVE r[k] \in {q[x] : x \in 1..a \cup (b + 1)..L}
    <3>1. CASE k <= a
      <4>1. k \in 1..a
        BY <1>1, <3>1
      <4> QED
        BY <1>5, <3>1, <4>1
    <3>2. CASE ~(k <= a)
      BY <1>5, <3>2
    <3> QED
      BY <3>1, <3>2
  <2>3. ASSUME NEW x \in 1..a \cup (b + 1)..L PROVE q[x] \in Range(r)
    <3>1. CASE x \in 1..a
      <4>1. x \in 1..(L - d) /\ x <= a
        BY <1>1, <3>1
      <4> QED
        BY <1>5, <2>1, <4>1
    <3>2. CASE x \in (b + 1)..L
      <4>1. x - d \in 1..(L - d) /\ ~(x - d <= a) /\ (x - d) + d = x
        BY <1>1, <3>2
      <4>2. r[x - d] = q[x]
        BY <1>5, <4>1
      <4> QED
        BY <2>1, <4>1, <4>2
    <3> QED
      BY <3>1, <3>2
  <2> QED
    BY <2>1, <2>2, <2>3
<1> QED
  BY <1>4, <1>6, <1>7 DEF L, d, front, rest, r

\* The places of a queue that hold packets of a group.
PlacesOf(q, g) == {k \in 1..Len(q) : q[k] \in Members(g)}

\* As many packets as places.
LEMMA Images ==
    ASSUME NEW q \in Seq(Nat), Increasing(q), NEW P, P \subseteq 1..Len(q)
    PROVE  /\ IsFiniteSet(P) /\ Cardinality(P) \in Nat
           /\ IsFiniteSet({q[k] : k \in P}) /\ Cardinality({q[k] : k \in P}) = Cardinality(P)
<1>1. IsFiniteSet(P) /\ Cardinality(P) \in Nat
  <2>1. Len(q) \in Nat
    OBVIOUS
  <2>2. IsFiniteSet(1..Len(q))
    BY <2>1, FS_Interval
  <2> QED
    BY <2>2, FS_Subset, FS_CardinalityType
<1> DEFINE T == {q[k] : k \in P}
           f == [k \in P |-> q[k]]
<1>2. f \in Surjection(P, T)
  BY DEF Surjection
<1>3. f \in Injection(P, T)
  <2>1. ASSUME NEW a \in P, NEW b \in P, f[a] = f[b] PROVE a = b
    <3>1. a \in 1..Len(q) /\ b \in 1..Len(q) /\ q[a] = q[b] /\ q[a] \in Nat
      BY <2>1
    <3>2. ~(a < b) /\ ~(b < a)
      BY <3>1 DEF Increasing
    <3> QED
      BY <3>1, <3>2
  <2>2. f \in [P -> T]
    OBVIOUS
  <2> HIDE DEF f
  <2> QED
    BY <2>1, <2>2 DEF Injection, IsInjective
<1> HIDE DEF f, T
<1>4. IsFiniteSet(T) /\ Cardinality(T) = Cardinality(P)
  BY <1>1, <1>2, <1>3, FS_Surjection
<1> QED
  BY <1>1, <1>4 DEF T

\* The packets of a group stand together.
LEMMA Block ==
    ASSUME NEW q \in Seq(Nat), Increasing(q), NEW g \in Nat, PlacesOf(q, g) # {}
    PROVE  LET P == PlacesOf(q, g) IN
           /\ Min(P) \in 1..Len(q) /\ Max(P) \in 1..Len(q) /\ Min(P) <= Max(P)
           /\ P = Min(P)..Max(P) /\ Min(P) + Cardinality(P) = Max(P) + 1
<1> DEFINE P == PlacesOf(q, g)
           a == Min(P)
           b == Max(P)
<1>1. P \subseteq 1..Len(q) /\ P # {} /\ Len(q) \in Nat /\ \A k \in 1..Len(q) : q[k] \in Nat
  BY DEF PlacesOf
<1>2. a \in P /\ b \in P /\ \A k \in P : a <= k /\ k <= b
  <2> HIDE DEF P
  <2> QED
    BY <1>1, MaxIs
<1>3. \A k \in 1..Len(q) : k \in P <=> q[k] \in Members(g)
  BY DEF PlacesOf
<1>4. g * shardSize \in Nat /\ (g + 1) * shardSize \in Nat
  BY Sizes
<1> HIDE DEF P, a, b
<1>5. a \in 1..Len(q) /\ b \in 1..Len(q) /\ a <= b
  BY <1>1, <1>2
<1>6. ASSUME NEW k \in a..b PROVE k \in P
  <2>1. k \in 1..Len(q) /\ a <= k /\ k <= b
    BY <1>1, <1>5
  <2>2. q[a] <= q[k] /\ q[k] <= q[b]
    <3>1. k = a \/ q[a] < q[k]
      BY <1>5, <2>1 DEF Increasing
    <3>2. k = b \/ q[k] < q[b]
      BY <1>5, <2>1 DEF Increasing
    <3> QED
      BY <1>1, <1>5, <2>1, <3>1, <3>2
  <2>3. q[a] \in Members(g) /\ q[b] \in Members(g)
    BY <1>2, <1>3, <1>5
  <2>4. q[k] \in Members(g)
    <3> DEFINE lo == g * shardSize + 1
               hi == (g + 1) * shardSize
    <3>1. Members(g) = lo..hi /\ lo \in Int /\ hi \in Int
      BY <1>4 DEF Members
    <3> HIDE DEF lo, hi
    <3>2. q[a] \in Nat /\ q[k] \in Nat /\ q[b] \in Nat
      BY <1>1, <1>5, <2>1
    <3> QED
      BY <2>2, <2>3, <3>1, <3>2
  <2> QED
    BY <1>3, <2>1, <2>4
<1>7. P = a..b
  <2>1. \A k \in P : k \in a..b
    BY <1>1, <1>2, <1>5
  <2> QED
    BY <1>6, <2>1
<1>8. Cardinality(P) = b - a + 1
  BY <1>5, <1>7, FS_Interval
<1>9. a + Cardinality(P) = b + 1
  BY <1>5, <1>8
<1> QED
  BY <1>5, <1>7, <1>9 DEF P, a, b

-----------------------------------------------------------------------------
(* What decode finds in the queue *)

\* The packets that were sent, by their numbers.
LEMMA Numbers ==
    ASSUME Coded, NEW n \in 1..Len(sent)
    PROVE  /\ n \in 1..MaxSent /\ n \in 1..Most /\ n \in Nat /\ n > 0
           /\ seqid(n) = Id(n) /\ (sent[n].data <=> Pos(n) < dataShards)
<1>1. Len(sent) \in Nat /\ Len(sent) <= MaxSent /\ sent[n] = PacketOf(n)
  BY DEF Coded
<1>2. n \in 1..MaxSent /\ n \in 1..Most /\ n \in 1..(Most + 1) /\ n \in Nat /\ n > 0
  BY <1>1, Sizes
<1> QED
  BY <1>1, <1>2, PacketTyped DEF seqid

\* The queue by numbers: where a packet goes, and whether it is there already.
LEMMA Place ==
    ASSUME Coded, rx \in Seq(Nat), Increasing(rx), Range(rx) \subseteq 1..Len(sent),
           NEW n \in 1..Len(sent)
    PROVE  /\ Duplicate(n) => n \in Range(rx)
           /\ ~Duplicate(n) =>
                /\ InsertIdx(n) \in 0..Len(rx)
                /\ \A j \in 1..InsertIdx(n) : rx[j] < n
                /\ \A j \in (InsertIdx(n) + 1)..Len(rx) : n < rx[j]
<1> DEFINE N == NotNewer(seqid(n))
           L == Len(rx)
<1>1. L \in Nat /\ \A j \in 1..L : rx[j] \in 1..Len(sent) /\ rx[j] \in Nat
  BY RangeIs
<1>2. n \in Nat /\ n \in 1..Most /\ seqid(n) = Id(n)
  BY Numbers
<1>3. \A j \in 1..L : rx[j] \in 1..Most /\ seqid(rx[j]) = Id(rx[j])
  BY <1>1, Numbers
<1>4. \A j \in 1..L : j \in N <=> n >= rx[j]
  <2>1. TAKE j \in 1..L
  <2>2. j \in N <=> Diff(Id(n), Id(rx[j])) >= 0
    BY <1>2, <1>3 DEF NotNewer
  <2> QED
    BY <1>2, <1>3, <2>2, Signed
<1>5. N \subseteq 1..L
  BY DEF NotNewer
<1> HIDE DEF N, L
<1>6. CASE N = {}
  <2>1. ~Duplicate(n) /\ InsertIdx(n) = 0
    BY <1>6 DEF Duplicate, InsertIdx, N
  <2>2. \A j \in 1..L : n < rx[j]
    BY <1>1, <1>2, <1>4, <1>6
  <2>3. 0 \in 0..L /\ 1..0 = {} /\ 0 + 1 = 1
    BY <1>1
  <2> QED
    BY <2>1, <2>2, <2>3 DEF L
<1>7. CASE N # {}
  <2> DEFINE m == Max(N)
  <2>1. m \in N /\ \A k \in N : k <= m
    BY <1>1, <1>5, <1>7, MaxIs
  <2>2. InsertIdx(n) = m /\ (Duplicate(n) <=> seqid(rx[m]) = seqid(n))
    BY <1>7 DEF Duplicate, InsertIdx, N
  <2> HIDE DEF m
  <2>3. m \in 1..L /\ m \in 0..L /\ n >= rx[m]
    BY <1>1, <1>4, <1>5, <2>1
  <2>4. Duplicate(n) <=> rx[m] = n
    BY <1>2, <1>3, <2>2, <2>3, IdsDiffer
  <2>5. n = rx[m] => n \in Range(rx)
    BY <2>3, RangeIs DEF L
  <2>6. ASSUME rx[m] # n, NEW j \in 1..m PROVE rx[j] < n
    <3>1. j \in 1..L /\ (j = m \/ j < m)
      BY <1>1, <2>3
    <3>2. j = m \/ rx[j] < rx[m]
      BY <2>3, <3>1 DEF Increasing, L
    <3> QED
      BY <1>1, <1>2, <2>3, <2>6, <3>1, <3>2
  <2>7. ASSUME NEW j \in (m + 1)..L PROVE n < rx[j]
    <3>1. j \in 1..L /\ ~(j <= m)
      BY <1>1, <2>3
    <3>2. j \notin N
      BY <2>1, <3>1
    <3> QED
      BY <1>1, <1>2, <1>4, <3>1, <3>2
  <2> QED
    BY <2>2, <2>3, <2>4, <2>5, <2>6, <2>7 DEF L
<1> QED
  BY <1>6, <1>7

\* The greater and the smaller of two numbers.
LEMMA OfTwo ==
    ASSUME NEW a \in Int, NEW b \in Int
    PROVE  /\ Max({a, b}) \in {a, b} /\ Max({a, b}) >= a /\ Max({a, b}) >= b
           /\ Min({a, b}) \in {a, b} /\ Min({a, b}) <= a /\ Min({a, b}) <= b
<1>1. \E x \in {a, b} : \A y \in {a, b} : x >= y
  BY a >= b \/ b >= a
<1>2. Max({a, b}) \in {a, b} /\ \A y \in {a, b} : Max({a, b}) >= y
  BY <1>1, Zenon DEF Max
<1>3. \E x \in {a, b} : \A y \in {a, b} : x =< y
  BY a >= b \/ b >= a
<1>4. Min({a, b}) \in {a, b} /\ \A y \in {a, b} : Min({a, b}) =< y
  BY <1>3, Zenon DEF Min
<1> QED
  BY <1>2, <1>4

\* The search window around a packet of the queue takes in its whole group.
LEMMA WindowCovers ==
    ASSUME NEW q \in Seq(Nat), Increasing(q), NEW at \in 1..Len(q), q[at] \in 1..MaxSent
    PROVE  /\ PlacesOf(q, Group(q[at])) \subseteq Window(q, at - 1, Id(q[at]))
           /\ Window(q, at - 1, Id(q[at])) \subseteq 1..Len(q)
<1> DEFINE n == q[at]
           g == Group(n)
           p == Pos(n)
           L == Len(q)
           begin == Max({(at - 1) - p, 0})
           end == Min({begin + shardSize, L})
<1>1. L \in Nat /\ at \in 1..L /\ \A k \in 1..L : q[k] \in Nat
  OBVIOUS
<1>2. n \in Nat /\ n > 0 /\ n \in 1..Most
  BY GroupBounds
<1>3. /\ g \in Nat /\ p \in 0..(shardSize - 1) /\ g * shardSize \in Nat
      /\ (g + 1) * shardSize = g * shardSize + shardSize
      /\ n = g * shardSize + p + 1
  BY <1>2, GroupOf
<1>4. Window(q, at - 1, Id(n)) = (begin + 1)..end
  <2>1. Id(n) % shardSize = p
    BY <1>2, IdInGroup
  <2> QED
    BY <2>1, Zenon DEF Window
<1> HIDE DEF p, g
<1>5. /\ begin \in Nat /\ begin >= (at - 1) - p
      /\ begin = 0 \/ begin = (at - 1) - p
  <2> DEFINE x == (at - 1) - p
  <2>1. x \in Int
    BY <1>1, <1>3
  <2> HIDE DEF x
  <2>2. Max({x, 0}) \in {x, 0} /\ Max({x, 0}) >= x /\ Max({x, 0}) >= 0
    <3>1. 0 \in Int
      OBVIOUS
    <3> QED
      BY <2>1, <3>1, OfTwo, Zenon
  <2>3. Max({x, 0}) \in Nat /\ Max({x, 0}) >= x /\ (Max({x, 0}) = 0 \/ Max({x, 0}) = x)
    BY <2>1, <2>2
  <2> QED
    BY <2>3 DEF x
<1> HIDE DEF begin
<1>6. /\ end \in Nat /\ end <= L
      /\ end = begin + shardSize \/ end = L
  <2>1. begin + shardSize \in Int /\ L \in Int
    BY <1>1, <1>5, Sizes
  <2>2. end \in {begin + shardSize, L} /\ end <= L
    BY <2>1, OfTwo, Zenon
  <2> HIDE DEF end
  <2> QED
    BY <1>1, <1>5, <2>2, Sizes
<1> HIDE DEF end, n, L
<1>7. ASSUME NEW k \in 1..L, q[k] \in Members(g) PROVE k \in (begin + 1)..end
  <2>1. g * shardSize + 1 <= q[k] /\ q[k] <= g * shardSize + shardSize /\ q[k] \in Nat
    BY <1>1, <1>3, <1>7 DEF Members
  <2>2. CASE k <= at
    <3>1. at - k <= q[at] - q[k]
      BY <1>1, <2>2, Spread DEF L
    <3>2. at - k <= p
      BY <1>1, <1>2, <1>3, <2>1, <3>1, Sizes DEF n
    <3> QED
      BY <1>1, <1>3, <1>5, <1>6, <2>2, <3>2, Sizes
  <2>3. CASE k > at
    <3>1. k - at <= q[k] - q[at]
      BY <1>1, <2>3, Spread DEF L
    <3>2. k - at <= shardSize - p - 1
      BY <1>1, <1>2, <1>3, <2>1, <3>1, Sizes DEF n
    <3> QED
      BY <1>1, <1>3, <1>5, <1>6, <2>3, <3>2, Sizes
  <2> QED
    BY <1>1, <2>2, <2>3
<1>8. (begin + 1)..end \subseteq 1..L
  BY <1>1, <1>5, <1>6
<1>9. PlacesOf(q, g) \subseteq (begin + 1)..end
  BY <1>7 DEF PlacesOf, L
<1> QED
  BY <1>4, <1>8, <1>9 DEF n, g, L

\* Shard assembly takes the packets of the group and no others, if they are enough.
LEMMA ShardsAre ==
    ASSUME Coded, NEW q \in Seq(Nat), Increasing(q), Range(q) \subseteq 1..Len(sent),
           NEW at \in 1..Len(q)
    PROVE  LET S == Shards(q, at - 1, seqid(q[at]))
               P == PlacesOf(q, Group(q[at]))
           IN  /\ Cardinality(S) >= dataShards => S = P
               /\ ~(Cardinality(S) >= dataShards) => Cardinality(P) < dataShards
<1> DEFINE n == q[at]
           g == Group(n)
           id == Id(n)
           W == Window(q, at - 1, id)
           P == PlacesOf(q, g)
           S == Shards(q, at - 1, seqid(n))
           b == id - (id % shardSize)
           e == b + shardSize - 1
           T == {i \in W : /\ Diff(seqid(q[i]), b) >= 0
                           /\ \A j \in W : j <= i => Diff(seqid(q[j]), e) <= 0}
<1>1. /\ Len(q) \in Nat
      /\ \A k \in 1..Len(q) : q[k] \in 1..Len(sent) /\ q[k] \in Nat
  BY RangeIs
<1>2. /\ n \in 1..MaxSent /\ n \in 1..Most /\ n \in Nat /\ n > 0 /\ seqid(n) = id
  BY <1>1, Numbers
<1>3. P \subseteq W /\ W \subseteq 1..Len(q)
  BY <1>2, WindowCovers
<1>4. S = IF Cardinality(W) < dataShards THEN {} ELSE T
  BY <1>2, Zenon DEF Shards
<1>5. /\ g * shardSize + 1 \in 1..Most /\ (g + 1) * shardSize \in 1..Most
      /\ b = Id(g * shardSize + 1) /\ e = Id((g + 1) * shardSize)
  <2>1. g * shardSize + 1 \in 1..Most /\ (g + 1) * shardSize \in 1..Most
    BY <1>2, GroupBounds
  <2>2. /\ id % shardSize = Pos(n) /\ id - Pos(n) = Id(g * shardSize + 1)
        /\ id - Pos(n) + shardSize - 1 = Id((g + 1) * shardSize)
    BY <1>2, IdInGroup
  <2> QED
    BY <2>1, <2>2, Zenon
<1>6. \A k \in W : /\ Diff(seqid(q[k]), b) >= 0 <=> q[k] >= g * shardSize + 1
                   /\ Diff(seqid(q[k]), e) <= 0 <=> q[k] <= (g + 1) * shardSize
  <2>1. TAKE k \in W
  <2>2. q[k] \in 1..Most /\ seqid(q[k]) = Id(q[k])
    BY <1>1, <1>3, Numbers
  <2>3. /\ Diff(Id(q[k]), Id(g * shardSize + 1)) >= 0 <=> q[k] >= g * shardSize + 1
        /\ Diff(Id(q[k]), Id((g + 1) * shardSize)) <= 0 <=> q[k] <= (g + 1) * shardSize
    BY <1>5, <2>2, Signed
  <2> HIDE DEF b, e, W
  <2> QED
    BY <1>5, <2>2, <2>3
<1>7. \A k \in 1..Len(q) : k \in P <=> q[k] >= g * shardSize + 1 /\ q[k] <= (g + 1) * shardSize
  <2>1. TAKE k \in 1..Len(q)
  <2>2. g * shardSize + 1 \in Int /\ (g + 1) * shardSize \in Int /\ q[k] \in Int
    BY <1>1, <1>5, Sizes
  <2>3. k \in P <=> q[k] \in Members(g)
    BY DEF PlacesOf
  <2> HIDE DEF P, g
  <2> QED
    BY <2>2, <2>3 DEF Members
<1>8. T = P
  <2>1. T = {i \in W : /\ q[i] >= g * shardSize + 1
                       /\ \A j \in W : j <= i => q[j] <= (g + 1) * shardSize}
    <3> HIDE DEF b, e, W, g
    <3> QED
      BY <1>6
  <2> HIDE DEF b, e, P, W, T, g
  <2>2. ASSUME NEW k \in P PROVE k \in T
    <3>1. k \in W /\ q[k] >= g * shardSize + 1 /\ q[k] <= (g + 1) * shardSize /\ k \in 1..Len(q)
      BY <1>3, <1>7
    <3>2. ASSUME NEW j \in W, j <= k PROVE q[j] <= (g + 1) * shardSize
      <4>1. j \in 1..Len(q) /\ (j = k \/ j < k)
        BY <1>3, <3>1, <3>2
      <4>2. j = k \/ q[j] < q[k]
        BY <3>1, <4>1 DEF Increasing
      <4>3. q[j] \in Nat /\ q[k] \in Nat /\ (g + 1) * shardSize \in Int
        BY <1>1, <1>5, <3>1, <4>1, Sizes
      <4> QED
        BY <3>1, <4>2, <4>3
    <3> QED
      BY <2>1, <3>1, <3>2
  <2>3. ASSUME NEW k \in T PROVE k \in P
    <3>1. k \in W /\ q[k] >= g * shardSize + 1 /\ k \in 1..Len(q) /\ k <= k
      BY <1>3, <2>1
    <3>2. q[k] <= (g + 1) * shardSize
      BY <2>1, <3>1
    <3> QED
      BY <1>7, <3>1, <3>2
  <2> QED
    BY <2>2, <2>3
<1> HIDE DEF T, W, P, S
<1>9. IsFiniteSet(W) /\ IsFiniteSet(P) /\ Cardinality(P) <= Cardinality(W)
      /\ Cardinality(W) \in Nat /\ Cardinality(P) \in Nat
  <2>1. IsFiniteSet(1..Len(q))
    BY <1>1, FS_Interval
  <2>2. IsFiniteSet(W)
    BY <1>3, <2>1, FS_Subset
  <2> QED
    BY <1>3, <2>2, FS_Subset, FS_CardinalityType
<1>10. Cardinality({}) = 0
  BY FS_EmptySet
<1>11. /\ Cardinality(S) >= dataShards => S = P
       /\ ~(Cardinality(S) >= dataShards) => Cardinality(P) < dataShards
  <2>1. CASE Cardinality(W) < dataShards
    BY <1>4, <1>9, <1>10, <2>1, Sizes
  <2>2. CASE ~(Cardinality(W) < dataShards)
    BY <1>4, <1>8, <1>9, <2>2, Sizes
  <2> QED
    BY <2>1, <2>2
<1> QED
  BY <1>11 DEF S, P

\* freeRange takes the group out of the queue and leaves the rest in order.
LEMMA Freed ==
    ASSUME NEW q \in Seq(Nat), Increasing(q), NEW g \in Nat
    PROVE  LET r == FreeRange(q, PlacesOf(q, g)) IN
           /\ r \in Seq(Nat) /\ Len(r) <= Len(q) /\ Increasing(r)
           /\ Range(r) = Range(q) \ Members(g)
<1> DEFINE P == PlacesOf(q, g)
           r == FreeRange(q, P)
           a == Min(P) - 1
           b == Max(P)
<1>1. Len(q) \in Nat /\ Range(q) = {q[k] : k \in 1..Len(q)}
  BY RangeIs
<1>2. \A k \in 1..Len(q) : k \in P <=> q[k] \in Members(g)
  BY DEF PlacesOf
<1>3. CASE P = {}
  <2>1. r = q
    BY <1>3 DEF FreeRange
  <2>2. Range(q) = Range(q) \ Members(g)
    <3> HIDE DEF P
    <3> QED
      BY <1>1, <1>2, <1>3
  <2> QED
    BY <1>1, <2>1, <2>2
<1>4. CASE P # {}
  <2>1. /\ Min(P) \in 1..Len(q) /\ b \in 1..Len(q) /\ Min(P) <= b
        /\ P = Min(P)..b /\ Min(P) + Cardinality(P) = b + 1
    BY <1>4, Block
  <2>2. r = SubSeq(q, 1, a) \o SubSeq(q, b + 1, Len(q))
    BY <1>4, <2>1 DEF FreeRange
  <2>3. a \in 0..Len(q) /\ b \in a..Len(q) /\ b - a >= 0 /\ P = (a + 1)..b /\ b - a \in Int
    BY <1>1, <2>1
  <2> HIDE DEF r, a, b, P
  <2>4. /\ r \in Seq(Nat) /\ Len(r) = Len(q) - (b - a) /\ Increasing(r)
        /\ Range(r) = {q[k] : k \in 1..a \cup (b + 1)..Len(q)}
    BY <2>2, <2>3, CutOut
  <2>5. \A k \in 1..Len(q) : k \in 1..a \cup (b + 1)..Len(q) <=> k \notin P
    BY <1>1, <2>3
  <2>6. 1..a \cup (b + 1)..Len(q) \subseteq 1..Len(q)
    BY <1>1, <2>3
  <2>7. Range(r) = Range(q) \ Members(g)
    <3>1. ASSUME NEW x PROVE x \in Range(r) <=> x \in Range(q) \ Members(g)
      BY <1>1, <1>2, <2>4, <2>5, <2>6
    <3> QED
      BY <3>1
  <2>8. Len(r) <= Len(q)
    BY <1>1, <2>3, <2>4
  <2> QED
    BY <2>4, <2>7, <2>8 DEF r, P
<1> QED
  BY <1>3, <1>4

\* "keep rxlimit": what goes is what no longer is in the queue.
LEMMA Limited ==
    ASSUME NEW q \in Seq(Nat), Increasing(q), Len(q) <= rxlimit + 1
    PROVE  /\ KeepLimit(q) \in Seq(Nat) /\ Len(KeepLimit(q)) <= rxlimit /\ Increasing(KeepLimit(q))
           /\ Range(KeepLimit(q)) \subseteq Range(q)
<1>1. Len(q) \in Nat /\ rxlimit \in Nat
  BY Sizes
<1>2. CASE Len(q) > rxlimit
  <2>1. KeepLimit(q) = Tail(q) /\ q # <<>>
    BY <1>1, <1>2 DEF KeepLimit
  <2>2. /\ Tail(q) \in Seq(Nat) /\ Len(Tail(q)) = Len(q) - 1
        /\ \A i \in 1..(Len(q) - 1) : Tail(q)[i] = q[i + 1]
    BY <2>1, HeadTailProperties
  <2>3. Increasing(Tail(q))
    <3>1. SUFFICES ASSUME NEW i \in 1..(Len(q) - 1), NEW j \in 1..(Len(q) - 1), i < j
                   PROVE  Tail(q)[i] < Tail(q)[j]
      BY <2>2 DEF Increasing
    <3>2. i + 1 \in 1..Len(q) /\ j + 1 \in 1..Len(q) /\ i + 1 < j + 1
      BY <1>1, <3>1
    <3> QED
      BY <2>2, <3>2 DEF Increasing
  <2>4. Range(Tail(q)) \subseteq Range(q)
    <3>1. /\ Range(Tail(q)) = {Tail(q)[k] : k \in 1..(Len(q) - 1)}
          /\ Range(q) = {q[k] : k \in 1..Len(q)}
      BY <2>2, RangeIs
    <3>2. \A k \in 1..(Len(q) - 1) : k + 1 \in 1..Len(q)
      BY <1>1
    <3> QED
      BY <2>2, <3>1, <3>2
  <2> QED
    BY <1>1, <2>1, <2>2, <2>3, <2>4
<1>3. CASE ~(Len(q) > rxlimit)
  BY <1>1, <1>3 DEF KeepLimit
<1> QED
  BY <1>2, <1>3

\* What a full group gives: its data packets are all there, or the missing ones are
\* rebuilt, from packets of the group and of no other.
LEMMA Rebuilt ==
    ASSUME Coded, NEW q \in Seq(Nat), Increasing(q), Range(q) \subseteq 1..Len(sent),
           NEW g \in Nat, Cardinality(PlacesOf(q, g)) >= dataShards
    PROVE  LET shards == PlacesOf(q, g)
               data == {k \in shards : sent[q[k]].data}
               rebuilt == IF Cardinality(data) = dataShards THEN {}
                          ELSE Recovered({q[k] : k \in shards})
           IN  /\ rebuilt \subseteq 1..Len(sent)
               /\ \A m \in DataOf(g) : m \in rebuilt \/ m \in Range(q)
               /\ DataOf(g) \subseteq 1..Len(sent) /\ DataOf(g) \subseteq Members(g)
               /\ \A m \in DataOf(g) : sent[m].data
<1> DEFINE P == PlacesOf(q, g)
           data == {k \in P : sent[q[k]].data}
           used == {q[k] : k \in P}
           rebuilt == IF Cardinality(data) = dataShards THEN {} ELSE Recovered(used)
<1>1. /\ Len(q) \in Nat /\ Range(q) = {q[k] : k \in 1..Len(q)}
      /\ \A k \in 1..Len(q) : q[k] \in 1..Len(sent) /\ q[k] \in Nat
  BY RangeIs
<1>2. P \subseteq 1..Len(q) /\ \A k \in P : q[k] \in Members(g)
  BY DEF PlacesOf
<1>3. Cardinality(P) \in Nat /\ Cardinality(P) >= dataShards /\ P # {}
  <2>1. Cardinality(P) \in Nat
    BY <1>2, Images
  <2>2. Cardinality({}) = 0
    BY FS_EmptySet
  <2>3. Cardinality(P) >= dataShards
    OBVIOUS
  <2> HIDE DEF P
  <2>4. P = {} => Cardinality(P) = 0
    BY <2>2, Zenon
  <2>5. P # {}
    BY <2>1, <2>3, <2>4, Sizes
  <2> QED
    BY <2>1, <2>3, <2>5
<1>4. /\ g * shardSize \in Nat /\ (g + 1) * shardSize = g * shardSize + shardSize
      /\ Len(sent) \in Nat
  <2>1. g * shardSize \in Nat /\ (g + 1) * shardSize = g * shardSize + shardSize
    BY Sizes
  <2> QED
    BY <2>1 DEF Coded
<1>5. g * shardSize + dataShards <= Len(sent)
  <2> DEFINE a == Min(P)
             b == Max(P)
  <2>1. a \in 1..Len(q) /\ b \in 1..Len(q) /\ a <= b /\ P = a..b /\ a + Cardinality(P) = b + 1
    BY <1>3, Block
  <2>2. a \in P /\ b \in P
    <3> HIDE DEF P, a, b
    <3> QED
      BY <2>1
  <2> HIDE DEF P, a, b
  <2>3. b - a <= q[b] - q[a]
    BY <2>1, Spread
  <2>4. q[a] >= g * shardSize + 1 /\ q[b] <= Len(sent) /\ q[a] \in Nat /\ q[b] \in Nat
    BY <1>1, <1>2, <1>4, <2>1, <2>2 DEF Members
  <2>5. b - a >= dataShards - 1
    BY <1>3, <2>1, Sizes
  <2> DEFINE G == g * shardSize
             x == q[a]
             y == q[b]
  <2>6. /\ G \in Nat /\ x \in Nat /\ y \in Nat /\ a \in Nat /\ b \in Nat /\ dataShards \in Nat
        /\ b - a <= y - x /\ x >= G + 1 /\ y <= Len(sent) /\ b - a >= dataShards - 1
    BY <1>4, <2>1, <2>3, <2>4, <2>5, Sizes
  <2> HIDE DEF G, x, y
  <2>7. G + dataShards <= Len(sent)
    BY <1>4, <2>6
  <2> QED
    BY <2>7 DEF G
<1>6. DataOf(g) \subseteq 1..Len(sent) /\ DataOf(g) \subseteq Members(g)
  BY <1>4, <1>5, Sizes DEF DataOf, Members
<1>7. \A m \in Members(g) \cap 1..Len(sent) : sent[m].data <=> m \in DataOf(g)
  <2>1. TAKE m \in Members(g) \cap 1..Len(sent)
  <2>2. m \in Nat /\ m > 0 /\ (sent[m].data <=> Pos(m) < dataShards)
    BY Numbers
  <2>3. Group(m) = g /\ m = Group(m) * shardSize + Pos(m) + 1 /\ Pos(m) \in 0..(shardSize - 1)
    BY <2>2, GroupOf
  <2>4. Pos(m) < dataShards <=> m \in DataOf(g)
    BY <1>4, <2>2, <2>3, Sizes DEF DataOf
  <2> QED
    BY <2>2, <2>4
<1>8. \A m \in DataOf(g) : sent[m].data
  BY <1>6, <1>7
<1>9. used \subseteq Range(q)
  BY <1>1, <1>2
<1>10. CASE Cardinality(data) = dataShards
  <2> DEFINE T == {q[k] : k \in data}
  <2>1. T \subseteq DataOf(g) /\ data \subseteq 1..Len(q)
    BY <1>1, <1>2, <1>7
  <2>2. Cardinality(T) = dataShards
    <3>1. data \subseteq 1..Len(q)
      BY <2>1
    <3> HIDE DEF data
    <3> QED
      BY <1>10, <3>1, Images
  <2>3. IsFiniteSet(DataOf(g)) /\ Cardinality(DataOf(g)) = dataShards
    <3> DEFINE x == g * shardSize + 1
               y == g * shardSize + dataShards
    <3>1. x \in Int /\ y \in Int /\ ~(x > y) /\ y - x + 1 = dataShards
      BY <1>4, Sizes
    <3>2. DataOf(g) = x..y
      BY DEF DataOf
    <3> HIDE DEF x, y
    <3> QED
      BY <3>1, <3>2, FS_Interval
  <2>4. T = DataOf(g)
    <3> HIDE DEF T, data
    <3> QED
      BY <2>1, <2>2, <2>3, FS_Subset
  <2>5. \A m \in DataOf(g) : m \in Range(q)
    <3> HIDE DEF P
    <3> QED
      BY <1>1, <2>1, <2>4
  <2>6. rebuilt = {}
    BY <1>10
  <2> QED
    BY <1>6, <1>8, <2>5, <2>6 DEF P
<1>11. CASE Cardinality(data) # dataShards
  <2>1. \A m \in used : Group(m) = g
    <3>1. \A k \in P : q[k] \in Nat /\ q[k] > 0 /\ q[k] \in Members(g)
      BY <1>1, <1>2
    <3>2. \A k \in P : Group(q[k]) = g
      BY <3>1, GroupOf
    <3> QED
      BY <3>2
  <2>2. {Group(m) : m \in used} = {g}
    <3>1. used # {}
      BY <1>3
    <3> HIDE DEF used
    <3> QED
      BY <2>1, <3>1
  <2>3. Cardinality({g}) = 1 /\ (CHOOSE h \in {g} : TRUE) = g
    BY FS_Singleton
  <2>4. Recovered(used) = DataOf(g) \ used
    <3> HIDE DEF used
    <3> QED
      BY <2>2, <2>3 DEF Recovered
  <2>5. rebuilt = DataOf(g) \ used
    BY <1>11, <2>4
  <2> HIDE DEF rebuilt, used
  <2>6. rebuilt \subseteq 1..Len(sent) /\ \A m \in DataOf(g) : m \in rebuilt \/ m \in Range(q)
    BY <1>6, <1>9, <2>5
  <2> QED
    BY <1>6, <1>8, <2>6 DEF rebuilt, used, P
<1> QED
  BY <1>10, <1>11

-----------------------------------------------------------------------------
(* The invariant *)

\* What the decoder has done for group g: all its data is with KCP, or all that has
\* arrived of it, and was not pushed out by the queue limit, still is in the queue.
Served(g) ==
    \/ DataOf(g) \subseteq input
    \/ (arrived \cap Members(g)) \ dropped \subseteq Range(rx)

\* No group in the queue is complete enough to be decoded.
Waiting(q, g) == Cardinality(Range(q) \cap Members(g)) < dataShards

Decoded ==
    /\ rx \in Seq(Nat) /\ Increasing(rx) /\ Len(rx) <= rxlimit
    /\ net \subseteq 1..Len(sent) /\ arrived \subseteq 1..Len(sent)
    /\ Range(rx) \subseteq arrived /\ dropped \subseteq arrived
    /\ input \subseteq 1..Len(sent)
    /\ \A n \in arrived : sent[n].data => n \in input
    /\ \A g \in Nat : Waiting(rx, g) /\ Served(g)

FECInv == Coded /\ Decoded

\* The decoder has nothing to do with a call of encode.
LEMMA EncodeKeepsDecoded ==
    ASSUME FECInv, Encode
    PROVE  Coded' /\ Decoded'
<1>1. /\ Coded' /\ Len(sent') >= Len(sent) /\ Len(sent) \in Nat /\ Len(sent') \in Nat
      /\ \A n \in 1..Len(sent) : sent'[n] = sent[n]
      /\ net' \subseteq 1..Len(sent')
  <2>1. net \subseteq 1..Len(sent) /\ Coded
    BY DEF FECInv, Decoded
  <2>2. /\ Coded' /\ Len(sent') >= Len(sent)
        /\ \A n \in 1..Len(sent) : sent'[n] = sent[n]
        /\ net' \subseteq 1..Len(sent')
    BY <2>1, EncodeKeeps
  <2> QED
    BY <2>1, <2>2 DEF Coded
<1>2. UNCHANGED <<rx, input, arrived, dropped>>
  BY DEF Encode
<1>3. 1..Len(sent) \subseteq 1..Len(sent')
  BY <1>1
<1>4. arrived' \subseteq 1..Len(sent') /\ input' \subseteq 1..Len(sent')
  BY <1>2, <1>3 DEF FECInv, Decoded
<1>5. \A n \in arrived' : sent'[n].data => n \in input'
  BY <1>1, <1>2 DEF FECInv, Decoded
<1>6. \A g \in Nat : Waiting(rx, g)' /\ Served(g)'
  BY <1>2 DEF FECInv, Decoded, Waiting, Served
<1>7. /\ rx' \in Seq(Nat) /\ Increasing(rx)' /\ Len(rx') <= rxlimit
      /\ Range(rx') \subseteq arrived' /\ dropped' \subseteq arrived'
  BY <1>2 DEF FECInv, Decoded, Increasing
<1> QED
  BY <1>1, <1>4, <1>5, <1>6, <1>7 DEF Decoded

\* A packet that is new to the queue: what decode puts in, takes out and gives to KCP.
LEMMA DecodeKeeps ==
    ASSUME FECInv, NEW n \in 1..Len(sent), ~Duplicate(n), Decode(n),
           arrived' = arrived \cup {n}
    PROVE  /\ rx' \in Seq(Nat) /\ Increasing(rx') /\ Len(rx') <= rxlimit
           /\ Range(rx') \subseteq arrived' /\ dropped' \subseteq arrived'
           /\ input' \subseteq 1..Len(sent)
           /\ \A m \in arrived' : sent[m].data => m \in input'
           /\ \A g \in Nat : Waiting(rx', g) /\ Served(g)'
<1> DEFINE i == InsertIdx(n)
           q == InsertAt(rx, i + 1, n)
           h == Group(n)
           shards == Shards(q, i, seqid(n))
           data == {k \in shards : sent[q[k]].data}
           own == IF sent[n].data THEN {n} ELSE {}
           rebuilt == IF Cardinality(data) = dataShards THEN {}
                      ELSE Recovered({q[k] : k \in shards})
           full == Cardinality(shards) >= dataShards
           queue == IF full THEN FreeRange(q, shards) ELSE q
           gone == Range(queue) \ Range(KeepLimit(queue))
<1>1. /\ input' = input \cup own \cup (IF full THEN rebuilt ELSE {})
      /\ rx' = KeepLimit(queue)
      /\ dropped' = (dropped \ {n}) \cup gone
  BY DEF Decode
<1>2. /\ Coded /\ rx \in Seq(Nat) /\ Increasing(rx) /\ Len(rx) <= rxlimit
      /\ arrived \subseteq 1..Len(sent) /\ Range(rx) \subseteq arrived /\ dropped \subseteq arrived
      /\ input \subseteq 1..Len(sent) /\ \A m \in arrived : sent[m].data => m \in input
      /\ \A g \in Nat : Waiting(rx, g) /\ Served(g)
      /\ Range(rx) \subseteq 1..Len(sent) /\ Len(sent) \in Nat
  <2>1. Coded /\ Decoded
    BY DEF FECInv
  <2>2. Len(sent) \in Nat
    BY <2>1 DEF Coded
  <2> QED
    BY <2>1, <2>2, Zenon DEF Decoded
<1>3. n \in Nat /\ n > 0
  BY <1>2
<1>4. h \in Nat /\ \A g \in Nat : n \in Members(g) <=> h = g
  BY <1>3, GroupOf
<1>5. /\ i \in 0..Len(rx)
      /\ \A j \in 1..i : rx[j] < n
      /\ \A j \in (i + 1)..Len(rx) : n < rx[j]
  BY <1>2, Place
<1>6. /\ q \in Seq(Nat) /\ Len(q) = Len(rx) + 1 /\ q[i + 1] = n /\ Increasing(q)
      /\ Range(q) = Range(rx) \cup {n}
  <2> HIDE DEF i
  <2> QED
    BY <1>2, <1>3, <1>5, Inserted
<1>7. Range(q) \subseteq 1..Len(sent) /\ Range(q) \subseteq arrived'
  <2> HIDE DEF q
  <2> QED
    BY <1>2, <1>6
<1> DEFINE P == PlacesOf(q, h)
<1>8. /\ full => shards = P
      /\ ~full => Cardinality(P) < dataShards
  <2>1. i + 1 \in 1..Len(q) /\ (i + 1) - 1 = i
    <3> HIDE DEF i, q
    <3> QED
      BY <1>2, <1>5, <1>6
  <2> DEFINE S == Shards(q, (i + 1) - 1, seqid(q[i + 1]))
  <2>2. S = shards /\ PlacesOf(q, Group(q[i + 1])) = P
    <3> HIDE DEF i, q
    <3> QED
      BY <1>6, <2>1
  <2>3. /\ Cardinality(S) >= dataShards => S = PlacesOf(q, Group(q[i + 1]))
        /\ ~(Cardinality(S) >= dataShards) => Cardinality(PlacesOf(q, Group(q[i + 1]))) < dataShards
    <3> HIDE DEF i, q
    <3> QED
      BY <1>2, <1>6, <1>7, <2>1, ShardsAre
  <2> HIDE DEF S, shards, P
  <2> QED
    BY <2>2, <2>3
<1> HIDE DEF i, q, h
<1>9. /\ queue \in Seq(Nat) /\ Len(queue) <= rxlimit + 1 /\ Increasing(queue)
      /\ full => Range(queue) = Range(q) \ Members(h)
      /\ ~full => Range(queue) = Range(q)
  <2>1. Len(q) <= rxlimit + 1 /\ Len(q) \in Nat
    BY <1>2, <1>6, Sizes
  <2>2. CASE full
    <3>1. queue = FreeRange(q, P)
      BY <1>8, <2>2
    <3> HIDE DEF queue, P, shards
    <3>2. /\ queue \in Seq(Nat) /\ Len(queue) <= Len(q) /\ Increasing(queue)
          /\ Range(queue) = Range(q) \ Members(h)
      BY <1>4, <1>6, <3>1, Freed DEF P
    <3>3. Len(queue) \in Nat
      BY <3>2
    <3> QED
      BY <2>1, <2>2, <3>2, <3>3, Sizes
  <2>3. CASE ~full
    <3>1. queue = q
      BY <2>3
    <3> HIDE DEF queue
    <3> QED
      BY <1>6, <2>1, <2>3, <3>1
  <2> QED
    BY <2>2, <2>3
<1>10. /\ full => rebuilt \subseteq 1..Len(sent)
       /\ full => \A m \in DataOf(h) : (m \in rebuilt \/ m \in Range(q)) /\ sent[m].data
  <2>1. CASE full
    <3>1. /\ shards = P /\ Cardinality(PlacesOf(q, h)) >= dataShards
      <4> HIDE DEF shards
      <4> QED
        BY <1>8, <2>1
    <3> DEFINE data1 == {k \in P : sent[q[k]].data}
               rebuilt1 == IF Cardinality(data1) = dataShards THEN {}
                           ELSE Recovered({q[k] : k \in P})
    <3>2. /\ rebuilt1 \subseteq 1..Len(sent)
          /\ \A m \in DataOf(h) : m \in rebuilt1 \/ m \in Range(q)
          /\ \A m \in DataOf(h) : sent[m].data
      BY <1>2, <1>4, <1>6, <1>7, <3>1, Rebuilt
    <3>3. rebuilt = rebuilt1
      <4> HIDE DEF shards, P
      <4> QED
        BY <3>1
    <3> HIDE DEF rebuilt, rebuilt1
    <3> QED
      BY <3>2, <3>3
  <2> QED
    BY <2>1
<1> HIDE DEF queue, full, rebuilt, shards, P
<1>11. /\ rx' \in Seq(Nat) /\ Len(rx') <= rxlimit
       /\ Increasing(rx') /\ Range(rx') \subseteq Range(queue)
  BY <1>1, <1>9, Limited
<1>12. Range(queue) \subseteq Range(q)
  BY <1>9
<1>13. Range(rx') \subseteq arrived' /\ dropped' \subseteq arrived'
  BY <1>1, <1>2, <1>7, <1>11, <1>12
<1>14. input' \subseteq 1..Len(sent) /\ input \subseteq input'
  BY <1>1, <1>2, <1>10
<1>15. \A m \in arrived' : sent[m].data => m \in input'
  BY <1>1, <1>2
<1>16. ASSUME NEW g \in Nat PROVE Waiting(rx', g)
  <2>1. IsFiniteSet(Range(q) \cap Members(g))
    <3>1. IsFiniteSet(1..Len(sent))
      BY <1>2, FS_Interval
    <3> QED
      BY <1>7, <3>1, FS_Subset
  <2> DEFINE A == Range(rx') \cap Members(g)
             B == Range(q) \cap Members(g)
  <2>2. A \subseteq B
    BY <1>11, <1>12
  <2>3. /\ IsFiniteSet(A) /\ Cardinality(A) \in Nat
        /\ Cardinality(A) <= Cardinality(B) /\ Cardinality(B) \in Nat
    <3>1. IsFiniteSet(B)
      BY <2>1
    <3> HIDE DEF A, B
    <3> QED
      BY <2>2, <3>1, FS_Subset, FS_CardinalityType
  <2>4. CASE g # h
    <3>1. B = Range(rx) \cap Members(g)
      BY <1>4, <1>6, <2>4
    <3>2. Cardinality(B) < dataShards
      <4> HIDE DEF B
      <4> QED
        BY <1>2, <3>1 DEF Waiting
    <3> HIDE DEF A, B
    <3>3. Cardinality(A) < dataShards
      BY <2>3, <3>2, Sizes
    <3> QED
      BY <3>3 DEF A, Waiting
  <2>5. CASE g = h /\ full
    <3>1. A = {}
      BY <1>9, <1>11, <2>5
    <3>2. Cardinality(A) = 0
      BY <3>1, FS_EmptySet, Zenon
    <3> HIDE DEF A
    <3>3. Cardinality(A) < dataShards
      BY <3>2, Sizes
    <3> QED
      BY <3>3 DEF A, Waiting
  <2>6. CASE g = h /\ ~full
    <3>1. B = {q[k] : k \in P}
      <4>1. Range(q) = {q[k] : k \in 1..Len(q)}
        BY <1>6, RangeIs
      <4> QED
        BY <2>6, <4>1 DEF P, PlacesOf
    <3>2. Cardinality(B) = Cardinality(P)
      <4>1. P \subseteq 1..Len(q)
        BY DEF P, PlacesOf
      <4> HIDE DEF B
      <4> QED
        BY <1>6, <3>1, <4>1, Images
    <3> HIDE DEF A, B
    <3>3. Cardinality(A) < dataShards
      BY <1>8, <2>3, <2>6, <3>2, Sizes
    <3> QED
      BY <3>3 DEF A, Waiting
  <2> QED
    BY <2>4, <2>5, <2>6
<1>17. ASSUME NEW g \in Nat PROVE Served(g)'
  <2>1. CASE DataOf(g) \subseteq input
    BY <1>14, <2>1 DEF Served
  <2>3. CASE g = h /\ full
    <3>1. \A m \in DataOf(h) : m \in input'
      BY <1>1, <1>7, <1>10, <1>15, <2>3
    <3> QED
      BY <2>3, <3>1 DEF Served
  <2>4. CASE (arrived \cap Members(g)) \ dropped \subseteq Range(rx) /\ ~(g = h /\ full)
    <3>1. ASSUME NEW m \in arrived', m \in Members(g), m \notin dropped' PROVE m \in Range(rx')
      <4>1. m \in Range(q) /\ m \notin gone
        BY <1>1, <1>6, <2>4, <3>1
      <4>2. m \in Range(queue)
        <5>1. CASE ~full
          BY <1>9, <4>1, <5>1
        <5>2. CASE full /\ g # h
          <6>1. m \in Nat /\ m > 0
            BY <1>2, <1>7, <4>1
          <6>2. m \notin Members(h)
            BY <1>4, <3>1, <5>2, <6>1, GroupOf
          <6> QED
            BY <1>9, <4>1, <5>2, <6>2
        <5> QED
          BY <2>4, <5>1, <5>2
      <4> QED
        BY <1>1, <4>1, <4>2
    <3> QED
      BY <3>1 DEF Served
  <2> QED
    BY <1>2, <2>1, <2>3, <2>4 DEF Served
<1> QED
  BY <1>11, <1>13, <1>14, <1>15, <1>16, <1>17

\* A packet that arrives, new or not.
LEMMA ReceiveKeepsDecoded ==
    ASSUME FECInv, Receive
    PROVE  Coded' /\ Decoded'
<1>1. UNCHANGED <<next, shardCount, sent>>
  BY DEF Receive
<1>2. Coded'
  BY <1>1 DEF FECInv, Coded
<1>3. PICK n \in net :
        /\ net' \in {net, net \ {n}} /\ arrived' = arrived \cup {n}
        /\ IF Duplicate(n)
           THEN /\ input' = IF sent[n].data THEN input \cup {n} ELSE input
                /\ UNCHANGED <<rx, dropped>>
           ELSE Decode(n)
  BY DEF Receive
<1>4. /\ Coded /\ net \subseteq 1..Len(sent) /\ n \in 1..Len(sent) /\ rx \in Seq(Nat)
      /\ Increasing(rx) /\ Range(rx) \subseteq 1..Len(sent)
      /\ arrived \subseteq 1..Len(sent)
      /\ arrived' \subseteq 1..Len(sent) /\ net' \subseteq 1..Len(sent)
  BY <1>3 DEF FECInv, Decoded
<1>5. CASE Duplicate(n)
  <2>1. n \in Range(rx) /\ n \in arrived /\ arrived' = arrived
    BY <1>3, <1>4, <1>5, Place DEF FECInv, Decoded
  <2>2. UNCHANGED <<rx, dropped>> /\ input \subseteq input' /\ input' \subseteq input \cup {n}
    BY <1>3, <1>5
  <2>3. \A g \in Nat : Waiting(rx, g)' /\ Served(g)'
    BY <2>1, <2>2 DEF FECInv, Decoded, Waiting, Served
  <2>4. input' \subseteq 1..Len(sent) /\ \A m \in arrived' : sent[m].data => m \in input'
    BY <1>4, <2>1, <2>2 DEF FECInv, Decoded
  <2>5. /\ rx' \in Seq(Nat) /\ Increasing(rx)' /\ Len(rx') <= rxlimit
        /\ Range(rx') \subseteq arrived' /\ dropped' \subseteq arrived'
    BY <2>1, <2>2 DEF FECInv, Decoded, Increasing
  <2> QED
    BY <1>1, <1>2, <1>4, <2>3, <2>4, <2>5 DEF Decoded
<1>6. CASE ~Duplicate(n)
  <2>1. /\ rx' \in Seq(Nat) /\ Increasing(rx') /\ Len(rx') <= rxlimit
        /\ Range(rx') \subseteq arrived' /\ dropped' \subseteq arrived'
        /\ input' \subseteq 1..Len(sent)
        /\ \A m \in arrived' : sent[m].data => m \in input'
        /\ \A g \in Nat : Waiting(rx', g) /\ Served(g)'
    BY <1>3, <1>4, <1>6, DecodeKeeps
  <2> QED
    BY <1>1, <1>2, <1>4, <2>1 DEF Decoded, Waiting, Increasing
<1> QED
  BY <1>5, <1>6

\* Whatever is lost, repeated or reordered, the encoder's packets stay aligned and the
\* decoder serves every group.
THEOREM Inductive == Spec => []FECInv
<1>1. ASSUME Init PROVE FECInv
  <2>1. /\ sent = <<>> /\ rx = <<>> /\ net = {} /\ input = {} /\ arrived = {} /\ dropped = {}
        /\ next = Start /\ shardCount = 0
    BY <1>1 DEF Init
  <2>2. Len(sent) = 0 /\ Len(rx) = 0 /\ sent \in Seq(Packet) /\ rx \in Seq(Nat) /\ 1..Len(sent) = {}
    BY <2>1
  <2>3. Coded
    <3>1. 0 \in Nat /\ 0 = 0 * shardSize + 0
      BY Sizes
    <3>2. Start = Id(1)
      BY Sizes DEF Id
    <3>3. 0 \in 0..(dataShards - 1) /\ 0 <= MaxSent
      BY Sizes
    <3> QED
      BY <2>1, <2>2, <3>1, <3>2, <3>3 DEF Coded
  <2>4. Range(rx) = {}
    BY <2>1 DEF Range
  <2>5. \A g \in Nat : Waiting(rx, g) /\ Served(g)
    <3>1. TAKE g \in Nat
    <3>2. Range(rx) \cap Members(g) = {}
      BY <2>4
    <3>3. Cardinality(Range(rx) \cap Members(g)) = 0
      BY <3>2, FS_EmptySet, Zenon
    <3>4. Waiting(rx, g)
      BY <3>3, Sizes DEF Waiting
    <3> QED
      BY <2>1, <3>4 DEF Served
  <2>6. Increasing(rx) /\ Len(rx) <= rxlimit
    BY <2>2, Sizes DEF Increasing
  <2> QED
    BY <2>1, <2>2, <2>3, <2>4, <2>5, <2>6 DEF FECInv, Decoded
<1>2. ASSUME FECInv, [Next]_vars PROVE FECInv'
  <2>1. CASE Encode
    BY <1>2, <2>1, EncodeKeepsDecoded DEF FECInv
  <2>2. CASE Receive
    BY <1>2, <2>2, ReceiveKeepsDecoded DEF FECInv
  <2>3. CASE UNCHANGED vars
    BY <1>2, <2>3 DEF vars, FECInv, Coded, Decoded, Waiting, Served, Increasing
  <2> QED
    BY <1>2, <2>1, <2>2, <2>3 DEF Next
<1> QED
  BY <1>1, <1>2, PTL DEF Spec

\* The groups the checked properties speak of.
LEMMA GroupsNat == 0..Group(MaxSent) \subseteq Nat
<1> DEFINE a == MaxSent - 1
<1>1. a \in Int
  BY Sizes
<1> HIDE DEF a
<1>2. a \div shardSize \in Int
  BY <1>1, Sizes, DivMod
<1> QED
  BY <1>2 DEF Group, a

\* The encoder's groups are aligned, the queue is sorted and within its limit, and no
\* group that could be decoded waits in it.
THEOREM QueueKept == Spec => []QueueInv
<1>1. ASSUME FECInv PROVE QueueInv
  <2>1. /\ Coded /\ rx \in Seq(Nat) /\ Increasing(rx) /\ Len(rx) <= rxlimit
        /\ Range(rx) \subseteq arrived /\ arrived \subseteq 1..Len(sent)
        /\ Len(sent) \in Nat /\ Len(sent) <= MaxSent
    <3>1. Coded /\ Decoded
      BY <1>1 DEF FECInv
    <3> QED
      BY <3>1 DEF Coded, Decoded
  <2>2. TypeOK
    <3>1. next \in 0..(IdSpace - 1)
      <4>1. next = Id(Len(sent) + 1) /\ Len(sent) + 1 \in 1..(Most + 1)
        BY <2>1, Sizes DEF Coded
      <4> QED
        BY <4>1, IdType
    <3>2. rx \in Seq(arrived)
      <4>1. \A k \in 1..Len(rx) : rx[k] \in arrived
        BY <2>1, RangeIs
      <4> QED
        BY <2>1, <4>1
    <3> QED
      BY <1>1, <3>1, <3>2 DEF FECInv, Coded, Decoded, TypeOK
  <2>3. GroupsAligned
    <3>1. ASSUME NEW n \in 1..Len(sent)
          PROVE  seqid(n) % shardSize = Pos(n) /\ (sent[n].data <=> Pos(n) < dataShards)
      BY <2>1, Numbers, IdInGroup
    <3>2. ASSUME NEW n \in 1..Len(sent) PROVE sent[n].data \in BOOLEAN
      <4>1. sent[n] \in Packet
        BY <2>1 DEF Coded
      <4> QED
        BY <4>1 DEF Packet
    <3> QED
      BY <3>1, <3>2 DEF GroupsAligned, Pos
  <2>4. QueueSorted
    <3>1. ASSUME NEW i \in 1..(Len(rx) - 1) PROVE Diff(seqid(rx[i + 1]), seqid(rx[i])) > 0
      <4>1. i \in 1..Len(rx) /\ i + 1 \in 1..Len(rx) /\ i < i + 1
        BY <2>1
      <4>2. rx[i] < rx[i + 1] /\ rx[i] \in 1..Len(sent) /\ rx[i + 1] \in 1..Len(sent)
            /\ rx[i] \in Nat /\ rx[i + 1] \in Nat
        BY <2>1, <4>1, RangeIs DEF Increasing
      <4>3. /\ seqid(rx[i]) = Id(rx[i]) /\ seqid(rx[i + 1]) = Id(rx[i + 1])
            /\ rx[i] \in 1..Most /\ rx[i + 1] \in 1..Most
        BY <2>1, <4>2, Numbers
      <4>4. Diff(Id(rx[i + 1]), Id(rx[i])) > 0
        BY <4>2, <4>3, Signed
      <4> QED
        BY <4>3, <4>4
    <3> QED
      BY <2>1, <3>1 DEF QueueSorted
  <2>5. NoneWaiting
    BY <1>1, GroupsNat DEF FECInv, Decoded, Waiting, NoneWaiting
  <2> QED
    BY <2>2, <2>3, <2>4, <2>5 DEF QueueInv
<1> QED
  BY <1>1, Inductive, PTL

\* What KCP is given are packets that were sent: shards are never rebuilt across groups.
THEOREM NothingInventedEver == Spec => []NothingInvented
<1>1. ASSUME FECInv PROVE NothingInvented
  BY <1>1 DEF FECInv, Decoded, NothingInvented, Garbage
<1> QED
  BY <1>1, Inductive, PTL

\* dataShards packets of a group, whichever they are and in whatever order they come,
\* give all its data; only those the limit of the queue has pushed out do not count.
THEOREM GroupsRecovered == Spec => []GroupRecovered
<1>1. ASSUME FECInv PROVE GroupRecovered
  <2>1. SUFFICES ASSUME NEW g \in Nat,
                        Cardinality((arrived \cap Members(g)) \ dropped) >= dataShards
                 PROVE  DataOf(g) \subseteq input
    BY GroupsNat DEF GroupRecovered
  <2>2. Waiting(rx, g) /\ Served(g) /\ Range(rx) \subseteq arrived
    BY <1>1 DEF FECInv, Decoded
  <2> DEFINE kept == (arrived \cap Members(g)) \ dropped
  <2>3. SUFFICES ASSUME kept \subseteq Range(rx) PROVE FALSE
    BY <2>1, <2>2 DEF Served
  <2>4. kept \subseteq Range(rx) \cap Members(g)
    BY <2>3
  <2>5. /\ Cardinality(Range(rx) \cap Members(g)) \in Nat /\ Cardinality(kept) \in Nat
        /\ Cardinality(kept) <= Cardinality(Range(rx) \cap Members(g))
    <3>1. IsFiniteSet(1..Len(sent)) /\ arrived \subseteq 1..Len(sent)
      BY <1>1, FS_Interval DEF FECInv, Decoded, Coded
    <3>2. IsFiniteSet(Range(rx) \cap Members(g))
      BY <2>2, <3>1, FS_Subset
    <3> HIDE DEF kept
    <3> QED
      BY <2>4, <3>2, FS_Subset, FS_CardinalityType
  <2> DEFINE c == Cardinality(Range(rx) \cap Members(g))
             k == Cardinality(kept)
  <2>6. k >= dataShards /\ c < dataShards /\ k <= c /\ k \in Nat /\ c \in Nat
    BY <2>1, <2>2, <2>5, Zenon DEF Waiting
  <2> HIDE DEF c, k
  <2> QED
    BY <2>6, Sizes
<1> QED
  BY <1>1, Inductive, PTL

=============================================================================
