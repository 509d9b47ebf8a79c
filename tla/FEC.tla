-------------------------------- MODULE FEC --------------------------------
(***************************************************************************)
(* Forward error correction of a session (third_party/kcp-go/fec.go): the  *)
(* encoder numbers datagrams and closes every group of dataShards of them  *)
(* with parityShards parity packets; the decoder keeps a sorted queue of   *)
(* what arrived and, once a group has dataShards packets of either kind,   *)
(* rebuilds the data packets that are missing.                             *)
(*                                                                         *)
(* Abstractions.                                                           *)
(*  - A packet is its position in the sequence of all packets sent; its    *)
(*    seqid, which wraps, is computed from the encoder's state.            *)
(*  - Reed-Solomon: any dataShards shards of one group give its data;      *)
(*    shards of different groups give Garbage.                             *)
(*  - The network loses, repeats and reorders, but a packet does not       *)
(*    outlive Lifetime later ones.                                         *)
(***************************************************************************)
EXTENDS Integers, Sequences, FiniteSets, SequencesExt

CONSTANTS
    dataShards,
    parityShards,
    rxlimit,    \* queue size limit of the decoder
    IdSpace,    \* 2^32, the range of seqid
    Start,      \* the encoder's next seqid when the run begins, a whole number of groups
    Lifetime,   \* bound: how many later packets a packet may be overtaken by
    NetCap,     \* bound: packets in flight
    MaxSent     \* bound: packets sent in all

shardSize == dataShards + parityShards

\* "Protect Against Wrapped Sequence numbers".
paws == ((IdSpace - 1) \div shardSize - 1) * shardSize

ASSUME ConstantsAssumption ==
    /\ dataShards \in Nat \ {0} /\ parityShards \in Nat \ {0}
    /\ rxlimit \in Nat /\ rxlimit >= shardSize
    /\ IdSpace \in Nat /\ paws > 0
    /\ Start \in 0..(paws - 1) /\ Start % shardSize = 0
    /\ Lifetime \in Nat /\ NetCap \in Nat \ {0}
    \* No packet stays in the queue for half the number space, less the early wrap and a
    \* group on either side.
    /\ MaxSent \in Nat /\ MaxSent + 3 * shardSize <= IdSpace \div 2

Garbage == -1

VARIABLES
    next,       \* encoder: next seqid
    shardCount, \* encoder: data shards collected
    sent,       \* history: the packets sent; their number is their identity
    net,        \* numbers of the packets in flight
    rx,         \* decoder: the queue, numbers in seqid order
    input,      \* history: data packets given to KCP, by number
    arrived,    \* history: packets that have arrived
    dropped     \* history: packets the queue limit pushed out that have not come again

vars == <<next, shardCount, sent, net, rx, input, arrived, dropped>>

Packet == [seqid : 0..(IdSpace - 1), data : BOOLEAN]

\* Packets carry a seqid of the number space; the queue holds packets that were sent.
TypeOK ==
    /\ next \in 0..(IdSpace - 1) /\ shardCount \in 0..(dataShards - 1)
    /\ sent \in Seq(Packet)
    /\ net \subseteq 1..Len(sent) /\ arrived \subseteq 1..Len(sent)
    /\ dropped \subseteq arrived /\ input \subseteq 1..Len(sent) \cup {Garbage}
    /\ rx \in Seq(arrived)

Init ==
    /\ next = Start /\ shardCount = 0
    /\ sent = <<>> /\ net = {} /\ rx = <<>>
    /\ input = {} /\ arrived = {} /\ dropped = {}

\* The group of a packet, and whether a group has all its packets.
Group(n) == (n - 1) \div shardSize
Members(g) == (g * shardSize + 1) .. ((g + 1) * shardSize)
DataOf(g) == (g * shardSize + 1) .. (g * shardSize + dataShards)

-----------------------------------------------------------------------------
(* The encoder *)

\* markData: next++, in 32 bits.
MarkData(id) == (id + 1) % IdSpace

\* Mutant: parity runs on to the end of the number space.
MarkParity_NoPaws(id) == (id + 1) % IdSpace

\* markParity: "sequence wrap will only happen at parity shard".
MarkParity(id) == (id + 1) % paws

\* The seqids of the parity packets from id on.
ParityIds(id) ==
    LET at[k \in 1..parityShards] == IF k = 1 THEN id ELSE MarkParity(at[k - 1])
    IN  at

\* "counters resetting".
Collected(count) == IF count + 1 = dataShards THEN 0 ELSE count + 1

\* encode, and WriteTo of the datagram and of the parity that completes its
\* group; any of them may be lost.
Encode ==
    LET packet == [seqid |-> next, data |-> TRUE]
        full == shardCount + 1 = dataShards
        ids == ParityIds(MarkData(next))
        parity == [k \in 1..parityShards |-> [seqid |-> ids[k], data |-> FALSE]]
        all == sent \o <<packet>> \o (IF full THEN parity ELSE <<>>)
        alive == {n \in net \cup (Len(sent) + 1)..Len(all) : n + Lifetime > Len(all)}
    IN  /\ Len(all) <= MaxSent
        /\ sent' = all
        /\ next' = IF full THEN MarkParity(ids[parityShards]) ELSE MarkData(next)
        /\ shardCount' = Collected(shardCount)
        /\ net' \in {S \in SUBSET alive : Cardinality(S) <= NetCap}
        /\ UNCHANGED <<rx, input, arrived, dropped>>

-----------------------------------------------------------------------------
(* The decoder *)

seqid(n) == sent[n].seqid

\* _itimediff: the difference as a signed number of the width of seqid.
Diff(a, b) == ((a - b + IdSpace \div 2) % IdSpace) - IdSpace \div 2

\* Mutant: seqids are compared as plain numbers.
NotNewer_Unsigned(id) == {i \in 1..Len(rx) : id >= seqid(rx[i])}

\* The places of the queue whose packet is not newer than seqid id.
NotNewer(id) == {i \in 1..Len(rx) : Diff(id, seqid(rx[i])) >= 0}

Duplicate(n) ==
    NotNewer(seqid(n)) # {} /\ seqid(rx[Max(NotNewer(seqid(n)))]) = seqid(n)

\* How many packets stay before packet n.
InsertIdx(n) == IF NotNewer(seqid(n)) = {} THEN 0 ELSE Max(NotNewer(seqid(n)))

\* Mutant: the places after the packet are counted from the packet.
Window_FromPacket(q, insertIdx, id) ==
    LET begin == Max({insertIdx - (id % shardSize), 0})
    IN  (begin + 1) .. Min({insertIdx + 1, Len(q)})

\* "max search range in ordered queue for current shard", as places of q.
Window(q, insertIdx, id) ==
    LET begin == Max({insertIdx - (id % shardSize), 0})
    IN  (begin + 1) .. Min({begin + shardSize, Len(q)})

\* Mutant: only the end of the shard range is tested.
Shards_NoBegin(q, insertIdx, id) ==
    LET shardBegin == id - (id % shardSize)
        shardEnd == shardBegin + shardSize - 1
        window == Window(q, insertIdx, id)
    IN  {i \in window : \A j \in window : j <= i => Diff(seqid(q[j]), shardEnd) <= 0}

\* Shard assembly: the places of the window that belong to the packet's group;
\* the loop ends at the first one beyond it.
Shards(q, insertIdx, id) ==
    LET shardBegin == id - (id % shardSize)
        shardEnd == shardBegin + shardSize - 1
        window == Window(q, insertIdx, id)
    IN  IF Cardinality(window) < dataShards THEN {}
        ELSE {i \in window : /\ Diff(seqid(q[i]), shardBegin) >= 0
                             /\ \A j \in window : j <= i => Diff(seqid(q[j]), shardEnd) <= 0}

\* freeRange(first, n): the places of a run go.
FreeRange(q, places) ==
    IF places = {} THEN q
    ELSE LET first == Min(places)
         IN  SubSeq(q, 1, first - 1) \o SubSeq(q, first + Cardinality(places), Len(q))

\* ReconstructData: the missing data packets of the group.
Recovered(used) ==
    LET groups == {Group(n) : n \in used} IN
    IF Cardinality(groups) = 1 THEN DataOf(CHOOSE g \in groups : TRUE) \ used
    ELSE {Garbage}

\* Mutant: the queue is not limited.
KeepLimit_Never(q) == q

\* "keep rxlimit": the first in the queue makes room.
KeepLimit(q) == IF Len(q) > rxlimit THEN Tail(q) ELSE q

\* decode of packet n, and Input of n itself, if it is data, and of what was
\* recovered.
Decode(n) ==
    LET i == InsertIdx(n)
        q == InsertAt(rx, i + 1, n)
        shards == Shards(q, i, seqid(n))
        data == {k \in shards : sent[q[k]].data}
        own == IF sent[n].data THEN {n} ELSE {}
        rebuilt == IF Cardinality(data) = dataShards THEN {}
                   ELSE Recovered({q[k] : k \in shards})
        full == Cardinality(shards) >= dataShards
        queue == IF full THEN FreeRange(q, shards) ELSE q
    IN  /\ input' = input \cup own \cup (IF full THEN rebuilt ELSE {})
        /\ rx' = KeepLimit(queue)
        /\ dropped' = (dropped \ {n}) \cup (Range(queue) \ Range(KeepLimit(queue)))

\* kcpInput with a decoder: Input runs for a data packet even if the decoder
\* has it already.
Receive ==
    /\ \E n \in net :
        /\ net' \in {net, net \ {n}}
        /\ arrived' = arrived \cup {n}
        /\ IF Duplicate(n)
           THEN /\ input' = IF sent[n].data THEN input \cup {n} ELSE input
                /\ UNCHANGED <<rx, dropped>>
           ELSE Decode(n)
    /\ UNCHANGED <<next, shardCount, sent>>

Next == Encode \/ Receive

Spec == Init /\ [][Next]_vars

-----------------------------------------------------------------------------
(* Properties *)

\* Groups start at multiples of shardSize and hold their data packets first,
\* also across the wrap of seqid: the decoder relies on it for every packet.
GroupsAligned ==
    \A n \in 1..Len(sent) :
        /\ seqid(n) % shardSize = (n - 1) % shardSize
        /\ sent[n].data = ((n - 1) % shardSize < dataShards)

\* Whatever was lost, repeated or overtaken, shards are never rebuilt across
\* groups.
NothingInvented == Garbage \notin input

\* The search window of an insertion finds the whole group: a group that has
\* enough packets does not stay in the queue undecoded.
NoneWaiting ==
    \A g \in 0..Group(MaxSent) : Cardinality(Range(rx) \cap Members(g)) < dataShards

\* A group of which dataShards packets have arrived, besides those the limit of the
\* queue (decode, "keep rxlimit") has pushed out, has given all its data.
GroupRecovered ==
    \A g \in 0..Group(MaxSent) :
        Cardinality((arrived \cap Members(g)) \ dropped) >= dataShards
        => DataOf(g) \subseteq input

\* The queue is sorted, free of repetition and within its limit.
QueueSorted ==
    /\ Len(rx) <= rxlimit
    /\ \A i \in 1..(Len(rx) - 1) : Diff(seqid(rx[i + 1]), seqid(rx[i])) > 0

\* What decode relies on and leaves: the encoder's groups are aligned, the decoder's
\* queue is sorted, with everything of its type, and no group waits in it that could
\* be decoded.
QueueInv == TypeOK /\ GroupsAligned /\ QueueSorted /\ NoneWaiting

=============================================================================
