-------------------------------- MODULE KCP --------------------------------
(***************************************************************************)
(* The ARQ core of kcp-go (third_party/kcp-go/kcp.go): two KCP control     *)
(* blocks that carry one conversation over a datagram service that loses,  *)
(* duplicates and reorders.  UDPSession (sess.go) drives each block under  *)
(* its mutex, so every call is one step: WriteBuffers (a loop of Send and  *)
(* one flush), update (flush), Read (Recv) and kcpInput (Input).           *)
(*                                                                         *)
(* Abstractions.                                                           *)
(*  - A byte is identified by its position in the writer's stream: the     *)
(*    code never looks into a payload.  A segment's payload is a Chunk.    *)
(*  - snd_buf and rcv_buf are slices sorted by sn without repetition; here *)
(*    they are functions from sn.                                          *)
(*  - Time is not a number: a retransmission timer (or the fast and early  *)
(*    retransmit counters, which only bring a retransmission forward) may  *)
(*    be due for any set of unacknowledged segments at any flush, and the  *)
(*    window probe timer may have expired at any flush that finds it armed.*)
(*  - One segment per datagram.  Segments that share a datagram are read   *)
(*    in one Input; splitting them only adds interleavings.                *)
(*  - Sequence numbers do not wrap (see the README); the 16-bit wnd field  *)
(*    does, modulo WndSpace.                                               *)
(*  - Congestion control is off (nc = 1), as in every named -mode.         *)
(***************************************************************************)
EXTENDS Integers, Sequences, FiniteSets

CONSTANTS
    Mss,        \* kcp.mss: payload bytes a segment can hold
    SndWnd,     \* kcp.snd_wnd of each end, in segments
    RcvWnd,     \* kcp.rcv_wnd of each end, in segments
    InitWnd,    \* IKCP_WND_RCV, the remote window assumed before any packet
    WndSpace,   \* 2^16, the range of the wnd field on the wire
    AckNoDelay, \* UDPSession.ackNoDelay
    WriteDelay, \* UDPSession.writeDelay
    Fec,        \* whether datagrams may also come out of the FEC decoder
    MaxWrite,   \* bound: bytes in one Write
    MaxBytes,   \* bound: bytes each end's application writes in all
    NetCap,     \* bound: datagrams in flight towards each end
    AckCap      \* bound: length of acklist

Ends == {"client", "server"}

Peer(e) == IF e = "client" THEN "server" ELSE "client"

ASSUME ConstantsAssumption ==
    /\ Mss \in Nat \ {0}
    /\ SndWnd \in [Ends -> Nat \ {0}]
    /\ RcvWnd \in [Ends -> Nat \ {0}]
    /\ InitWnd \in Nat
    /\ WndSpace \in Nat \ {0}
    /\ AckNoDelay \in BOOLEAN
    /\ WriteDelay \in BOOLEAN
    /\ Fec \in BOOLEAN
    /\ MaxWrite \in Nat \ {0}
    /\ MaxBytes \in [Ends -> Nat]
    /\ NetCap \in [Ends -> Nat \ {0}]
    /\ AckCap \in Nat \ {0}

\* Payload: bytes lo+1 .. hi of the stream written by the sending end.
Chunk == [lo : Nat, hi : Nat]
NoData == [lo |-> 0, hi |-> 0]

Cmd == {"PUSH", "ACK", "WASK", "WINS"}

\* The fields of an encoded segment that the other end acts on.
Segment == [cmd : Cmd, sn : Nat, una : Nat, wnd : Nat, data : Chunk]

\* A segment of snd_buf: delSegment frees the payload when it is acked.
Slot == [data : Chunk, acked : BOOLEAN]

VARIABLES
    snd_queue,  \* written, not yet numbered
    snd_buf,    \* numbered, not yet known to be received in order
    snd_una,    \* first unacknowledged sn
    snd_nxt,    \* next sn to assign
    rcv_buf,    \* received, ahead of rcv_nxt or waiting for room
    rcv_queue,  \* received in order, not yet read
    rcv_nxt,    \* next sn expected
    acklist,    \* sn's to acknowledge at the next flush
    rmt_wnd,    \* the window the other end last told
    probe,      \* window commands to send at the next flush
    probe_wait, \* whether the zero-window probe timer is armed
    todo,       \* bytes WriteBuffers, holding the mutex, has still to Send
    net,        \* datagrams on their way to an end
    written,    \* bytes accepted by Write
    rstream,    \* history: the bytes Read has returned
    sent        \* history: the payload of each sn, in order

sndVars == <<snd_queue, snd_buf, snd_una, snd_nxt, sent>>
rcvVars == <<rcv_buf, rcv_queue, rcv_nxt, rstream>>
ctlVars == <<acklist, rmt_wnd, probe, probe_wait>>
vars == <<snd_queue, snd_buf, snd_una, snd_nxt, rcv_buf, rcv_queue, rcv_nxt,
          acklist, rmt_wnd, probe, probe_wait, todo, net, written, rstream, sent>>

NoSlots == [s \in {} |-> NoData]

\* NewKCP at both ends, followed by the options UDPSession sets.
Init ==
    /\ snd_queue = [e \in Ends |-> <<>>]
    /\ snd_buf = [e \in Ends |-> NoSlots]
    /\ snd_una = [e \in Ends |-> 0]
    /\ snd_nxt = [e \in Ends |-> 0]
    /\ rcv_buf = [e \in Ends |-> NoSlots]
    /\ rcv_queue = [e \in Ends |-> <<>>]
    /\ rcv_nxt = [e \in Ends |-> 0]
    /\ acklist = [e \in Ends |-> <<>>]
    /\ rmt_wnd = [e \in Ends |-> InitWnd]
    /\ probe = [e \in Ends |-> {}]
    /\ probe_wait = [e \in Ends |-> FALSE]
    /\ todo = [e \in Ends |-> 0]
    /\ net = [e \in Ends |-> {}]
    /\ written = [e \in Ends |-> 0]
    /\ rstream = [e \in Ends |-> <<>>]
    /\ sent = [e \in Ends |-> <<>>]

-----------------------------------------------------------------------------
(* Helpers *)

Smaller(a, b) == IF a <= b THEN a ELSE b

\* The other calls on a session wait while WriteBuffers holds its mutex.
Unlocked(e) == todo[e] = 0

WaitSnd(e, queue) == Cardinality(DOMAIN snd_buf[e]) + Len(queue)

\* wnd_unused, with the conversion to uint16.
WndUnused(e, queue) ==
    IF Len(queue) < RcvWnd[e] THEN (RcvWnd[e] - Len(queue)) % WndSpace ELSE 0

ControlSeg(cmd, sn, una, wnd) ==
    [cmd |-> cmd, sn |-> sn, una |-> una, wnd |-> wnd, data |-> NoData]

\* flush: an item that in-order delivery has overtaken is only sent if it is
\* the last of the list, the una of every segment covers it.
AckSegs(acks, nxt, wnd) ==
    {ControlSeg("ACK", acks[i], nxt, wnd) :
        i \in {j \in DOMAIN acks : acks[j] >= nxt \/ j = Len(acks)}}

\* The datagram service: what flush hands over joins what is in flight, and
\* anything may be lost.
Transit(e, segs) ==
    \E kept \in SUBSET (net[Peer(e)] \cup segs) :
        /\ Cardinality(kept) <= NetCap[Peer(e)]
        /\ net' = [net EXCEPT ![Peer(e)] = kept]

-----------------------------------------------------------------------------
(* Sending *)

\* KCP.Send in stream mode with 0 < n <= Mss bytes: fill up the last queued
\* segment, then queue what is left as a new one.
Send(queue, pos, n) ==
    LET last == queue[Len(queue)]
        grow == IF queue = <<>> \/ last.hi - last.lo >= Mss THEN 0
                ELSE Smaller(Mss - (last.hi - last.lo), n)
        grown == IF grow = 0 THEN queue
                 ELSE [queue EXCEPT ![Len(queue)] = [lo |-> last.lo, hi |-> last.hi + grow]]
    IN  IF grow = n THEN grown
        ELSE Append(grown, [lo |-> pos + grow, hi |-> pos + n])

\* Mutant: the window is counted from snd_nxt.
NewSegs_FromNext(e, queue) == Smaller(Smaller(SndWnd[e], rmt_wnd[e]), Len(queue))

\* Mutant: the remote window is not looked at.
NewSegs_OwnWindow(e, queue) ==
    LET room == snd_una[e] + SndWnd[e] - snd_nxt[e]
    IN  IF room <= 0 THEN 0 ELSE Smaller(room, Len(queue))

\* How many queued segments the window lets flush number.
NewSegs(e, queue) ==
    LET room == snd_una[e] + Smaller(SndWnd[e], rmt_wnd[e]) - snd_nxt[e]
    IN  IF room <= 0 THEN 0 ELSE Smaller(room, Len(queue))

\* A flush that finds the remote window closed arms the probe timer; a later
\* one that still finds it closed may find the timer expired.
ProbeArmed(e) == rmt_wnd[e] = 0 /\ probe_wait[e]

\* The segments of snd_buf a timer may make flush send again.
Unacked(e) == {s \in DOMAIN snd_buf[e] : ~snd_buf[e][s].acked}

\* snd_buf once flush has numbered the segments the window admits.
Numbered(e, queue) ==
    LET fresh == snd_nxt[e] .. (snd_nxt[e] + NewSegs(e, queue) - 1) IN
    [s \in DOMAIN snd_buf[e] \cup fresh |->
        IF s \in fresh
        THEN [data |-> queue[s - snd_nxt[e] + 1], acked |-> FALSE]
        ELSE snd_buf[e][s]]

PushSeg(sn, una, wnd, chunk) ==
    [cmd |-> "PUSH", sn |-> sn, una |-> una, wnd |-> wnd, data |-> chunk]

\* What flush hands to the datagram service: acknowledgements, window
\* commands, the segments it has just numbered and the ones in "due".
FlushSegs(e, queue, due, expired) ==
    LET buf == Numbered(e, queue)
        fresh == DOMAIN buf \ DOMAIN snd_buf[e]
        wnd == WndUnused(e, rcv_queue[e])
        una == rcv_nxt[e]
        asks == probe[e] \cup (IF expired THEN {"WASK"} ELSE {})
    IN  AckSegs(acklist[e], una, wnd)
        \cup {ControlSeg(c, 0, una, wnd) : c \in asks}
        \cup {PushSeg(s, una, wnd, buf[s].data) : s \in fresh \cup due}

\* KCP.flush(false) with send queue "queue", where the segments in "due" are
\* to be retransmitted and "expired" tells whether the probe timer ran out.
Flush(e, queue, due, expired) ==
    LET n == NewSegs(e, queue) IN
    /\ snd_buf' = [snd_buf EXCEPT ![e] = Numbered(e, queue)]
    /\ snd_nxt' = [snd_nxt EXCEPT ![e] = snd_nxt[e] + n]
    /\ snd_queue' = [snd_queue EXCEPT ![e] = SubSeq(queue, n + 1, Len(queue))]
    /\ sent' = [sent EXCEPT ![e] = sent[e] \o SubSeq(queue, 1, n)]
    /\ acklist' = [acklist EXCEPT ![e] = <<>>]
    /\ probe' = [probe EXCEPT ![e] = {}]
    /\ probe_wait' = [probe_wait EXCEPT ![e] = (rmt_wnd[e] = 0)]
    /\ Transit(e, FlushSegs(e, queue, due, expired))

\* UDPSession.WriteBuffers of n bytes, from the check of WaitSnd on.
WriteBegin(e, n) ==
    /\ Unlocked(e)
    /\ written[e] + n <= MaxBytes[e]
    /\ WaitSnd(e, snd_queue[e]) < SndWnd[e]
    /\ todo' = [todo EXCEPT ![e] = n]
    /\ UNCHANGED <<sndVars, rcvVars, ctlVars, net, written>>

\* One round of its loop: Send(b[:mss]).
WriteChunk(e) ==
    /\ todo[e] > Mss
    /\ snd_queue' = [snd_queue EXCEPT ![e] = Send(snd_queue[e], written[e], Mss)]
    /\ written' = [written EXCEPT ![e] = written[e] + Mss]
    /\ todo' = [todo EXCEPT ![e] = todo[e] - Mss]
    /\ UNCHANGED <<snd_buf, snd_una, snd_nxt, sent, rcvVars, ctlVars, net>>

\* Mutant: the flush works on the queue as it was before the last Send.
WriteEnd_FlushesFirst(e, due, expired) ==
    /\ todo[e] \in 1..Mss
    /\ Flush(e, snd_queue[e], due, expired)
    /\ written' = [written EXCEPT ![e] = written[e] + todo[e]]
    /\ todo' = [todo EXCEPT ![e] = 0]
    /\ UNCHANGED <<snd_una, rcvVars, rmt_wnd>>

\* The last round, and the flush that follows it unless writeDelay leaves
\* that to the updater.
WriteEnd(e, due, expired) ==
    LET queue == Send(snd_queue[e], written[e], todo[e]) IN
    /\ todo[e] \in 1..Mss
    /\ IF ~WriteDelay \/ WaitSnd(e, queue) >= SndWnd[e]
       THEN Flush(e, queue, due, expired)
       ELSE /\ snd_queue' = [snd_queue EXCEPT ![e] = queue]
            /\ UNCHANGED <<snd_buf, snd_nxt, sent, acklist, probe, probe_wait, net>>
    /\ written' = [written EXCEPT ![e] = written[e] + todo[e]]
    /\ todo' = [todo EXCEPT ![e] = 0]
    /\ UNCHANGED <<snd_una, rcvVars, rmt_wnd>>

\* UDPSession.update, called by the updater.
Update(e, due, expired) ==
    /\ Unlocked(e)
    /\ Flush(e, snd_queue[e], due, expired)
    /\ UNCHANGED <<snd_una, rcvVars, rmt_wnd, todo, written>>

-----------------------------------------------------------------------------
(* Receiving *)

Lowest(S, i) == CHOOSE s \in S : Cardinality({t \in S : t < s}) = i - 1

\* Mutant: rcv_buf is moved whatever sn it starts at.
MoveRun_SkipsHoles(e, buf, queue) ==
    LET k == IF Len(queue) < RcvWnd[e] THEN Cardinality(DOMAIN buf) ELSE 0 IN
    /\ rcv_nxt' = [rcv_nxt EXCEPT ![e] = rcv_nxt[e] + k]
    /\ rcv_queue' = [rcv_queue EXCEPT ![e] =
                        queue \o [i \in 1..k |-> buf[Lowest(DOMAIN buf, i)]]]
    /\ rcv_buf' = [rcv_buf EXCEPT ![e] = IF k = 0 THEN buf ELSE NoSlots]

\* Mutant: the run is moved even when rcv_queue is full.
MoveRun_NoRoomTest(e, buf, queue) ==
    \E k \in 0..Cardinality(DOMAIN buf) :
        /\ \A i \in 0..(k - 1) : rcv_nxt[e] + i \in DOMAIN buf
        /\ rcv_nxt[e] + k \notin DOMAIN buf
        /\ rcv_nxt' = [rcv_nxt EXCEPT ![e] = rcv_nxt[e] + k]
        /\ rcv_queue' = [rcv_queue EXCEPT ![e] =
                            queue \o [i \in 1..k |-> buf[rcv_nxt[e] + i - 1]]]
        /\ rcv_buf' = [rcv_buf EXCEPT ![e] =
                            [s \in {t \in DOMAIN buf : t >= rcv_nxt[e] + k} |-> buf[s]]]

\* Moves the run of segments that starts at rcv_nxt to the end of "queue".
\* The room is looked at before each segment, but queue only grows after the
\* last of them: one free place lets the whole run in.
MoveRun(e, buf, queue) ==
    \E k \in 0..Cardinality(DOMAIN buf) :
        /\ IF Len(queue) < RcvWnd[e]
           THEN /\ \A i \in 0..(k - 1) : rcv_nxt[e] + i \in DOMAIN buf
                /\ rcv_nxt[e] + k \notin DOMAIN buf
           ELSE k = 0
        /\ rcv_nxt' = [rcv_nxt EXCEPT ![e] = rcv_nxt[e] + k]
        /\ rcv_queue' = [rcv_queue EXCEPT ![e] =
                            queue \o [i \in 1..k |-> buf[rcv_nxt[e] + i - 1]]]
        /\ rcv_buf' = [rcv_buf EXCEPT ![e] =
                            [s \in {t \in DOMAIN buf : t >= rcv_nxt[e] + k} |-> buf[s]]]

\* Mutant: the segment that was read stays in rcv_queue.
Recv_Keeps(e) ==
    LET head == Head(rcv_queue[e]) IN
    /\ Unlocked(e)
    /\ rcv_queue[e] # <<>>
    /\ rstream' = [rstream EXCEPT ![e] =
                      rstream[e] \o [i \in 1..(head.hi - head.lo) |-> head.lo + i]]
    /\ MoveRun(e, rcv_buf[e], rcv_queue[e])
    /\ UNCHANGED <<sndVars, ctlVars, todo, net, written>>

\* UDPSession.Read: KCP.Recv of the segment at the head of rcv_queue.
Recv(e) ==
    LET head == Head(rcv_queue[e]) IN
    /\ Unlocked(e)
    /\ rcv_queue[e] # <<>>
    /\ rstream' = [rstream EXCEPT ![e] =
                      rstream[e] \o [i \in 1..(head.hi - head.lo) |-> head.lo + i]]
    /\ MoveRun(e, rcv_buf[e], Tail(rcv_queue[e]))
    /\ probe' = IF Len(rcv_queue[e]) >= RcvWnd[e] /\ Len(rcv_queue'[e]) < RcvWnd[e]
                THEN [probe EXCEPT ![e] = probe[e] \cup {"WINS"}]
                ELSE probe
    /\ UNCHANGED <<sndVars, acklist, rmt_wnd, probe_wait, todo, net, written>>

\* parse_una: what una covers goes.
RestrictFrom(buf, una) == [s \in {t \in DOMAIN buf : t >= una} |-> buf[s]]

\* shrink_buf: snd_una is the first segment that is left.
ShrinkBuf(e, buf) ==
    IF DOMAIN buf = {} THEN snd_nxt[e]
    ELSE CHOOSE s \in DOMAIN buf : \A t \in DOMAIN buf : s <= t

\* Mutant: snd_una is taken from the datagram, however old it is.
InputHeader_TakesUna(e, m, regular) ==
    /\ Unlocked(e)
    /\ m \in net[e]
    /\ rmt_wnd' = IF regular THEN [rmt_wnd EXCEPT ![e] = m.wnd] ELSE rmt_wnd
    /\ snd_una' = [snd_una EXCEPT ![e] = m.una]
    /\ UNCHANGED <<snd_queue, snd_nxt, sent, rstream, probe_wait, todo, written>>

\* What Input does for every segment: the window (trusted from a regular
\* packet only), parse_una and shrink_buf.
InputHeader(e, m, regular) ==
    /\ Unlocked(e)
    /\ m \in net[e]
    /\ rmt_wnd' = IF regular THEN [rmt_wnd EXCEPT ![e] = m.wnd] ELSE rmt_wnd
    /\ snd_una' = [snd_una EXCEPT ![e] = ShrinkBuf(e, RestrictFrom(snd_buf[e], m.una))]
    /\ UNCHANGED <<snd_queue, snd_nxt, sent, rstream, probe_wait, todo, written>>

\* The end of Input: with ackNoDelay the acknowledgements leave at once, when
\* m was the last segment of its datagram.
InputTail(e, acks, last) ==
    IF AckNoDelay /\ last /\ acks # <<>>
    THEN /\ acklist' = [acklist EXCEPT ![e] = <<>>]
         /\ Transit(e, AckSegs(acks, rcv_nxt'[e], WndUnused(e, rcv_queue'[e])))
    ELSE /\ acklist' = [acklist EXCEPT ![e] = acks]
         /\ UNCHANGED net

\* Mutant: an ack is taken to cover every earlier segment.
ParseAck_Cumulative(buf, sn) ==
    [s \in DOMAIN buf |-> IF s <= sn THEN [data |-> NoData, acked |-> TRUE] ELSE buf[s]]

\* parse_ack: mark the segment and free its payload, una will remove it.
ParseAck(buf, sn) ==
    IF sn \in DOMAIN buf
    THEN [buf EXCEPT ![sn] = [data |-> NoData, acked |-> TRUE]]
    ELSE buf

InputAck(e, m, regular, last) ==
    /\ m.cmd = "ACK"
    /\ InputHeader(e, m, regular)
    /\ snd_buf' = [snd_buf EXCEPT ![e] = ParseAck(RestrictFrom(snd_buf[e], m.una), m.sn)]
    /\ UNCHANGED <<rcv_buf, rcv_queue, rcv_nxt, probe>>
    /\ InputTail(e, acklist[e], last)

\* parse_data: a segment of the receive window is kept unless it is there.
ParseData(e, m) ==
    LET buf == rcv_buf[e]
        buf1 == IF m.sn \in DOMAIN buf THEN buf
                ELSE [s \in DOMAIN buf \cup {m.sn} |-> IF s = m.sn THEN m.data ELSE buf[s]]
    IN  MoveRun(e, buf1, rcv_queue[e])

InputPush(e, m, regular, last) ==
    /\ m.cmd = "PUSH"
    /\ InputHeader(e, m, regular)
    /\ snd_buf' = [snd_buf EXCEPT ![e] = RestrictFrom(snd_buf[e], m.una)]
    /\ UNCHANGED probe
    /\ \/ /\ m.sn >= rcv_nxt[e] + RcvWnd[e]
          /\ UNCHANGED <<rcv_buf, rcv_queue, rcv_nxt>>
          /\ InputTail(e, acklist[e], last)
       \/ /\ m.sn < rcv_nxt[e] + RcvWnd[e]
          /\ Len(acklist[e]) < AckCap
          /\ IF m.sn >= rcv_nxt[e] THEN ParseData(e, m)
             ELSE UNCHANGED <<rcv_buf, rcv_queue, rcv_nxt>>
          /\ InputTail(e, Append(acklist[e], m.sn), last)

\* Mutant: a window probe is not answered.
InputProbe_Silent(e, m, regular, last) ==
    /\ m.cmd \in {"WASK", "WINS"}
    /\ InputHeader(e, m, regular)
    /\ snd_buf' = [snd_buf EXCEPT ![e] = RestrictFrom(snd_buf[e], m.una)]
    /\ UNCHANGED <<rcv_buf, rcv_queue, rcv_nxt, probe>>
    /\ InputTail(e, acklist[e], last)

InputProbe(e, m, regular, last) ==
    /\ m.cmd \in {"WASK", "WINS"}
    /\ InputHeader(e, m, regular)
    /\ snd_buf' = [snd_buf EXCEPT ![e] = RestrictFrom(snd_buf[e], m.una)]
    /\ probe' = IF m.cmd = "WASK" THEN [probe EXCEPT ![e] = probe[e] \cup {"WINS"}] ELSE probe
    /\ UNCHANGED <<rcv_buf, rcv_queue, rcv_nxt>>
    /\ InputTail(e, acklist[e], last)

Input(e, m, regular, last) ==
    \/ InputAck(e, m, regular, last)
    \/ InputPush(e, m, regular, last)
    \/ InputProbe(e, m, regular, last)

-----------------------------------------------------------------------------

\* A packet rebuilt by the FEC decoder is not regular.
Regular == IF Fec THEN BOOLEAN ELSE {TRUE}

Next ==
    \E e \in Ends :
        \/ \E n \in 1..MaxWrite : WriteBegin(e, n)
        \/ WriteChunk(e)
        \/ \E due \in SUBSET Unacked(e), expired \in {FALSE, ProbeArmed(e)} :
              WriteEnd(e, due, expired)
        \/ \E due \in SUBSET Unacked(e), expired \in {FALSE, ProbeArmed(e)} :
              Update(e, due, expired)
        \/ Recv(e)
        \/ \E m \in net[e], regular \in Regular, last \in {TRUE, ~AckNoDelay} :
              Input(e, m, regular, last)

Spec == Init /\ [][Next]_vars

(***************************************************************************)
(* Fairness.  The updater calls update over and over, and the network does *)
(* not lose everything: of the flushes that retransmit, and of those at    *)
(* which the probe timer has expired, one gets through again and again, and*)
(* of infinitely many segments of a kind that carry the sender's present   *)
(* una and window, infinitely many are read (for PUSH, the first its sender*)
(* has no ack for).  The application reads what there is to read, a Write  *)
(* in progress ends.                                                       *)
(***************************************************************************)
LosslessUpdate(e, due, expired) ==
    LET segs == FlushSegs(e, snd_queue[e], due, expired) IN
    /\ Unlocked(e) /\ Cardinality(segs) <= NetCap[Peer(e)]
    /\ net' = [net EXCEPT ![Peer(e)] = segs]
    /\ Update(e, due, expired)

FreshInput(e, cmd) ==
    \E m \in net[e] :
        /\ m.cmd = cmd
        /\ cmd = "PUSH" => \A s \in Unacked(Peer(e)) : m.sn <= s
        /\ m.una = rcv_nxt[Peer(e)]
        /\ m.wnd = WndUnused(Peer(e), rcv_queue[Peer(e)])
        /\ Input(e, m, TRUE, TRUE)

Fairness ==
    /\ \A e \in Ends :
        /\ WF_vars(WriteChunk(e))
        /\ WF_vars(\E due \in SUBSET Unacked(e) : WriteEnd(e, due, FALSE))
        /\ WF_vars(Recv(e))
        /\ SF_vars(LosslessUpdate(e, Unacked(e), FALSE))
        /\ SF_vars(LosslessUpdate(e, {}, ProbeArmed(e)))
    /\ \A cmd \in Cmd : SF_vars(\E e \in Ends : FreshInput(e, cmd))

FairSpec == Spec /\ Fairness

-----------------------------------------------------------------------------
(* Properties *)

\* The variables have their types.
TypeOK ==
    /\ snd_queue \in [Ends -> Seq(Chunk)]
    /\ DOMAIN snd_buf = Ends
    /\ \A e \in Ends : /\ DOMAIN snd_buf[e] \subseteq Nat
                       /\ \A s \in DOMAIN snd_buf[e] : snd_buf[e][s] \in Slot
    /\ snd_una \in [Ends -> Nat]
    /\ snd_nxt \in [Ends -> Nat]
    /\ DOMAIN rcv_buf = Ends
    /\ \A e \in Ends : /\ DOMAIN rcv_buf[e] \subseteq Nat
                       /\ \A s \in DOMAIN rcv_buf[e] : rcv_buf[e][s] \in Chunk
    /\ rcv_queue \in [Ends -> Seq(Chunk)]
    /\ rcv_nxt \in [Ends -> Nat]
    /\ acklist \in [Ends -> Seq(Nat)]
    /\ rmt_wnd \in [Ends -> Nat]
    /\ probe \in [Ends -> SUBSET {"WASK", "WINS"}]
    /\ probe_wait \in [Ends -> BOOLEAN]
    /\ todo \in [Ends -> Nat]
    /\ net \in [Ends -> SUBSET Segment]
    /\ written \in [Ends -> Nat]
    /\ rstream \in [Ends -> Seq(Nat)]
    /\ sent \in [Ends -> Seq(Chunk)]

\* What an end has read is a prefix of what the other wrote: nothing lost in
\* the middle, repeated, reordered or made up, whatever the network does and
\* whenever segments are retransmitted (parse_data, Recv).
StreamIntegrity ==
    \A e \in Ends :
        /\ Len(rstream[e]) <= written[Peer(e)]
        /\ \A i \in 1..Len(rstream[e]) : rstream[e][i] = i

Stream == INSTANCE ByteStream

\* The two control blocks implement a pair of byte streams: every step of the
\* protocol is a Write, a Read of the next bytes, or invisible to the layer
\* above (UDPSession.Read and WriteBuffers).
ImplementsByteStream == Stream!Spec

Has(e, sn) == sn < rcv_nxt[e] \/ sn \in DOMAIN rcv_buf[e]

\* A segment the sender has removed (parse_una) or whose payload it has freed
\* (parse_ack) is one the receiver really holds or has delivered.
AckedImpliesReceived ==
    \A e \in Ends : \A sn \in 0..(snd_nxt[e] - 1) :
        (sn \notin DOMAIN snd_buf[e] \/ snd_buf[e][sn].acked) => Has(Peer(e), sn)

Covers(c, b) == c.lo < b /\ b <= c.hi

\* Every byte accepted by Write is read at the other end or still held by one
\* of the four queues between: no legal sequence of calls drops it.
NoByteDropped ==
    \A e \in Ends : LET p == Peer(e) IN
        \A b \in (Len(rstream[p]) + 1)..written[e] :
            \/ \E i \in DOMAIN snd_queue[e] : Covers(snd_queue[e][i], b)
            \/ \E sn \in DOMAIN snd_buf[e] : Covers(snd_buf[e][sn].data, b)
            \/ \E sn \in DOMAIN rcv_buf[p] : Covers(rcv_buf[p][sn], b)
            \/ \E i \in DOMAIN rcv_queue[p] : Covers(rcv_queue[p][i], b)

\* flush never has more than snd_wnd segments outstanding, and the send buffer
\* is exactly the window from snd_una to snd_nxt, although snd_una is derived
\* from whatever parse_una leaves in snd_buf (shrink_buf).
SendWindow ==
    \A e \in Ends :
        /\ snd_nxt[e] - snd_una[e] <= SndWnd[e]
        /\ DOMAIN snd_buf[e] = snd_una[e] .. (snd_nxt[e] - 1)

\* No segment in flight lies beyond the receiver's window, so that Input never
\* drops one unacknowledged, although rmt_wnd may come from a stale datagram.
NoOverrun ==
    \A e \in Ends : \A m \in net[e] :
        m.cmd = "PUSH" => m.sn < rcv_nxt[e] + RcvWnd[e]

\* The receive queue stays below twice the receive window: parse_data and
\* Recv admit a whole run when a single place is free.
RcvQueueBound ==
    \A e \in Ends : Len(rcv_queue[e]) <= 2 * RcvWnd[e] - 1

\* A step never takes back progress: snd_una and rcv_nxt do not retreat (even
\* when a stale una arrives) and an acknowledged slot is not reopened.
NoRetreat ==
    [][\A e \in Ends :
          /\ snd_una'[e] >= snd_una[e]
          /\ rcv_nxt'[e] >= rcv_nxt[e]
          /\ \A sn \in DOMAIN snd_buf[e] \cap DOMAIN snd_buf'[e] :
                snd_buf[e][sn].acked => snd_buf'[e][sn].acked]_vars

\* e has queued data, and no timer is left to start it again: the window it
\* was told admits nothing but is not 0, so that no probe is due; every segment
\* is acked; and the peer has nothing more to read or to tell.
Stalled(e) ==
    LET p == Peer(e) IN
    /\ snd_queue[e] # <<>> /\ Unlocked(e)
    /\ NewSegs(e, snd_queue[e]) = 0 /\ Unacked(e) = {} /\ rmt_wnd[e] # 0
    /\ acklist[p] = <<>> /\ probe[p] = {} /\ rcv_queue[p] = <<>>
    /\ snd_queue[p] = <<>> /\ Unacked(p) = {}

\* A sender with queued data always has a way on (flush numbers, retransmits or
\* probes), or a peer that still has something to read or to tell.
NoStall == \A e \in Ends : ~Stalled(e)

\* In the end all that was written has been read: lost segments, lost acks and
\* lost window updates (WINS) are recovered from by retransmission and probing.
\* The one way to fail is the stall, which the run "stall" reaches.
DeliveredOrStalled ==
    \A e \in Ends : <>[](Len(rstream[Peer(e)]) = written[e] \/ Stalled(e))

-----------------------------------------------------------------------------
(***************************************************************************)
(* The inductive invariant behind StreamIntegrity.  The history "sent" is  *)
(* what ties the parts together: every payload found anywhere, in flight   *)
(* or in a buffer, is the one sent under its sn, and those tile the stream.*)
(***************************************************************************)

\* Where the first i chunks of a sequence that starts at byte "from" end.
EndOf(chunks, i, from) == IF i = 0 THEN from ELSE chunks[i].hi

\* The chunks follow one another without a gap or an overlap, from .. to.
Tiles(chunks, from, to) ==
    /\ \A i \in 1..Len(chunks) : /\ chunks[i].lo = EndOf(chunks, i - 1, from)
                                 /\ chunks[i].lo < chunks[i].hi
    /\ EndOf(chunks, Len(chunks), from) = to

Below(chunks, limit) == \A i \in 1..Len(chunks) : chunks[i].hi <= limit

\* Numbered segments and then queued ones make up the bytes written.
StreamTiled(e) ==
    /\ Tiles(sent[e], 0, EndOf(sent[e], Len(sent[e]), 0))
    /\ Tiles(snd_queue[e], EndOf(sent[e], Len(sent[e]), 0), written[e])
    /\ Below(sent[e], written[e])
    /\ Below(snd_queue[e], written[e])

\* The send buffer is the window snd_una .. snd_nxt - 1 of what was numbered.
SndBufSent(e) ==
    /\ snd_nxt[e] = Len(sent[e])
    /\ snd_una[e] <= snd_nxt[e]
    /\ DOMAIN snd_buf[e] = snd_una[e] .. (snd_nxt[e] - 1)
    /\ \A s \in DOMAIN snd_buf[e] : ~snd_buf[e][s].acked => snd_buf[e][s].data = sent[e][s + 1]

\* A PUSH on its way from e carries the payload of its sn.
InFlightSent(e) ==
    \A m \in net[Peer(e)] :
        m.cmd = "PUSH" => m.sn < snd_nxt[e] /\ m.data = sent[e][m.sn + 1]

\* queue is the end of the first nxt chunks.
Mirrors(queue, nxt, chunks) ==
    /\ Len(queue) <= nxt /\ nxt <= Len(chunks)
    /\ \A i \in 1..Len(queue) : queue[i] = chunks[nxt - Len(queue) + i]

\* buf holds chunks at their place, none below nxt.
Waiting(buf, nxt, chunks) ==
    \A s \in DOMAIN buf : /\ s \in Nat /\ nxt <= s /\ s < Len(chunks)
                          /\ buf[s] = chunks[s + 1]

\* So do the segments that wait at the receiver, and rcv_queue holds the ones
\* just below rcv_nxt.
ReceivedSent(e) ==
    LET p == Peer(e) IN
    /\ Waiting(rcv_buf[p], rcv_nxt[p], sent[e])
    /\ Mirrors(rcv_queue[p], rcv_nxt[p], sent[e])

\* What was read is what the segments taken out of rcv_queue hold.
ReadSent(e) ==
    LET p == Peer(e) IN
    /\ Len(rstream[p]) = EndOf(sent[e], rcv_nxt[p] - Len(rcv_queue[p]), 0)
    /\ \A i \in 1..Len(rstream[p]) : rstream[p][i] = i

\* The inductive invariant behind StreamIntegrity: the payload found under a
\* number anywhere (snd_buf, net, rcv_buf, rcv_queue) is the one that Send queued
\* and flush gave that number, and the numbered payloads tile what was written.
IInv ==
    /\ TypeOK
    /\ \A e \in Ends : /\ StreamTiled(e)
                       /\ SndBufSent(e)
                       /\ InFlightSent(e)
                       /\ ReceivedSent(e)
                       /\ ReadSent(e)

=============================================================================
