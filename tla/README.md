# kcptun in TLA+

kcptun carries TCP connections between a client and a server over KCP, a reliable
protocol on top of datagrams, and can disguise the datagrams as TCP segments. This
fork adds a UDP relay (`udptun`) for ss-local. The modules here model the parts of
the program whose correctness depends on state that outlives a call and on the order
in which goroutines, timers and the network act. Paths below are relative to `src/`;
`kcp-go` stands for `src/third_party/kcp-go`, the copy the program builds with
(`go.mod:27`; its `PATCH_NOTES.md` says what was changed).

Contents

1. [The system](#1-the-system)
2. [Modules, and how they correspond to the code](#2-modules-and-how-they-correspond-to-the-code)
3. [What the runs check](#3-what-the-runs-check)
4. [Fairness](#4-fairness)
5. [What is proved](#5-what-is-proved)
6. [Where the code and its documents disagree](#6-where-the-code-and-its-documents-disagree)
7. [What is not modelled](#7-what-is-not-modelled)
8. [Plan](#8-plan)

## 1. The system

Two pipelines share no state but the process.

    application -TCP- client/main.go -smux- UDPSession -KCP-FEC-crypt- UDP or rawtcp
                                                                          |
    target      -TCP- server/main.go -smux- UDPSession -KCP-FEC-crypt- UDP or rawtcp

    ss-local -UDP- udptun client -Seal- UDP or rawtcp -Open- udptun server -UDP- target

| Component | State it keeps | Operations | What makes it correct |
| --- | --- | --- | --- |
| **KCP ARQ core** `kcp-go/kcp.go` | `snd_queue`, `snd_buf`, `rcv_buf`, `rcv_queue`, `snd_una`, `snd_nxt`, `rcv_nxt`, `acklist`, `rmt_wnd`, the probe flags and timer | `Send`, `Recv`, `Input`, `flush` | Each end reads a prefix of what the other wrote, whatever is lost, repeated or reordered; a segment is released only when the other end holds it; windows are respected; everything is delivered in the end, but for the stall of section 6 |
| **UDPSession** `kcp-go/sess.go` | the KCP block under `mu`, `bufptr`, deadlines, `die`, the channels `chReadEvent`, `chWriteEvent` (one token each), `chReadError`, `chWriteError` | `Read`, `WriteBuffers`, `kcpInput`, `update`, `SetDeadline`, `Close`, `readLoop` | No bytes lost between the queue and a short buffer; no caller sleeps on over what it waits for; deadlines and `Close` end calls |
| **FEC** `kcp-go/fec.go` | encoder: `next`, the shards collected; decoder: the sorted queue `rx` | `encode`, `decode` | Shards of different groups are never mixed; a group with enough packets gives its data; groups stay aligned when `seqid` wraps |
| **Listener** `kcp-go/sess.go` | `sessions` by address, the backlog `chAccepts` | `monitor`/`packetInput`, `AcceptKCP`, `closeSession` | What is accepted is what its peer's datagrams reach; nothing of a closed session stays; the goroutine never waits for the application |
| **Updater** `kcp-go/updater.go` | a heap of (instant, session), each session's place in it, a wake-up channel and a timer | `addSession`, `removeSession`, `updateTask` | Every session is flushed when its time has come, and a `Close` takes out its own |
| **Server process** `server/main.go` | the session that is set up, a `handleMux` per session | `loop`, `handleMux` | No goroutine of the process waits for good, through `h.mu`, `s.mu` and the backlog; each session is updated while it is open and not after |
| **Raw TCP** `rawtcp/conn_linux.go` | `flowTable`, kernel connections, raw sockets, the cleaner's clock | `captureFlow`, `ReadFrom`, `WriteTo`, `cleaner`, the accept loop, `Close` | Connected peers are heard; silent ones forgotten; after `Close` nothing runs on, and nothing is left open but a connection the accept loop held |
| **Client multiplexing** `client/main.go` | `muxes` (a session per slot, with its expiry), `chScavenger`, the scavenger's list | the accept loop, `createConn`/`waitConn`, `handleClient`, `scavenger` | Connections are dealt to sessions that live; retired sessions are closed and none is forgotten |
| **Streams** `handleClient` of both mains, `compStream` | per connection a TCP socket and a stream at each end, two copies between them | open or dial, the copies, `Close` of both | What was sent arrives unless somebody ends the connection; whichever end or session goes, everything of the connection goes, unless a peer that reads no more jams it |
| **UDP relay, server** `udptun/server.go` | `flows` by (client, id), a socket and a pump per flow, whether the transport still works | `RunServer`'s loop, `flowFor`, `pump`, `reap`, `closeFlow` | Table and sockets agree through every race; a socket carries one asker; unused flows go |
| **UDP relay, client** `udptun/client.go` | `byAddr`, `byID`, `nextID`; the transport `conn`, `lastRecv`; `die` | `localLoop`, `transportLoop`, `flowFor`, `maintain`, `supervise`, the watchdogs | Replies go to who asked; ids are not taken from live flows; a dead transport is replaced, and only one that was silent itself |
| Packet format and ciphers | none | `Seal`, `Open`, `crypt` | A datagram opens to what was sealed or is dropped |
| Configuration, command line, signals, SNMP | - | - | see section 7 |

How they interact. `UDPSession` owns one KCP block and calls it only under `s.mu`:
`WriteBuffers` (a loop of `Send` and usually one `flush`), `Read` (`Recv`), `kcpInput`
(`Input`), and `update` (`flush`), which the updater calls. `kcpInput` passes every
datagram through the FEC decoder and gives KCP the data packets it yields; `flush`
gives the encoder what it puts on the wire. On the server a listener's `monitor` reads
for all sessions, on the client each session has a `readLoop`. Sessions tell the
updater when they open and close; both do so under `h.mu`, which `updateTask` holds while it takes
the `s.mu` of one session after the other, so that a session whose mutex is held keeps every other
one, and whoever opens or closes a session, waiting. The client's accept loop owns the slots and shares
sessions with the handlers and, once they have expired, with the scavenger. A TCP connection has a `handleClient` at each end, which
opens (or accepts and dials), starts two copies and closes both its connections when the first of the
copies ends; the two handlers learn of each other only through the stream they share. The relay's
two ends share only datagrams; inside each, two or more goroutines share tables under a
mutex that none of them holds while it reads, writes, dials or closes a socket.

What is hard to test here, and where the properties aim (the full list, with lines, is
`hazards` in `PROJECT.json`):

- what a goroutine saw under a mutex and acts on after it has let go: `Read`'s decision to
  sleep, `reap`'s list of idle flows, a pump's flow, `handleClient`'s session, the listener's
  accepted connection that `Close` cannot see;
- loss, repetition and reordering at the moments that matter: a lost `WINS`, a late ack,
  a datagram of an earlier flow with the same id;
- one token for several events (`chReadEvent`, `chWriteEvent`, `chWakeUp`), timers started
  for a deadline that moves;
- closing twice, from two goroutines, or while something is on its way; one end of a connection that
  goes while the other still copies;
- numbers that wrap: `seqid`, flow ids, the 16-bit window, and limits off by one: a run of
  segments admitted for one free place;
- what must happen in the end: delivery, the end of a call, a flow closed, a transport replaced.

## 2. Modules, and how they correspond to the code

Each module names its abstractions at its head, and its actions carry the names of the
code. `map` in `PROJECT.json` gives the lines of every definition. In each module a
section of code under a mutex is one step, and what a goroutine does between two
sections, or around a blocking call, is a step of its own with the values the goroutine
carries in its program counter. `MC<module>` supplies constant values and bounds for TLC.

| Module | Models | Notes |
| --- | --- | --- |
| `ByteStream` | the promise of a session: `Write` appends to a stream, `Read` returns the next bytes of the other end's | abstract specification; nothing about packets |
| `KCP` | both control blocks of a conversation and the datagrams between them | implements `ByteStream` by `INSTANCE ... WITH` on the bytes written and read |
| `KCPProofs` | proofs about `KCP` | |
| `UDPSession` | the blocking interface of one session | KCP reduced to its ready segments and `WaitSnd()` |
| `UDPSessionProofs` | proofs about `UDPSession` | |
| `FEC` | the encoder of one session and the decoder of the other | |
| `FECProofs` | proofs about `FEC` | |
| `Listener` | a listener, its sessions and their `Close` | run as a part of `Server` |
| `Updater` | the updater with its heap, place by place | run as a part of `Server` |
| `Server` | the server process: a listener, `loop`, a `handleMux` per session, the updater | extends `Updater`, `INSTANCE`s `Listener` over the updater's sessions |
| `ServerProofs` | proofs about `Updater`, `Listener` and `Server` | |
| `Tunnel` | one TCP connection through both handlers and the four copies | |
| `RawTCP` | one `Conn`, dialled or listening | |
| `RawTCPProofs` | proofs about `RawTCP` | |
| `ClientMux` | the client's accept loop, handlers and scavenger | |
| `StreamProofs` | proofs about `ClientMux` and `Tunnel` | extends both, so their names differ: `TunnelInit`, `TunnelSpec`, ... |
| `UdptunServer`, `UdptunClient` | the flow tables of the relay's ends | the server has its own specification with arbitrary clients; the client is run in `Udptun` |
| `Udptun` | both ends composed, over one network and one clock | extends the client, `INSTANCE`s the server; a step of either leaves the other's variables |
| `UdptunTransport` | `supervise`, the watchdogs and the keepalives | |
| `UdptunServerProofs` | proofs about `UdptunServer` | |
| `UdptunProofs` | proofs about `Udptun` and `UdptunTransport` | takes the server's invariant from `UdptunServerProofs` |

**KCP.** A byte is its position in the stream, since no code looks into payloads; a
segment's payload is the interval `[lo, hi)` of bytes that `Send` gave it. `Send` fills up
the last queued segment first, as stream mode does. Time is not a number: at each flush
the segments whose retransmission is due are an arbitrary set of the unacknowledged ones
(fast and early retransmission only make more of them due), and the probe timer may have
expired whenever it is armed. So whatever RTT estimation computes, its behaviours are
among the model's. `acklist`, `una`, the window field with its 16 bits, `WASK`/`WINS`
probes, `parse_una`/`parse_ack`/`shrink_buf`, the run that `parse_data` moves to
`rcv_queue` and the second place (`Recv`) that moves one are modelled as coded. The datagram
service keeps a set of segments per end, from which `Input` may take one for good
(consumed), leave it (repeated), or never take it (lost: at the bound `NetCap`, one for each direction, older ones make
room). `AckNoDelay`, `WriteDelay` and `Fec` are constants, as they are settings of a session.
`sent` is a history variable: the payload of each sequence number in order. It exists for
the invariant and for nothing else.

**UDPSession.** `ReadCheck` and `WriteCheck` are the sections under `s.mu`; `ReadSelect`
and `WriteSelect` the `select` statements after them, whose enabled branches are an
arbitrary choice as in Go. A goroutine in its select holds the timer it started. `KcpInput`
makes any number of segments ready and frees any number of sent ones. The clock moves one
instant at a time to `MaxTime`; `MaxSets` bounds the calls of `SetDeadline`.

**FEC.** Packets are numbered in the order sent and their `seqid` is computed by the encoder's code,
modulo `IdSpace` (2^32 in the code), `paws` as coded. The queue insertion, the search of the window
around the new packet, the recovery and the limit are translated step by step.
A run sends so few packets (`MaxSent`) that they and three more groups span at most half the number space, and so
`seqid` starts again at most once: the code compares across `seqid`s with a signed difference and relies on the same of
the packets that are in the queue together. `Lifetime` bounds the disorder of the network for TLC.
Reed-Solomon is external: any `dataShards` shards of a group yield its data, and shards
that are not of one group yield `Garbage`.

**Listener, Updater, Server.** `Listener`'s `monitor` is a sequence of steps because it sends to
`chAccepts` outside the lock; `UDPSession.Close` is three (out of the updater, out of the
table, marked as closed), each under a mutex of its own in the code.
`Updater` counts heap places from 1. `container/heap`'s `up` and `down` are recursive functions whose turns,
`RiseOnce` and `SinkOnce`, move an entry by one level; of the intervals it is assumed that one is the longest. Instants are relative to now, so that the state space is
finite although time goes on. `Server` is the two together: a step of `monitor` that makes a session is
one with the updater's `Add`, a `Close` begins with its `Remove`, and both wait for `h.mu`;
`kcpInput`, the setters that `loop` calls and the methods of smux (`Use`) take the session's mutex, for which
`updateTask` waits with `h.mu` in hand; they take that of a closed session as well, since `die` is only
tested under it or not at all. The refinement mapping of the instance reads `Listener`'s set of updated
sessions off the heap's places. smux is external: a session dies at any time, and `handleMux` then
closes the connection below it.

**Tunnel.** A byte is its position in its direction and a copy holds at most one between its read
and its write, which includes what `compStream` flushes after each write (`Written`). It stands for as much as
fills the buffers of a socket: a write to a peer that is connected and has stopped reading (`PeerStops`) waits, and so does
one to a stream that holds `StreamRoom` bytes which the other end has not passed on (`Room`). The end that `Close` of a
stream sends waits for room like a write (`fin` is `"owed"` until then). Of smux it is assumed
that a stream gives its bytes in order and its end after them, that what has arrived can still be read
when the session has died but not when the stream was closed at this end, and that a stream that is
closed can be written no more. The target may be out of reach, a peer may end its direction (`half`) or
go, and a session may be closed at either end at any time. Connections share only the session, so one is enough; that one that waits
also holds up the others of its session is left out.

**RawTCP.** A Conn is what `Listen` or what `Dial` made (`Listening`, `Connected`; the
variable `listener` keeps which). The kernel's handshakes and resets are external actions.
Each raw socket has a `captureFlow`; a dialled Conn has one. Reading a segment (`CaptureReads`) and entering it under
`flowsLock` (`Capture`) are two steps, and so are `WriteTo`'s test of `die` and its `lockflow` (`WriteToLooks`, `WriteTo`):
both may fill the table again after `Close` has emptied it, and the cleaner may take another tick then. `Close` is three
steps, for the dialled connection, the table and the raw sockets. The cleaner's pass ages every flow.
A silent peer is one whose segments nobody captures any more. `held` is a history variable: the connection
that the accept loop had from `AcceptTCP` when `Close` emptied the table.

**ClientMux.** smux is external: a session can open a stream unless it is closed, closes
itself when it dies (`Die`), and has a number of open streams that follows from the handlers
in it. The slot counter `rr` is 16 bits wide in the code and modulo `RRSpace` in the model. The
scavenger's `sessionList` is a set of sessions with their ages, since the order of the list decides nothing.

**Udptun.** A payload is the identity of whoever asked, which is what the properties need
to tell; keepalives are nobody's. `S` is an instance of the server's module; the composition leaves out
its stand-ins for the clients (`Arrive`, `Depart`) and lets the client of `UdptunClient` act, with one
network and one clock (`Tick`). `lastActive` is an age that stops at the first value that counts as
idle. With an idle time of -1 at the server (`AnyTime`) any flow is idle at once, so the server may
forget it at any time: that includes what it does with every longer idle time. There are 2^32 ids in
the code and two in the run; so an id comes round, but only when nothing is left of its last use
(`NoneTooSoon`), which is what the code relies on. `Discard` is a datagram that `Open` rejects, and
`TransportFails` the end of `RunServer`'s loop: it closes `s.die`, which ends the
reaper, while flows and pumps stay. The composition, which asks who gets which reply, leaves that end out.

**UdptunTransport.** Ages are counted in ticks of `maintain`'s ticker and stop at the first value that surely counts as
dead. The code compares times (`now.Sub(lastPing) >= keepAlive`, `time.Since(last) > limit`), and times of two ticks that are `n` apart
differ by a little more or less than `n` seconds. So exactly at an interval `maintain` may ping (`PingDue`) or put it off to the
next tick (`NoPing`), and at the limit a watchdog may find the transport dead or not (`MayBeDead`, `SurelyDead`).
`Maintain` handles a tick before the next second; everything else may lag, so a watchdog may look at one time and
decide at a later one. `LocalFails` is `RunClient`'s end: `die` is closed and each of the goroutines notices
at its next `select`.

## 3. What the runs check

A run uses `MC<module>_<y>.cfg`, where `y` is the last word of its name. Passing runs
finish the whole state space. Deadlock is checked except in `FEC`, `RawTCP`, `ClientMux` and
`Tunnel`, whose bounded or closed systems really stop (all packets sent, the `Conn` closed, all
sessions and connections used up, the connection over).

| Run | Instance | Shows |
| --- | --- | --- |
| `arq` (`KCP`) | 1 byte per segment, windows of 2, 4 bytes one way in writes of up to 2, of the data one segment in flight and of the acks two, delayed acks, packets rebuilt by FEC (which do not update `rmt_wnd`) | `IInv` (section 5), `StreamIntegrity`, `AckedImpliesReceived`, `NoByteDropped`, `SendWindow`, `RcvQueueBound`, `NoRetreat`, and that the protocol implements `ByteStream` (`ImplementsByteStream`) |
| `live` (`KCP`) | 3 bytes one way, a receive window of 1 against a send window of 2, an initial window of 1, immediate acks, FEC, segments in flight as in `arq` | windows that close and reopen, and are told late or not at all: `NoOverrun`; every byte is read in the end, or the sender is in the stall of section 6, which this instance reaches too (`DeliveredOrStalled`, under the fairness of section 4) |
| `stall` (`KCP`) | a violation, section 6 | `NoStall` fails |
| `calls` (`UDPSession`) | one reader, one writer, a dialled session with a read loop; segments of 2 bytes, reads of 1 or 2, a send window of 2, one change of a deadline, 3 instants | no byte is lost between queue and caller (`BytesConserved`), no wakeup is (`ReadWakeup`, `WriteWakeup`), no timer is that of an old deadline (`DeadlineInForce`), and calls end with `Close`, their deadline, or what they wait for (`CallsEnd`); `TypeOK` |
| `flows` (`UdptunServer`) | one flow key, two sockets, idle after 1 second | table and sockets agree and no socket is closed twice, through every race of main loop, pumps, reaper and the end of the transport (`FlowInv`); `IdleFlowsClosed` |
| `relay` (`Udptun`) | one client with two sockets of ss-local, two ids and two transport addresses; a server with one socket; idle times of 0 and at once | the client's tables by address and by id agree, so that no id is taken from a live flow (`TablesInv`); `OneAskerPerSocket`, `RepliesToAsker` |
| `watch` (`UdptunTransport`) | two transports, `KeepAlive` 3 seconds | a transport that was dropped is not handed out (`WatchInv`); only three silent intervals of the transport itself drop it, in which two heartbeats were sent, so that one that is lost does not (`DroppedForItsSilence`); `DeadReplaced` |
| `fec_code` (`FEC`) | groups of 3+1, twelve packets across the wrap of `seqid` in a number space of 50, a queue of 4, packets outlived by 6 later ones, 2 in flight | groups stay aligned in `seqid`, the queue sorted and within its limit, and no decodable group waits in it (`QueueInv`); `NothingInvented`; a group of which 3 packets came that the full queue did not push out gives its data (`GroupRecovered`) |
| `sessions` (`Server`) | two addresses, FEC parity, a backlog of 1, two sessions, intervals of 1 and 2 instants, no lateness | every session's place in the heap is known to it, the head is the earliest and the timer in force wakes `updateTask` for it (`HeapInv`); an open session is the one its address finds and is updated, and nothing of a closed one stays (`ServerInv`); `KeptUpdated`, `NobodyStuck` |
| `stream` (`Tunnel`) | an application that sends up to two bytes, a target that sends one, room for one byte in each direction of the stream | bytes only move forward, no connection is cut without a reason, and one that both ends let finish arrives whole (`TunnelInv`); what was sent arrives (`Delivered`) and everything ends (`AllReleased`), unless a peer that reads no more jams a copy |
| `rawtcp_conn` (`RawTCP`) | a listening or a dialled Conn, two peers, two kernel connections, one raw socket, flows that expire after 2 ticks and orphans after 1 | an accepted connection is the one of its peer's flow, so nobody is connected and unheard (`ConnInv`); `Close` leaves nothing open but the connection the accept loop held when the table was emptied (`NothingLeftOpen`); `SilentForgotten`, `CaptureEnds` |
| `mux_deal` (`ClientMux`) | two slots, three connections, three sessions, expiry and scavenge limit of 1 second | every open session is in a slot or with the scavenger, and no slot that is dealt out is retired (`MuxInv`); `RetiredClosed` |

`IInv` and the properties named `...Inv` are conjunctions: the module's `TypeOK` and the named parts
that together describe its tables (`FlowInv == TypeOK /\ FlowTable /\ ClosedOnce`, `TablesInv == TypeOK
/\ TablesAgree`, `WatchInv == TransportTypeOK /\ NoneHandedOut`, `QueueInv == TypeOK /\ GroupsAligned /\
QueueSorted /\ NoneWaiting`, `HeapInv == TypeOK /\ PlacesKnown /\ HeadIsEarliest /\ WakesInTime`,
`ServerInv`: `ServerTypeOK` and the listener's `TypeOK`, `OpenReachable` and `ClosedGone`,
`TunnelInv == TunnelTypeOK /\ Forward /\ CutForAReason /\ EndedCompletely`, `ConnInv == TypeOK /\ ConnectedHeard`, `MuxInv == TypeOK /\ OpenTracked /\
SlotsNotRetired`); TLC names the part that fails. They are where an inductive invariant of the module
starts from. Why the bounds are enough:

- **`arq`.** Three segments and windows of two are the least for which a segment may wait in
  `rcv_buf` behind a gap, be acknowledged out of order, and be outrun by a retransmission while the
  window has moved. A receive window of two is also the least at which a run of two segments finds one
  free place: as an ack rebuilt by FEC leaves the window it tells unread, the sender does send such a run, and
  `rcv_queue` reaches three segments. The fourth is what would exceed `RcvQueueBound`. Two acks in flight are the
  least that change places; that data comes out of order takes one place only, since what is lost is sent again after
  what followed it, and repetition needs one as well. A cap of
  `AckCap` on `acklist` only limits how many segments arrive between two flushes. The settings are
  kcptun's defaults (`acknodelay` off, FEC on, and no write delay: `client/main.go:403`).
  `StreamIntegrity` and `ImplementsByteStream` do not depend on these bounds: they are proved
  (section 5). That both ends write at once, so that acks, `una` and windows also travel on data, is
  left to the proof.
- **`live`.** With a receive window of one each segment closes the window, so every byte needs a `WINS` or a
  probe to get through, and FEC lets an ack release a segment without its window being read. Three segments are the
  least for the stall: with two, everything would arrive. Two segments towards the sender are the least for an older window
  to come after the one that closed it.
- **`calls`.** With one token per channel, two segments in one datagram are the least for one token to
  stand for two events, and a send window of two the least for an ack to make room before all is acknowledged.
  A second reader is left out on purpose (section 6).
- **`flows`.** The races are about one key: a flow and its successor, so two sockets.
- **`relay`.** Two askers and two ids, so that every wrong attribution by id, by address or by
  socket is possible; the server's one socket is handed from flow to flow. The two sockets of ss-local
  are interchangeable (`SYMMETRY`): nothing names one of them and no liveness is checked.
- **`watch`.** Two transports suffice because only the present one and those whose watchdog has not
  yet noticed are referred to; `KeepAlive` 3 is the smallest for which the limit holds two pings that are each put
  off by a tick (with 1 or 2 only one is sure, which is what `Heartbeats` says).
- **`fec_code`.** The decoder looks `shardSize` packets around the one that arrived, so a group needs a
  neighbour on each side; with a limit of one group, two groups of which two
  packets came each fill the queue, and the next packet of either pushes out part of one that still waits;
  and 50 is no multiple of 4, so a wrap that were not early would break a group.
- **`sessions`.** With a backlog of 1 a second session finds it full. Two sessions change places in the heap,
  and one that is removed may be at either of them; the second may have the address of the first, which
  is when a late `Close` could take out the wrong one. A heap of more levels is beyond TLC together with
  liveness.
- **`stream`.** Two bytes are the least for one to be read while an earlier one is held, for a write or the end of the
  stream to wait when there is room for one, and for that end to overtake either; the target answers with one so that
  both directions are in use when one ends.
- **`rawtcp_conn`.** Two connections are the least for a peer to connect again while its first one is being
  registered, and two peers for `Close` to meet one connection in the table and another in the accept loop's hands.
- **`mux_deal`.** Three sessions let both slots be in use while an expired one is with the scavenger.

Every property of a passing run has a mutant in the modules: a definition with a plausible bug,
marked "Mutant" in a comment, that `PROJECT.json` pairs with the run that finds the
property violated when it takes the place of the real one.

## 4. Fairness

Only what the Go runtime, the operating system and the code's own loops provide:

- **KCP.** The updater calls `update` over and over, the application goes on reading and ends the
  `Write` it is in: weak fairness of `WriteChunk`, `WriteEnd`, `Recv`. The network
  does not lose everything: strong fairness of a flush at which every unacked segment is due, and of one at which the probe timer
  has expired, whose segments all get through, and, for each kind of segment, of the reading of one that carries its
  sender's present `una` and window. Strong, because retransmissions are
  separated by steps that disable them. Without the second part the network
  could deliver only outdated windows for ever. It does not rule out the stall, in which nothing is sent that could be read.
- **UDPSession.** A goroutine that can run does (weak fairness of the sections and the
  selects), and time passes. Nothing is assumed about input, the updater, or `Close`.
- **UdptunServer.** While `RunServer` runs so does its reaper, and actors finish closing what they have taken
  out. No fairness of the network or the main loop.
- **UdptunTransport.** `supervise`, the watchdogs and `maintain` run, time passes. A
  transport's read loop ends once its transport is closed. Nothing makes answers arrive.
- **Server.** The steps of `updateTask`, its timer and wake-ups, and the clock go on; goroutines release the session
  mutexes they hold. Strong fairness of whatever takes a mutex that others use meanwhile (`Update`,
  `monitor`, the steps of a `Close`): `sync.Mutex` hands itself over to a waiter of more than a
  millisecond. Nothing makes anybody call `AcceptKCP` or end a session: `NobodyStuck` must hold without.
- **Tunnel.** Goroutines run; `Dial` returns; what is written to a session that lives at both ends arrives; a
  session whose other end is closed dies (smux's keepalive); the end that `Close` owes is sent when there is room. Nobody has to
  send, read on, finish or close.
- **RawTCP.** Goroutines whose blocking call fails end, a `captureFlow` that has read a segment enters it, the cleaner runs, `Close` once begun
  goes on. Nothing makes anybody call `ReadFrom`.
- **ClientMux.** The main goroutine, `OpenStream`, and the scavenger go on, time passes.
  Nothing makes streams end; `RetiredClosed` rests on the limit.

## 5. What is proved

By the TLA+ proof system, for every value of the constants that satisfies the modules'
`ASSUME`s (`ConstantsAssumption` and the like: segment sizes and windows are positive, bounds are natural numbers,
at least two pings are counted, the clients' first addresses differ, one of the intervals is the longest, the
packets of a run of `FEC` span at most half the number space, and the names that stand for
nobody and for the server's own goroutines are not names of askers, sockets or transports).

Every safety invariant and action property that a run checks is the statement of one of these theorems. Where data has
to be dealt with by induction (the turns of a heap's `up` and `down`, the bytes of a queue of segments), the least
counterexample among the numbers takes the place of the induction rule (`LeastNumber`, from the well-foundedness of `<`).

**`KCPProofs`**

- `Inductive`: `Spec => []IInv`.
- `TypeCorrect`: `Spec => []TypeOK`.
- `StreamCorrect`: `Spec => []StreamIntegrity`.
- `Refinement`: `Spec => ImplementsByteStream`.
- `ReleasedReceived`, `NothingDropped`: `AckedImpliesReceived` and `NoByteDropped` are invariants.
- `WindowKept`, `QueueBounded`, `NothingOverruns`: so are `SendWindow`, `RcvQueueBound` and `NoOverrun`,
  the last if the window a sender assumes at first, `InitWnd`, is at most either receive window.
- `ProgressKept`: `Spec => NoRetreat`.

`StreamIntegrity` speaks of what is read and written only; a step of the network can
break it only by delivering a payload that is not the one of its number, so it is not
inductive. `IInv` ties every payload to its number by the history `sent`: the payloads numbered so
far and those still in `snd_queue` tile the bytes written without gap or overlap
(`StreamTiled`); `snd_buf` is the window of them from `snd_una` to `snd_nxt` (`SndBufSent`); every
data segment in flight (`InFlightSent`) and every one in `rcv_buf` or `rcv_queue` (`ReceivedSent`)
has the payload of its number; and what was read is what the segments taken out of
`rcv_queue` hold (`ReadSent`). The proof has a lemma per action (`WriteChunkStep`,
`WriteEndStep`, `UpdateStep`, `RecvStep`, `InputAckStep`, `InputPushStep`,
`InputProbeStep`), resting on lemmas about what the helpers do to tiled sequences and to
windows: `SendTiles` (a `Send` that fills up the last segment keeps the tiling), `MoveFront`
and `NumberedSent` (numbering), `MoveRunFacts` (the run moved to `rcv_queue` continues
it), `FlushStep`. Whether the network repeats or loses makes no difference to the
argument; nor do acks, since a wrong release would only stop the stream. `Refinement` adds that every
step writes the next bytes, reads the next bytes, or leaves both streams alone.

Acknowledgements and windows have an invariant of their own, `AckInv` (`AcksSound`), which rests on
`IInv`. What a datagram says of its sender was so when it left (`Told`: its `una` is at most `rcv_nxt`,
its window at most the receive window, and an ACK is for a segment the sender has), and it is still so
when it arrives, however late, because the receiver only moves on; `ToAck` says the same of
`acklist`. That gives `Released`, that what is removed or freed has been received, and `InWindow`. A window that
was told long ago does no harm (`RemoteFits`): it is never more than the receive window, and the `snd_una`
it is added to is never more than `rcv_nxt`, so that together they end inside what the receiver admits.
`Admitted` bounds `rcv_buf` by the window and with it the run that `parse_data` or
`Recv` moves to `rcv_queue` at once. `Onward(e)` collects what a step of one end guarantees the other;
every action is shown to be such a step (`NextOnward`), and such steps keep `AckInv`
(`OnwardInv`), which also gives `NoRetreat`. `NothingDropped` combines both invariants: a byte that was
numbered and not read lies in one of the tiles of `sent` from the read position on (`TilesCover`, by the least tile
that ends behind it), whose segment is in `rcv_queue`, in `rcv_buf`, or not received and
therefore not released.

**`UDPSessionProofs`**

- `TypeCorrect`: `Spec => []TypeOK`, with any number of goroutines.
- `ReaderWoken`, `WriterWoken`: `ReadWakeup` and `WriteWakeup` are invariants if there is at most one
  reader, at most one writer (an assumption of the theorems, and smux's use of a session).
- `DeadlinesFollowed`: so is `DeadlineInForce`.
- `WakeupsHold`: their invariant `WakeInv`. It adds that no segment in `rcv_queue` is
  empty, so that what `PeekSize` reports is whether there is something to read, and that
  a reader only sleeps with `bufptr` empty: the token is left by `kcpInput`, and what
  `bufptr` holds leaves none.
- `StreamInOrder`: `Spec => []StreamInv`; `StreamWhole`: `Spec => []BytesConserved`, both with any number of readers, of
  segments and of bytes in a segment.

`StreamInv` says what the bytes are: what was returned is a first piece of the stream, `bufptr` the piece after it, and
`rcv_queue` whole segments from there up to the last that arrived. That short reads, reads of a whole segment, input and
any interleaving of readers keep this is then a matter of cutting and joining pieces (`RunCut`, `RunsJoined`, `FirstRow`, `RowsJoined`), and `RowsFlat` turns the queue into bytes.

**`UdptunServerProofs`**

- `Inductive`: `Spec => []IInv`.
- `FlowsCorrect`: `Spec => []FlowInv`, for any number of clients, ids and sockets.

Taking a flow out of the table and closing its socket are two steps, and three kinds of
goroutine do it. `FlowTable` and `ClosedOnce` are kept by each of them only because of what the
others may rely on in between, which `IInv` adds: the main loop registers for a key that
it found free and that nobody else registers, and it has closed what it closes before it reads on
(`MainLoop`); a pump closes nothing but the socket it drains, and only after it stopped
(`Pumps`). `CloseFlowTable` and `CloseFlowOnce` say once what `closeFlow` does to the table, for
whoever calls it; a lemma per action uses them.

**`UdptunProofs`**

- `RelayInductive`: `RelaySpec => []RelayInv`.
- `TablesCorrect`: `RelaySpec => []TablesInv`.
- `AnswersReachAskers`: `RelaySpec => []RepliesToAsker`.
- `SocketsNotShared`: `RelaySpec => []OneAskerPerSocket`.

An asker is known by its client's address and its flow's id, and both change hands: ids come round,
and a client has another address after a redial, which the server takes for another client. `Means(t, i, v)`
says that somewhere (in a datagram, in the main loop, in a pump or in what its socket was asked, in
the client's tables or in `localLoop`) address `t` with id `i` stands for asker `v`. The heart of
`RelayInv` is that all these places mean the same (`OneMeaning`), no two clients share an
address, and no address is mentioned before it is used (`Addresses`). A socket whose pump has ended has lost its
key; the main loop may still write to it, once and to nobody's harm (`LastWrite`). The server's steps only
repeat what was said (`ServerSays` and a lemma for each); of the clients' only `LocalRecv` names someone
new, with an id of which nothing is left (`NewFlowMeans`), and `Redial` moves what the tables say to
an address of which nothing was said (`RedialMeans`). The server's own invariant is needed for what it
looks up, and `UdptunServerProofs` is instantiated for it: `SameServer` shows that
the server in `Udptun` takes its steps. The theorem rests on the assumption that `RelayNext` states as
`NoneTooSoon`: an id is not given again while something of its last use is on its way. The code has no
such test; its ids are 32 bits wide, so 2^32 flows of one client lie between two uses.

Of `UdptunTransport`, at the end of the same module:

- `TransportInductive`: `Spec => []TransportInv`.
- `NothingHandedOut`: `Spec => []WatchInv`.
- `DropsRight`: `Spec => DroppedForItsSilence`, for any number of transports and any `KeepAlive`.

All watchdogs look at one `lastRecv`, which is the client's and not a transport's. `Holding` says that a watchdog of a
transport that is still open watches the one `supervise` holds, and `OwnSilence` that the age it sees is then
no more than that transport's own. That such an age stands for two pings, or for one if `KeepAlive` is less than 3
(`Heartbeats`), takes two more parts: as
long as `maintain` runs it has pinged within `KeepAlive + 1` ticks, except at its first one (`PingsInTime`), and a
transport pinged less often than that has been silent for at most so many intervals of `KeepAlive + 1` ticks and the time since
the last ping (`PingsCounted`). `OneWayToDrop` shows that no action but a watchdog's decision drops a transport.

**`StreamProofs`**

Of `ClientMux`:

- `Inductive`: `Spec => []IInv`.
- `MuxCorrect`: `Spec => []MuxInv`, for any number of slots, connections and sessions and any limits.

A session is handed to the scavenger while it is still in its slot. The scavenger may have closed it before
`waitConn` returns, so the proof needs to know for the time in between that what the slot loses is the scavenger's or
closed (`Replacing`), and that no other slot has the same session (`OwnSession`). `Sending` and `Taking` are
about the channel, `SameSlots` covers whatever leaves the slots alone.

Of `Tunnel`:

- `StreamInductive`: `TunnelSpec => []StreamInv`.
- `TunnelCorrect`: `TunnelSpec => []TunnelInv`, for any number of bytes each way.

That what arrives is a prefix of what was sent (`Forward`) takes only what each copy holds between its read and its
write (`Held`). That nothing is cut off without a reason (`CutForAReason`) takes more, since whichever
copy ends first takes both connections down: as long as no session died, no peer is gone and the dial
succeeded (`Calm`), the first to end is the copy that met the other side's half-close, after its last
byte, and everything that ends here ends after it (`Endings`). `Opened` and `Reached` tie the places of the handlers
to what they have opened.

**`RawTCPProofs`**

- `Inductive`: `Spec => []IInv`.
- `NobodyUnheard`: `Spec => []ConnInv`.
- `ClosedCompletely`: `Spec => []NothingLeftOpen`, for any number of peers, raw sockets and connections.

Between `accept` and the registration of a connection its peer may reset and connect again. `InTurn` says that of a
peer's connections only the last can be alive, and that while the accept loop holds one no later one has been accepted;
so what it registers never takes the place of an open one. `OwnConn` says that a flow's connection is its
own peer's, `OpenTied` that what is open is in the table or in the accept loop's hands, and `OnlyOne` that
a dialled Conn has one connection, which the first step of `Close` closes. `HeldOnly` starts with the step that closes and empties
the table: by `OpenTied` whatever was open was in it, or `held`. From then on nothing opens, for what
captures and `WriteTo` still put into the table are flows without a connection.

**`FECProofs`**

- `Inductive`: `Spec => []FECInv`.
- `QueueKept`, `NothingInventedEver`, `GroupsRecovered`: `QueueInv`, `NothingInvented` and `GroupRecovered` are invariants, for
  any number of data and parity shards, any queue limit of at least a group, any width of `seqid` and any start.

`Coded` says what the encoder has numbered: packet `n` has the `seqid` `Id(n)`, a closed form with its one wrap at `paws`, and is data or
parity by its place in the group (`MarkDataNext`, `MarkParityNext`, `EncodeKeeps`). With that, `_itimediff` has the sign of the
difference of two positions, across the wrap too (`Signed`), and the group of a `seqid` is the group of its position (`IdInGroup`):
this is where `paws` as a multiple of `shardSize` and the half of the number space are needed. `Decoded` says of the
queue that its numbers increase, which makes `decode`'s insertion a search for the place in a sorted sequence (`Place`,
`Inserted`), the packets of a group neighbours (`Block`), and the window that `decode` looks through wide enough for all of
them (`WindowCovers`, `ShardsAre`). Each group is `Served`: its data is all with KCP, or whatever
arrived of it and was not pushed out by the queue limit is still in the queue; and what is in the queue is too little to decode (`Waiting`). `Freed`, `Limited` and
`Rebuilt` are the ways a packet leaves the queue, and `DecodeKeeps` puts them together. The proof uses neither `Lifetime` nor
`NetCap`: packets may be as late as they like within the run.

**`ServerProofs`**

- `HeapKept`: of `Updater`, `Spec => []HeapInv`.
- `ListenerKept`: of `Listener`, `L!Spec => []L!ListenerInv`.
- `ServerRunsUpdater`, `ServerRunsListener`: `ServerSpec => Spec` and `ServerSpec => L!Spec`. In the server process the updater
  and the listener each behave as they do by themselves.
- `ServerInductive`: `ServerSpec => []ServerIInv`; `ServerHeapKept`, `SessionsAgree`: so `HeapInv` and `ServerInv` are invariants
  of the server, for any number of addresses and sessions, any backlog and any intervals.

`HeapInv` needs what `container/heap` does, for a heap of any size. `RiseOnceFacts` and `SinkOnceFacts` say what one
level does: entries are rearranged, sessions are told their places, and the only pair that may be out of order has moved up or
down. By the least number of turns after which that fails (`UpTurns`, `DownTurns`), `UpFacts` and `DownFacts` say what is left
when an entry has stopped: order everywhere. `PushFacts`, `PopFacts`, `RemovedFacts` and
`FixedFacts` are the four operations. `Remove` at a place in the middle needs both directions, since the entry that takes the
place may belong above or below: `SinksAt` is what holds before `down`, and if the entry did not move, `RisesAt` before `up`. `HeadFirst` takes the heap's order from
parents and children to the head. `Turn` adds that `updateTask`'s loop holds `h.mu`, takes no more
turns than there are entries, and finds open sessions only. `TickKeeps` is the step of the clock, which moves every entry and
the timer together. That one interval is the longest is needed for the instants to be numbers between two bounds.

`ListenerInv` is not inductive, because `monitor` and `Close` work in several sections under different mutexes. `Arriving`
says that the session `monitor` has made is unknown to everybody else until it is in the table, and then until it is in the
backlog; `Closing`, that each closer has a session of its own, out of the updater, and in the table until it
is unmapped; `TableOwn`, that an address finds a session of its own. Closers are any number of goroutines. `ServerIInv` adds that a session
is closed by its own handler, which is what lets `MuxEnds` be one closer's step; a lemma per kind of step shows which part it is a
step of (`NewIsStep`, `CloseIsStep`, `LoopIsStep`, `ListenerOnly`, `UpdaterOnly`).

Only model-checked: all liveness, which the proof system does not reach (`DeliveredOrStalled`, `CallsEnd`, `IdleFlowsClosed`, `DeadReplaced`,
`KeptUpdated`, `NobodyStuck`, `Delivered`, `AllReleased`, `SilentForgotten`, `CaptureEnds`, `RetiredClosed`), and the violation of section 6.
What `FEC` does over more than half the number space in one run is neither proved nor checked.

## 6. Where the code and its documents disagree

One run finds a violation, with the behaviour in its trace:

- `stall`, `kcp-go/kcp.go:690`. A reopened window is told once. If that `WINS` is lost, and an older
  datagram with a non-zero window arrives after the one that closed it, the sender has data, nothing to
  retransmit and no reason to probe: the stream stops until the other side sends something. That is at odds
  with a "reliable ARQ protocol" (`kcp-go/kcp.go:1`). `live` shows under fairness that this is the only way
  in which delivery fails: `DeliveredOrStalled` has no exception but `Stalled`.

Other behaviours that a reader may not expect, which the modules have and the properties allow for:

- **The receive queue** (`kcp-go/kcp.go:494`, `:271`). The room in `rcv_queue` is tested before each
  segment of a run, but the run is appended after the loop: one free place admits the whole run.
  The queue stays below twice the window, which is what `RcvQueueBound` says.
- **Two readers** (`kcp-go/sess.go:636`). One token stands for any number of ready segments and `Read`
  does not pass it on: of two goroutines in `Read`, one may sleep over data. kcptun reads a session from
  smux's one goroutine, and `ReadWakeup` is checked and proved for one.
- **The relay's reaper** (`udptun/server.go:206`). A flow that is used between the reaper's look and its
  act is closed all the same, and answers to that datagram are lost, as datagrams may be.
- **Heartbeats without a reply** (`udptun/client.go:172`, `:324`). The help of `-keepalive` says "three with no reply drops and
  redials the transport" (`udpclient/main.go:50`). The watchdog goes by time, three intervals, and `maintain` pings at the first
  tick of a one-second ticker that is at least an interval after the last ping. Each ping may so be put off by a tick, and the
  third go out only after the drop: two without a reply are enough, and with intervals of one or two seconds one is. That is
  all that `DroppedForItsSilence` says.
- **A second `Close` of a session** (`kcp-go/sess.go:813`) takes out whatever session has its address by
  then. `Listener` has each session closed once.
- **`Close` of a listening raw Conn** (`rawtcp/conn_linux.go:295`) "tears down the connection" (`:284`): it closes the listener
  and what is in the table, and empties it. A connection that the accept loop already has from `AcceptTCP` (`:498`) is
  registered afterwards (`:509`), when nobody looks at the table any more, and stays open until its peer closes it:
  the exception in `NothingLeftOpen`, which makes it the only one.
- **A peer that stops reading** (`server/main.go:106`, `client/main.go:78`). Neither copy has a deadline, so one that writes to
  a TCP peer which stays connected and does not read waits for good, and `handleClient` with it once the other
  copy waits too: even when the other end of the connection has gone or the session is dead. `AllReleased` excepts what such a peer
  jams (`Jammed`), and nothing else.
- **The scavenger** (`client/main.go:500`) closes a retired session without streams, although a
  connection may just have been given it and not opened its stream yet; the connection is dropped.
- **Half-closed connections** (`client/main.go:97`, `server/main.go:125`). `handleClient` closes both its
  connections when the first of its copies ends, so an application that ends its direction first (and goes on
  reading) loses what the target had yet to answer. `EndedCompletely` speaks of the direction that ended.
- **The relay without its transport** (`udptun/server.go`). When a transport fails, `RunServer` returns and its
  reaper ends, but flows and pumps stay: with two stacks of which one goes on, nobody closes the idle
  flows of the other (`IdleFlowsClosed` excepts that end). After `RunClient` returned, `supervise` may stay in
  `ReadFrom` with its transport open; the process exits then.

Reading the code for these models also showed the following, which no module has:

- **Shared scratch buffers** (`udpserver/main.go:91`, `udptun/packet.go:120`). With `-tcp` both stacks of the udptun server
  get one `BlockCrypt`, whose scratch buffers each stack's `Codec` guards with mutexes of its own; a datagram sealed or
  opened by both at once may be garbled, and is then dropped (`Discard`). Sessions of kcp-go share their block likewise.
- **`rawtcp.Dial` after a failed `setTTL`** (`rawtcp/conn_linux.go:411`) calls `Close` before the Conn is in
  `connList`, and `connList.Remove(nil)` (`:311`) dereferences nil. The finalizer that `wrap` (`:588`) sets cannot
  run before `Close`: `connList` and the goroutines refer to the Conn.
- **A raw Conn that is dropped** (`client/dial.go:17`): if `kcp.NewConn` fails, nothing closes the Conn.
- **Two resolutions of one name** (`udpclient/dial.go:20`): if the second answer is another address, `WriteTo` has no raw
  socket for it and the datagrams go nowhere, until the watchdog has the client dial again.
- **`CurrEstab`** (`kcp-go/snmp.go:138`): the loggers set it to zero with the other counters while sessions are
  open, and their `Close` (`sess.go:323`) takes it below.
- **A configuration that smux refuses** (`server/main.go:72`, `client/main.go:426`): `handleMux` returns without closing the
  session, and the client's `waitConn` leaves one behind each second.
- **Wrap-around** (`kcp-go/kcp.go:677`, `:640`): `flush` compares `ack.sn >= rcv_nxt` without `_itimediff`, and a
  receive window of 65536 free segments is told as none.

## 7. What is not modelled

- **Ciphers, checksums, Reed-Solomon, snappy** (`kcp-go/crypt`, `udptun/cipher.go`): computation without control. A datagram
  that does not open is a lost one, which every network here allows. `Codec`'s mutexes and nonces likewise.
- **smux**: a library outside `src/`. `UDPSession` has the calls it makes, `ClientMux`, `Server` and `Tunnel`
  what it promises.
- **Configuration, command line, signals, SNMP, logging**: parsing, wiring, exit, and counters
  nothing reads back.
- **In KCP**: wrap-around of sequence numbers, RTT estimation (any timer may be due at any
  flush), the congestion window (off in every named mode), message mode and fragments
  (sessions use stream mode), `Update` and `Check` (not called by `sess.go`), several
  segments in one datagram (splitting them only adds interleavings).
- **In RawTCP**: the sequence and acknowledgement numbers it shows, which decide nothing;
  failures inside `Dial` and `Listen`; the list of live Conns that `Cleanup` walks.
- **In UDPSession**: the setters that run once before use.
- **In Listener**: `Listener.Close`, which the program never calls, and the read deadline of `Accept`, which it
  never sets; datagrams of another conversation from a known address, which `Input` rejects as `KCP` has it.
- **In Tunnel**: that a connection that waits holds up the others of its session, whose buffers smux shares among
  its streams; a peer that reads slowly (a delay); and that the kernel of a TCP socket that is closed with
  unread input takes back what it had accepted (`delivered` counts what the socket took).
- **In Udptun**: the ends of `RunServer` and `RunClient`, which `UdptunServer` and `UdptunTransport` have.

## 8. Plan

Done, in this order: `KCP` with `ByteStream` and the proofs about it, since everything else
carries or drives its segments; `UDPSession` and its proofs; the relay (`UdptunServer`,
`UdptunClient`, their composition, `UdptunTransport`); `FEC`; `Listener`; `Updater`; `RawTCP`;
`ClientMux`; `Server`, which composes the listener with the updater; `Tunnel`.

Next, modules:

1. `SeqNum`: `_itimediff` modulo 2^w against the order of unbounded numbers, for windows
   below half the space; the comparison without it at `kcp.go:677`; the 16-bit window field at 65536.
2. `KCPSegBuf`: `parse_data`'s insertion from the end of `rcv_buf` and `parse_ack`'s search in
   the sorted slices, shown to implement the functions `KCP` uses for them.
3. `KCPMessage`: `Send`, `PeekSize` and `Recv` with fragments, message mode.
4. `KCPRtt`, `KCPCwnd`: `update_ack` and the window arithmetic of `Input` and `flush`, with
   integer division: bounds, no zero divisor, no stuck window.
5. `RawSeq`: the tracking of sequence numbers, with wrap-around; the partial failures of
   `Dial` and `Listen`, and `Cleanup`.
6. The transports of `UdptunTransport` composed with the relay's tables, if TLC carries it.

Modules on the same component share a run where the questions allow it.

Next, theorems: what the new modules promise (the order of `SeqNum`, the refinement of `KCP`'s helpers by `KCPSegBuf`, the bounds of
`KCPRtt`), and `FEC` for sessions of any length, under the assumption on the queue instead of the one on the run.
