------------------------------- MODULE RawTCP -------------------------------
(***************************************************************************)
(* The packet connection disguised as TCP (rawtcp/conn_linux.go): kernel   *)
(* connections that carry nothing, raw sockets that carry the segments, and *)
(* a table of flows that ties the two together.  The goroutines are one    *)
(* captureFlow per raw socket, the cleaner, the accept loop of a listening *)
(* Conn, the callers of ReadFrom and WriteTo, and Close.                   *)
(*                                                                         *)
(* Abstractions.                                                           *)
(*  - A segment is its source and whether it has a payload; the sequence   *)
(*    numbers it shows to middleboxes are left out, nothing is decided by  *)
(*    them.                                                                *)
(*  - Kernel connections are numbered; the kernel completes the handshakes. *)
(*  - flow.ts is the age of the last segment in ticks of the cleaner.      *)
(*  - Read and write deadlines, which kcp-go does not set, are left out.   *)
(***************************************************************************)
EXTENDS Integers, Sequences, FiniteSets

CONSTANTS
    Peers,        \* addresses
    Handles,      \* raw sockets, each with a captureFlow; Dial opens one
    flowExpire,   \* in ticks of the cleaner
    orphanExpire,
    MaxConns      \* bound: kernel connections in all

None == 0
NoFlow == [age |-> -1]

ASSUME ConstantsAssumption ==
    /\ MaxConns \in Nat \ {0}
    /\ Peers # {} /\ Handles # {} /\ None \notin Handles
    /\ flowExpire \in Nat /\ orphanExpire \in Nat /\ orphanExpire <= flowExpire

VARIABLES
    listener,   \* whether Listen has made the Conn, and not Dial
    conns,      \* the kernel connections: peer and state "pending", "open", "reset" or "closed"
    flows,      \* the table
    capture,    \* where each captureFlow is: "read", "lock" with a segment, "send" with a
                \* message, or "ended"
    writing,    \* peers of the WriteTo calls that have seen that the Conn is not closed
    acceptor,   \* where the accept loop is: "accept", "register" with a connection, or "ended"
    cleaner,    \* the cleaner has not ended
    closer,     \* how far Close is: "no", "conn", "flows", "handles" or "done"
    held        \* history: the connection that the accept loop held when Close emptied the table

vars == <<listener, conns, flows, capture, writing, acceptor, cleaner, closer, held>>

\* The channel die is closed first of all.
die == closer # "no"

Ages == 0..flowExpire
AtRead == [at |-> "read"]
Ended == [at |-> "ended"]
AtAccept == [at |-> "accept"]

\* A goroutine of a Conn waits only where its code does, with what it holds there,
\* and a flow is of a peer, a raw socket and a kernel connection.
TypeOK ==
    /\ listener \in BOOLEAN
    /\ conns \in Seq([peer : Peers, state : {"pending", "open", "reset", "closed"}])
    /\ Len(conns) <= MaxConns
    /\ flows \in [Peers -> {NoFlow} \cup [conn : 0..Len(conns), handle : {None} \cup Handles, age : Ages]]
    /\ capture \in [Handles -> {AtRead, Ended} \cup [at : {"send"}, peer : Peers]
                                  \cup [at : {"lock"}, peer : Peers, payload : BOOLEAN]]
    /\ writing \subseteq Peers
    /\ acceptor \in {AtAccept, Ended} \cup [at : {"register"}, k : 1..Len(conns)]
    /\ cleaner \in BOOLEAN
    /\ closer \in {"no", "conn", "flows", "handles", "done"}
    /\ held \in 0..Len(conns)

\* lockflow makes a flow that is not there.
Flow(p) == IF flows[p] = NoFlow THEN [conn |-> None, handle |-> None, age |-> 0] ELSE flows[p]

Dialled == CHOOSE p \in Peers : TRUE
TheHandle == CHOOSE h \in Handles : TRUE

\* Listen ...
Listening ==
    /\ listener = TRUE
    /\ conns = <<>>
    /\ flows = [p \in Peers |-> NoFlow]
    /\ capture = [h \in Handles |-> AtRead]
    /\ acceptor = AtAccept

\* ... and Dial, which has connected and registered the flow of its peer; other
\* ports of the peer's host are strangers.
Connected ==
    /\ listener = FALSE
    /\ conns = <<[peer |-> Dialled, state |-> "open"]>>
    /\ flows = [p \in Peers |-> IF p = Dialled THEN [conn |-> 1, handle |-> None, age |-> 0]
                                ELSE NoFlow]
    /\ capture = [h \in Handles |-> IF h = TheHandle THEN AtRead ELSE Ended]
    /\ acceptor = Ended

Init ==
    /\ Listening \/ Connected
    /\ writing = {} /\ cleaner = TRUE /\ closer = "no" /\ held = None

State(k, s) == [conns EXCEPT ![k].state = s]

\* What closing the connections in K leaves.
Closed(K) == [k \in DOMAIN conns |-> IF k \in K THEN [conns[k] EXCEPT !.state = "closed"] ELSE conns[k]]

-----------------------------------------------------------------------------
(* The kernel and the peers *)

\* A handshake completes; there is one connection of a peer at a time.
Handshake(p) ==
    /\ listener /\ closer = "no" /\ Len(conns) < MaxConns
    /\ \A k \in DOMAIN conns : conns[k].peer = p => conns[k].state \in {"reset", "closed"}
    /\ conns' = Append(conns, [peer |-> p, state |-> "pending"])
    /\ UNCHANGED <<listener, flows, capture, writing, acceptor, cleaner, closer, held>>

\* The peer resets its connection.
Reset(k) ==
    /\ conns[k].state = "open"
    /\ conns' = State(k, "reset")
    /\ UNCHANGED <<listener, flows, capture, writing, acceptor, cleaner, closer, held>>

-----------------------------------------------------------------------------
(* captureFlow *)

\* ReadFromIP returns a segment of p, until Close has closed the raw socket.
CaptureReads(h, p, payload) ==
    /\ capture[h] = AtRead /\ closer # "done"
    /\ capture' = [capture EXCEPT ![h] = [at |-> "lock", peer |-> p, payload |-> payload]]
    /\ UNCHANGED <<listener, conns, flows, writing, acceptor, cleaner, closer, held>>

\* The flow of the segment is made if need be and touched under the lock, whatever Close
\* has done meanwhile; a payload goes on only if the flow has a connection.
Capture(h) ==
    /\ capture[h].at = "lock"
    /\ LET p == capture[h].peer
       IN  /\ flows' = [flows EXCEPT ![p] = [Flow(p) EXCEPT !.age = 0, !.handle = h]]
           /\ capture' = [capture EXCEPT ![h] = IF Flow(p).conn # None /\ @.payload
                                                THEN [at |-> "send", peer |-> p] ELSE AtRead]
    /\ UNCHANGED <<listener, conns, writing, acceptor, cleaner, closer, held>>

\* ReadFromIP fails once Close has closed the raw socket.
CaptureFails(h) ==
    /\ capture[h] = AtRead /\ closer = "done"
    /\ capture' = [capture EXCEPT ![h] = Ended]
    /\ UNCHANGED <<listener, conns, flows, writing, acceptor, cleaner, closer, held>>

\* ReadFrom takes a message.
ReadFrom(h) ==
    /\ capture[h].at = "send"
    /\ capture' = [capture EXCEPT ![h] = AtRead]
    /\ UNCHANGED <<listener, conns, flows, writing, acceptor, cleaner, closer, held>>

\* Mutant: the send does not look at die.
Dies_Never == FALSE

\* The send gives up.
Dies == die

CaptureDies(h) ==
    /\ capture[h].at = "send" /\ Dies
    /\ capture' = [capture EXCEPT ![h] = Ended]
    /\ UNCHANGED <<listener, conns, flows, writing, acceptor, cleaner, closer, held>>

-----------------------------------------------------------------------------
(* WriteTo, the cleaner and the accept loop *)

\* WriteTo finds the Conn not closed, ...
WriteToLooks(p) ==
    /\ ~die /\ p \notin writing /\ writing' = writing \cup {p}
    /\ UNCHANGED <<listener, conns, flows, capture, acceptor, cleaner, closer, held>>

\* Mutant: a write counts as a sign of life.
WriteTo_Touches(p) ==
    /\ p \in writing /\ writing' = writing \ {p}
    /\ flows' = [flows EXCEPT ![p] = [Flow(p) EXCEPT !.age = 0]]
    /\ UNCHANGED <<listener, conns, capture, acceptor, cleaner, closer, held>>

\* ... and makes a flow that is not there later, when Close may have emptied the table.
\* That one has no raw socket: the packet is dropped.  An existing flow keeps its age.
WriteTo(p) ==
    /\ p \in writing /\ writing' = writing \ {p}
    /\ flows' = [flows EXCEPT ![p] = Flow(p)]
    /\ UNCHANGED <<listener, conns, capture, acceptor, cleaner, closer, held>>

Older(p) == IF flows[p] = NoFlow THEN NoFlow ELSE [flows[p] EXCEPT !.age = @ + 1]

\* now.Sub(v.ts) > ttl.
Expired(f) == f # NoFlow /\ f.age > (IF f.conn = None THEN orphanExpire ELSE flowExpire)

\* The connections of the flows that expire.
Evicted(old) == {old[p].conn : p \in {q \in Peers : Expired(old[q])}} \ {None}

\* A tick of the cleaner, and the time since the last; its select may take one more after
\* die was closed.
Clean ==
    /\ cleaner
    /\ LET old == [p \in Peers |-> Older(p)]
       IN  /\ conns' = Closed(Evicted(old))
           /\ flows' = [p \in Peers |-> IF Expired(old[p]) THEN NoFlow ELSE old[p]]
    /\ UNCHANGED <<listener, capture, writing, acceptor, cleaner, closer, held>>

CleanerEnds ==
    /\ cleaner /\ die /\ cleaner' = FALSE
    /\ UNCHANGED <<listener, conns, flows, capture, writing, acceptor, closer, held>>

\* AcceptTCP, and setTTL of the connection, which closes it if it fails.
AcceptTCP(k) ==
    /\ acceptor = AtAccept /\ closer \in {"no", "conn"} /\ conns[k].state = "pending"
    /\ \/ conns' = State(k, "open") /\ acceptor' = [at |-> "register", k |-> k]
       \/ conns' = State(k, "closed") /\ UNCHANGED acceptor
    /\ UNCHANGED <<listener, flows, capture, writing, cleaner, closer, held>>

\* Mutant: a flow that is there already is left as it is.
Registered_New(f, k) == IF f.conn = None THEN [f EXCEPT !.conn = k] ELSE f

\* The flow of an accepted connection, which may be that of an earlier one.
Registered(f, k) == [f EXCEPT !.conn = k]

\* lockflow ties the connection to the flow of its peer.
Register ==
    /\ acceptor.at = "register"
    /\ LET k == acceptor.k
           p == conns[k].peer
       IN  flows' = [flows EXCEPT ![p] = Registered(Flow(p), k)]
    /\ acceptor' = AtAccept
    /\ UNCHANGED <<listener, conns, capture, writing, cleaner, closer, held>>

AcceptFails ==
    /\ acceptor = AtAccept /\ closer \notin {"no", "conn"} /\ acceptor' = Ended
    /\ UNCHANGED <<listener, conns, flows, capture, writing, cleaner, closer, held>>

-----------------------------------------------------------------------------
(* Close, once: die, the kernel socket, the flows, the raw sockets *)

CloseDie ==
    /\ closer = "no" /\ closer' = "conn"
    /\ UNCHANGED <<listener, conns, flows, capture, writing, acceptor, cleaner, held>>

\* Mutant: only the listening socket is closed here.
ClosedFirst_Listener == {k \in DOMAIN conns : conns[k].state = "pending"}

\* tcpconn.Close, or listener.Close, with which the kernel resets what has not
\* been accepted.
ClosedFirst == IF listener THEN {k \in DOMAIN conns : conns[k].state = "pending"} ELSE {1}

CloseConn ==
    /\ closer = "conn" /\ closer' = "flows"
    /\ conns' = Closed(ClosedFirst)
    /\ UNCHANGED <<listener, flows, capture, writing, acceptor, cleaner, held>>

TableConns == {flows[p].conn : p \in {q \in Peers : flows[q] # NoFlow}} \ {None}

\* Mutant: the table is emptied and its connections are left to their peers.
CloseFlows_Forgets ==
    /\ closer = "flows" /\ closer' = "handles"
    /\ flows' = IF listener THEN [p \in Peers |-> NoFlow] ELSE flows
    /\ held' = IF acceptor.at = "register" THEN acceptor.k ELSE None
    /\ UNCHANGED <<listener, conns, capture, writing, acceptor, cleaner>>

\* The flows of a listening Conn, under flowsLock.
CloseFlows ==
    /\ closer = "flows" /\ closer' = "handles"
    /\ IF listener
       THEN conns' = Closed(TableConns) /\ flows' = [p \in Peers |-> NoFlow]
       ELSE UNCHANGED <<conns, flows>>
    /\ held' = IF acceptor.at = "register" THEN acceptor.k ELSE None
    /\ UNCHANGED <<listener, capture, writing, acceptor, cleaner>>

CloseHandles ==
    /\ closer = "handles" /\ closer' = "done"
    /\ UNCHANGED <<listener, conns, flows, capture, writing, acceptor, cleaner, held>>

Close == CloseDie \/ CloseConn \/ CloseFlows \/ CloseHandles

Next ==
    \/ \E p \in Peers : Handshake(p) \/ WriteToLooks(p) \/ WriteTo(p)
    \/ \E k \in DOMAIN conns : Reset(k) \/ AcceptTCP(k)
    \/ \E h \in Handles : \/ \E p \in Peers, payload \in BOOLEAN : CaptureReads(h, p, payload)
                          \/ Capture(h) \/ CaptureFails(h) \/ ReadFrom(h) \/ CaptureDies(h)
    \/ Clean \/ CleanerEnds \/ Register \/ AcceptFails
    \/ Close

\* The goroutines are scheduled and the ticker ticks; a Close that has begun
\* goes on.  Nobody has to call ReadFrom or Close.
Fairness ==
    /\ \A h \in Handles : WF_vars(Capture(h)) /\ WF_vars(CaptureFails(h)) /\ WF_vars(CaptureDies(h))
    /\ WF_vars(Clean) /\ WF_vars(CleanerEnds) /\ WF_vars(Register) /\ WF_vars(AcceptFails)
    /\ WF_vars(CloseConn \/ CloseFlows \/ CloseHandles)

Spec == Init /\ [][Next]_vars

FairSpec == Spec /\ Fairness

-----------------------------------------------------------------------------
(* Properties *)

\* While the Conn is in use, a connection that was accepted and has not broken
\* is the one of its peer's flow: no peer is left connected and unheard.
ConnectedHeard ==
    ~die => \A k \in DOMAIN conns :
        conns[k].state = "open" /\ acceptor # [at |-> "register", k |-> k] =>
            flows[conns[k].peer] # NoFlow /\ flows[conns[k].peer].conn = k

\* Flows of peers that send nothing any more go, those of strangers too, so that the
\* table does not grow with every address a segment came from; only captured segments
\* keep a flow, whatever is written to it.
SilentForgotten ==
    \A p \in Peers : []<>(\/ flows[p] = NoFlow \/ die
                          \/ \E h \in Handles : capture[h].at = "lock" /\ capture[h].peer = p)

\* After Close every captureFlow ends, although nobody reads any more.
CaptureEnds == die ~> (\A h \in Handles : capture[h] = Ended)

\* Whatever was accepted is closed by the time Close has emptied the table, except for the
\* one connection that the accept loop held then; and nothing is opened afterwards,
\* although captureFlow, WriteTo, the cleaner and the accept loop still go on for a while.
NothingLeftOpen ==
    closer \in {"handles", "done"} => \A k \in DOMAIN conns : conns[k].state = "open" => k = held

\* The Conn's table and the kernel's connections: typed, and nobody unheard.
ConnInv == TypeOK /\ ConnectedHeard

=============================================================================
