--------------------------- MODULE RawTCPProofs ---------------------------
(***************************************************************************)
(* Proofs about RawTCP: for any number of peers, raw sockets and           *)
(* connections the flow of a peer has the peer's open connection.  A peer  *)
(* that reconnects has several connections, and the accept loop may hold   *)
(* one that is gone; the invariant says how those are ordered.             *)
(***************************************************************************)
EXTENDS RawTCP, SequenceTheorems, TLAPS

Gone == {"reset", "closed"}
Tied(k) == flows[conns[k].peer] # NoFlow /\ flows[conns[k].peer].conn = k
Held(k) == acceptor = [at |-> "register", k |-> k]

\* A peer connects again only after its last connection is gone; while the accept loop
\* holds one, no later one of that peer has been accepted.
InTurn ==
    /\ \A j, k \in DOMAIN conns : j < k /\ conns[j].peer = conns[k].peer => conns[j].state \in Gone
    /\ \A j, k \in DOMAIN conns : Held(j) /\ j < k /\ conns[j].peer = conns[k].peer => conns[k].state # "open"
    /\ \A k \in DOMAIN conns : Held(k) => conns[k].state # "pending"

\* A flow has a connection of its own peer.
OwnConn ==
    \A p \in Peers : flows[p] # NoFlow /\ flows[p].conn # None => conns[flows[p].conn].peer = p

\* Whatever is open is in the table, or held by the accept loop.
OpenTied == \A k \in DOMAIN conns : conns[k].state = "open" => Tied(k) \/ Held(k)

\* A dialled Conn has the one connection, which is the first that Close closes.
OnlyOne ==
    ~listener => Len(conns) = 1 /\ acceptor = Ended /\ (closer \notin {"no", "conn"} => conns[1].state = "closed")

\* Once the table was emptied, only the connection held then is open.
HeldOnly == closer \in {"handles", "done"} => \A k \in DOMAIN conns : conns[k].state = "open" => k = held

IInv == TypeOK /\ InTurn /\ OwnConn /\ OpenTied /\ OnlyOne /\ HeldOnly

-----------------------------------------------------------------------------
(* Connections and flows *)

CaptureType ==
    {AtRead, Ended} \cup [at : {"send"}, peer : Peers] \cup [at : {"lock"}, peer : Peers, payload : BOOLEAN]
ConnType == [peer : Peers, state : {"pending", "open", "reset", "closed"}]
FlowType == [conn : 0..Len(conns), handle : {None} \cup Handles, age : Ages]

LEMMA Numbered ==
    ASSUME TypeOK
    PROVE  /\ DOMAIN conns = 1..Len(conns) /\ Len(conns) \in Nat
           /\ \A k \in DOMAIN conns : conns[k] \in ConnType
  <1>1. conns \in Seq(ConnType)
    BY DEF TypeOK, ConnType
  <1>2. QED
    BY <1>1, LenProperties

\* Closing connections, or another step of one, leaves the others and whose they are.
LEMMA ClosedConns ==
    ASSUME TypeOK, NEW K
    PROVE  /\ Closed(K) \in Seq(ConnType) /\ Len(Closed(K)) = Len(conns) /\ DOMAIN Closed(K) = DOMAIN conns
           /\ \A k \in DOMAIN conns : /\ Closed(K)[k].peer = conns[k].peer
                                      /\ Closed(K)[k].state = IF k \in K THEN "closed" ELSE conns[k].state
  <1>1. Closed(K) \in [1..Len(conns) -> ConnType]
    BY Numbered DEF Closed, ConnType
  <1>2. Closed(K) \in Seq(ConnType)
    BY <1>1, Numbered, SeqDef
  <1>3. Len(Closed(K)) = Len(conns)
    BY <1>1, <1>2, Numbered, LenProperties
  <1>4. QED
    BY <1>2, <1>3, Numbered DEF Closed, ConnType

LEMMA StateConns ==
    ASSUME TypeOK, NEW k \in DOMAIN conns, NEW st \in {"pending", "open", "reset", "closed"}
    PROVE  /\ State(k, st) \in Seq(ConnType) /\ Len(State(k, st)) = Len(conns) /\ DOMAIN State(k, st) = DOMAIN conns
           /\ \A j \in DOMAIN conns : /\ State(k, st)[j].peer = conns[j].peer
                                      /\ State(k, st)[j].state = IF j = k THEN st ELSE conns[j].state
  <1>1. State(k, st) \in [1..Len(conns) -> ConnType]
    BY Numbered DEF State, ConnType
  <1>2. State(k, st) \in Seq(ConnType)
    BY <1>1, Numbered, SeqDef
  <1>3. Len(State(k, st)) = Len(conns)
    BY <1>1, <1>2, Numbered, LenProperties
  <1>4. QED
    BY <1>2, <1>3, Numbered DEF State, ConnType

\* A flow that is there has an age; lockflow keeps the connection of one.
LEMMA Flows ==
    ASSUME TypeOK, NEW p \in Peers
    PROVE  /\ \A f \in FlowType : f # NoFlow
           /\ flows[p] # NoFlow => flows[p] \in FlowType
           /\ Flow(p) \in FlowType
           /\ Flow(p).conn = IF flows[p] = NoFlow THEN None ELSE flows[p].conn
  <1>1. \A f \in FlowType : f # NoFlow
    BY ConstantsAssumption DEF FlowType, NoFlow, Ages
  <1>2. flows[p] # NoFlow => flows[p] \in FlowType
    BY DEF TypeOK, FlowType
  <1>3. [conn |-> None, handle |-> None, age |-> 0] \in FlowType
    BY Numbered, ConstantsAssumption DEF FlowType, None, Ages
  <1>4. QED
    BY <1>1, <1>2, <1>3 DEF Flow

LEMMA TouchedFlow ==
    ASSUME NEW f \in FlowType, NEW h \in Handles
    PROVE  LET g == [f EXCEPT !.age = 0, !.handle = h] IN g \in FlowType /\ g.conn = f.conn
  <1>1. 0 \in Ages
    BY ConstantsAssumption DEF Ages
  <1>2. [f EXCEPT !.age = 0] \in FlowType /\ [f EXCEPT !.age = 0].conn = f.conn
    BY <1>1 DEF FlowType
  <1>3. \A e \in FlowType : [e EXCEPT !.handle = h] \in FlowType /\ [e EXCEPT !.handle = h].conn = e.conn
    BY DEF FlowType
  <1>4. [f EXCEPT !.age = 0, !.handle = h] = [[f EXCEPT !.age = 0] EXCEPT !.handle = h]
    OBVIOUS
  <1>5. QED
    BY <1>2, <1>3, <1>4

\* Connections that break or are closed are in turn as before.
LEMMA MoreGone ==
    ASSUME IInv, UNCHANGED acceptor, DOMAIN conns' = DOMAIN conns,
           \A k \in DOMAIN conns : /\ conns'[k].peer = conns[k].peer
                                   /\ conns'[k].state \in Gone \/ conns'[k].state = conns[k].state
    PROVE  InTurn'
  BY DEF IInv, InTurn, Held, Gone

-----------------------------------------------------------------------------
(* A lemma for every action.  Its steps are the parts of the invariant. *)

LEMMA InitInv == Init => IInv
  <1> SUFFICES ASSUME Init
               PROVE  IInv
    OBVIOUS
  <1> USE DEF None, NoFlow, AtRead, Ended, AtAccept
  <1>1. CASE Listening
    <2>1. TypeOK
      BY <1>1, ConstantsAssumption DEF Init, Listening, TypeOK
    <2>2. QED
      BY <1>1, <2>1 DEF Init, Listening, IInv, InTurn, OwnConn, OpenTied, OnlyOne, HeldOnly, Held
  <1>2. CASE Connected
    <2>1. Dialled \in Peers /\ TheHandle \in Handles
      BY ConstantsAssumption DEF Dialled, TheHandle
    <2>2. conns \in Seq([peer : Peers, state : {"pending", "open", "reset", "closed"}]) /\ Len(conns) = 1
      BY <1>2, <2>1 DEF Connected
    <2>3. flows \in [Peers -> {NoFlow} \cup [conn : 0..1, handle : {None} \cup Handles, age : Ages]]
      BY <1>2, ConstantsAssumption DEF Connected, Ages
    <2>4. TypeOK
      <3>1. capture \in [Handles -> CaptureType]
        BY <1>2 DEF Connected, CaptureType
      <3>2. acceptor \in {AtAccept, Ended} \cup [at : {"register"}, k : 1..Len(conns)]
        BY <1>2 DEF Connected
      <3>3. flows \in [Peers -> {NoFlow} \cup [conn : 0..Len(conns), handle : {None} \cup Handles, age : Ages]]
        BY <2>2, <2>3
      <3>4. Len(conns) <= MaxConns
        BY <2>2, ConstantsAssumption
      <3>5. held \in 0..Len(conns) /\ writing \subseteq Peers
        BY <2>2 DEF Init
      <3>6. QED
        BY <1>2, <2>2, <3>1, <3>2, <3>3, <3>4, <3>5 DEF Init, Connected, TypeOK, CaptureType
    <2>5. conns[1].peer = Dialled /\ conns[1].state = "open" /\ DOMAIN conns = {1}
      BY <1>2 DEF Connected
    <2>6. flows[Dialled].conn = 1 /\ flows[Dialled] # NoFlow
      <3>1. flows[Dialled] = [conn |-> 1, handle |-> 0, age |-> 0]
        BY <1>2, <2>1 DEF Connected
      <3>2. QED
        BY <3>1
    <2>7. \A p \in Peers : flows[p] # NoFlow => p = Dialled
      BY <1>2 DEF Connected
    <2>8. InTurn /\ OwnConn /\ OpenTied
      BY <1>2, <2>5, <2>6, <2>7 DEF Connected, InTurn, OwnConn, OpenTied, Tied, Held
    <2>9. OnlyOne
      BY <1>2, <2>2 DEF Init, Connected, OnlyOne
    <2>10. QED
      BY <2>4, <2>8, <2>9 DEF Init, IInv, HeldOnly
  <1>3. QED
    BY <1>1, <1>2 DEF Init

\* A peer connects again after its connection is gone.
LEMMA HandshakeStep ==
    ASSUME IInv, NEW p \in Peers, Handshake(p)
    PROVE  IInv'
  <1>1. TypeOK'
    BY ConstantsAssumption DEF IInv, TypeOK, AtRead, Ended, AtAccept, None, Ages, NoFlow, Handshake
  <1>2. InTurn'
    BY DEF IInv, TypeOK, InTurn, Held, Gone, Ended, AtAccept, Handshake
  <1>3. OwnConn'
    BY DEF IInv, TypeOK, OwnConn, NoFlow, None, Handshake
  <1>4. OpenTied'
    BY DEF IInv, TypeOK, InTurn, OwnConn, OpenTied, Tied, Held, Gone, NoFlow, None, Ended, AtAccept, Handshake
  <1>5. OnlyOne'
    BY DEF IInv, TypeOK, OnlyOne, Ended, AtAccept, Handshake
  <1>6. HeldOnly'
    BY DEF IInv, TypeOK, HeldOnly, Handshake
  <1>7. QED
    BY <1>1, <1>2, <1>3, <1>4, <1>5, <1>6 DEF IInv

\* A connection that is reset is not open.
LEMMA ResetStep ==
    ASSUME IInv, NEW k \in DOMAIN conns, Reset(k)
    PROVE  IInv'
  <1>1. TypeOK'
    BY StateConns DEF IInv, TypeOK, ConnType, Reset
  <1>2. InTurn'
    BY DEF IInv, TypeOK, InTurn, Held, Gone, Ended, AtAccept, Reset, State
  <1>3. OwnConn'
    BY DEF IInv, TypeOK, OwnConn, NoFlow, None, Reset, State
  <1>4. OpenTied'
    BY DEF IInv, TypeOK, InTurn, OwnConn, OpenTied, Tied, Held, Gone, NoFlow, None, Ended, AtAccept, Reset, State
  <1>5. OnlyOne'
    BY DEF IInv, TypeOK, OnlyOne, Ended, AtAccept, Reset, State
  <1>6. HeldOnly'
    BY StateConns DEF IInv, HeldOnly, Reset
  <1>7. QED
    BY <1>1, <1>2, <1>3, <1>4, <1>5, <1>6 DEF IInv

\* What was read changes no table yet.
LEMMA CaptureReadsStep ==
    ASSUME IInv, NEW h \in Handles, NEW p \in Peers, NEW payload \in BOOLEAN, CaptureReads(h, p, payload)
    PROVE  IInv'
  <1>1. TypeOK'
    BY DEF IInv, TypeOK, CaptureReads
  <1>2. InTurn'
    BY DEF IInv, InTurn, Held, CaptureReads
  <1>3. OwnConn'
    BY DEF IInv, OwnConn, CaptureReads
  <1>4. OpenTied'
    BY DEF IInv, OpenTied, Tied, Held, CaptureReads
  <1>5. OnlyOne'
    BY DEF IInv, OnlyOne, CaptureReads
  <1>6. HeldOnly'
    BY DEF IInv, HeldOnly, CaptureReads
  <1>7. QED
    BY <1>1, <1>2, <1>3, <1>4, <1>5, <1>6 DEF IInv

\* A segment leaves its flow the connection it has.
LEMMA CaptureStep ==
    ASSUME IInv, NEW h \in Handles, Capture(h)
    PROVE  IInv'
  <1> DEFINE p == capture[h].peer
  <1>0. p \in Peers
    BY DEF IInv, TypeOK, AtRead, Ended, Capture
  <1>1. TypeOK'
    <2>1. [Flow(p) EXCEPT !.age = 0, !.handle = h] \in FlowType
      BY <1>0, Flows, TouchedFlow DEF IInv
    <2>2. flows' \in [Peers -> {NoFlow} \cup FlowType]
      BY <1>0, <2>1 DEF IInv, TypeOK, Capture, FlowType
    <2>3. capture' \in [Handles -> CaptureType]
      BY <1>0 DEF IInv, TypeOK, Capture, CaptureType
    <2>4. QED
      BY <2>2, <2>3 DEF IInv, TypeOK, Capture, FlowType, CaptureType
  <1>2. InTurn'
    BY DEF IInv, TypeOK, InTurn, Held, Gone, Ended, AtAccept, Capture, Flow
  <1>3. OwnConn'
    BY <1>0 DEF IInv, TypeOK, OwnConn, NoFlow, None, Capture, Flow
  <1>4. OpenTied'
    <2>1. \A q \in Peers : flows[q] # NoFlow => flows'[q] # NoFlow /\ flows'[q].conn = flows[q].conn
      <3>1. LET f == [Flow(p) EXCEPT !.age = 0, !.handle = h] IN f \in FlowType /\ f.conn = Flow(p).conn
        BY <1>0, Flows, TouchedFlow DEF IInv
      <3>2. QED
        BY <1>0, <3>1, Flows DEF IInv, TypeOK, Capture
    <2>2. QED
      BY <2>1, Numbered DEF IInv, OpenTied, Tied, Held, ConnType, Capture
  <1>5. OnlyOne'
    BY DEF IInv, TypeOK, OnlyOne, Ended, AtAccept, Capture, Flow
  <1>6. HeldOnly'
    BY DEF IInv, TypeOK, HeldOnly, Capture
  <1>7. QED
    BY <1>1, <1>2, <1>3, <1>4, <1>5, <1>6 DEF IInv

\* The end of a captureFlow leaves the table.
LEMMA CaptureFailsStep ==
    ASSUME IInv, NEW h \in Handles, CaptureFails(h)
    PROVE  IInv'
  <1>1. TypeOK'
    BY ConstantsAssumption DEF IInv, TypeOK, AtRead, Ended, AtAccept, None, Ages, NoFlow, CaptureFails
  <1>2. InTurn'
    BY DEF IInv, TypeOK, InTurn, Held, Gone, Ended, AtAccept, CaptureFails
  <1>3. OwnConn'
    BY DEF IInv, TypeOK, OwnConn, NoFlow, None, CaptureFails
  <1>4. OpenTied'
    BY DEF IInv, TypeOK, InTurn, OwnConn, OpenTied, Tied, Held, Gone, NoFlow, None, Ended, AtAccept, CaptureFails
  <1>5. OnlyOne'
    BY DEF IInv, TypeOK, OnlyOne, Ended, AtAccept, CaptureFails
  <1>6. HeldOnly'
    BY DEF IInv, TypeOK, HeldOnly, CaptureFails
  <1>7. QED
    BY <1>1, <1>2, <1>3, <1>4, <1>5, <1>6 DEF IInv

\* A reader leaves the table.
LEMMA ReadFromStep ==
    ASSUME IInv, NEW h \in Handles, ReadFrom(h)
    PROVE  IInv'
  <1>1. TypeOK'
    BY ConstantsAssumption DEF IInv, TypeOK, AtRead, Ended, AtAccept, None, Ages, NoFlow, ReadFrom
  <1>2. InTurn'
    BY DEF IInv, TypeOK, InTurn, Held, Gone, Ended, AtAccept, ReadFrom
  <1>3. OwnConn'
    BY DEF IInv, TypeOK, OwnConn, NoFlow, None, ReadFrom
  <1>4. OpenTied'
    BY DEF IInv, TypeOK, InTurn, OwnConn, OpenTied, Tied, Held, Gone, NoFlow, None, Ended, AtAccept, ReadFrom
  <1>5. OnlyOne'
    BY DEF IInv, TypeOK, OnlyOne, Ended, AtAccept, ReadFrom
  <1>6. HeldOnly'
    BY DEF IInv, TypeOK, HeldOnly, ReadFrom
  <1>7. QED
    BY <1>1, <1>2, <1>3, <1>4, <1>5, <1>6 DEF IInv

\* The end of a captureFlow leaves the table.
LEMMA CaptureDiesStep ==
    ASSUME IInv, NEW h \in Handles, CaptureDies(h)
    PROVE  IInv'
  <1>1. TypeOK'
    BY ConstantsAssumption DEF IInv, TypeOK, AtRead, Ended, AtAccept, None, Ages, NoFlow, CaptureDies
  <1>2. InTurn'
    BY DEF IInv, TypeOK, InTurn, Held, Gone, Ended, AtAccept, CaptureDies
  <1>3. OwnConn'
    BY DEF IInv, TypeOK, OwnConn, NoFlow, None, CaptureDies
  <1>4. OpenTied'
    BY DEF IInv, TypeOK, InTurn, OwnConn, OpenTied, Tied, Held, Gone, NoFlow, None, Ended, AtAccept, CaptureDies
  <1>5. OnlyOne'
    BY DEF IInv, TypeOK, OnlyOne, Ended, AtAccept, CaptureDies
  <1>6. HeldOnly'
    BY DEF IInv, TypeOK, HeldOnly, CaptureDies
  <1>7. QED
    BY <1>1, <1>2, <1>3, <1>4, <1>5, <1>6 DEF IInv

\* A look at die changes no table.
LEMMA WriteToLooksStep ==
    ASSUME IInv, NEW p \in Peers, WriteToLooks(p)
    PROVE  IInv'
  <1>1. TypeOK'
    BY DEF IInv, TypeOK, WriteToLooks
  <1>2. InTurn'
    BY DEF IInv, InTurn, Held, WriteToLooks
  <1>3. OwnConn'
    BY DEF IInv, OwnConn, WriteToLooks
  <1>4. OpenTied'
    BY DEF IInv, OpenTied, Tied, Held, WriteToLooks
  <1>5. OnlyOne'
    BY DEF IInv, OnlyOne, WriteToLooks
  <1>6. HeldOnly'
    BY DEF IInv, HeldOnly, WriteToLooks
  <1>7. QED
    BY <1>1, <1>2, <1>3, <1>4, <1>5, <1>6 DEF IInv

\* A write leaves its flow the connection it has.
LEMMA WriteToStep ==
    ASSUME IInv, NEW p \in Peers, WriteTo(p)
    PROVE  IInv'
  <1>1. TypeOK'
    BY ConstantsAssumption DEF IInv, TypeOK, AtRead, Ended, AtAccept, None, Ages, NoFlow, WriteTo, Flow
  <1>2. InTurn'
    BY DEF IInv, TypeOK, InTurn, Held, Gone, Ended, AtAccept, WriteTo, Flow
  <1>3. OwnConn'
    BY DEF IInv, TypeOK, OwnConn, NoFlow, None, WriteTo, Flow
  <1>4. OpenTied'
    BY DEF IInv, TypeOK, InTurn, OwnConn, OpenTied, Tied, Held, Gone, NoFlow, None, Ended, AtAccept, WriteTo, Flow
  <1>5. OnlyOne'
    BY DEF IInv, TypeOK, OnlyOne, Ended, AtAccept, WriteTo, Flow
  <1>6. HeldOnly'
    BY DEF IInv, TypeOK, HeldOnly, WriteTo
  <1>7. QED
    BY <1>1, <1>2, <1>3, <1>4, <1>5, <1>6 DEF IInv

\* The connection of a flow that goes is closed.
LEMMA CleanStep ==
    ASSUME IInv, Clean
    PROVE  IInv'
  <1>1. TypeOK'
    <2>1. conns' \in Seq(ConnType) /\ Len(conns') = Len(conns)
      BY ClosedConns DEF IInv, Clean
    <2>2. ASSUME NEW p \in Peers, ~Expired(Older(p))
          PROVE  Older(p) \in {NoFlow} \cup FlowType
      <3>1. CASE flows[p] # NoFlow
        <4>1. flows[p] \in FlowType
          BY <3>1, Flows DEF IInv
        <4>2. Older(p) = [flows[p] EXCEPT !.age = @ + 1] /\ Older(p) # NoFlow
          BY <3>1, <4>1 DEF Older, FlowType, NoFlow, Ages
        <4>3. Older(p).age = flows[p].age + 1 /\ Older(p).age <= flowExpire
          BY <2>2, <4>1, <4>2, ConstantsAssumption DEF Expired, FlowType, Ages
        <4>4. QED
          BY <4>1, <4>2, <4>3, ConstantsAssumption DEF FlowType, Ages
      <3>2. CASE flows[p] = NoFlow
        BY <3>2 DEF Older
      <3>3. QED
        BY <3>1, <3>2
    <2>3. flows' \in [Peers -> {NoFlow} \cup FlowType]
      BY <2>2 DEF Clean
    <2>4. QED
      BY <2>1, <2>3 DEF IInv, TypeOK, Clean, FlowType, ConnType
  <1>2. InTurn'
    BY DEF IInv, TypeOK, InTurn, Held, Gone, Ended, AtAccept, Clean, Older, Expired, Evicted, Closed
  <1>3. OwnConn'
    BY DEF IInv, TypeOK, OwnConn, NoFlow, None, Clean, Older, Expired, Evicted, Closed
  <1>4. OpenTied'
    <2> DEFINE old == [p \in Peers |-> Older(p)]
    <2>1. ASSUME NEW k \in DOMAIN conns, conns'[k].state = "open", ~Held(k)
          PROVE  flows'[conns[k].peer] # NoFlow /\ flows'[conns[k].peer].conn = k
      <3> DEFINE p == conns[k].peer
      <3>1. conns[k].state = "open" /\ k \notin Evicted(old)
        BY <2>1, ClosedConns DEF IInv, Clean
      <3>2. p \in Peers /\ flows[p] \in FlowType /\ flows[p].conn = k
        BY <2>1, <3>1, Numbered, Flows DEF IInv, OpenTied, Tied, ConnType
      <3>3. Older(p) # NoFlow /\ Older(p).conn = k
        BY <3>2, Flows DEF IInv, Older, FlowType, NoFlow, Ages
      <3>4. k # None
        BY <2>1, Numbered DEF IInv, None
      <3>5. ~Expired(old[p])
        BY <3>1, <3>2, <3>3, <3>4 DEF Evicted
      <3>6. QED
        BY <3>2, <3>3, <3>5 DEF Clean
    <2>2. QED
      BY <2>1, ClosedConns DEF IInv, OpenTied, Tied, Held, Clean
  <1>5. OnlyOne'
    BY DEF IInv, TypeOK, OnlyOne, Ended, AtAccept, Clean, Older, Expired, Evicted, Closed
  <1>6. HeldOnly'
    BY ClosedConns DEF IInv, HeldOnly, Clean
  <1>7. QED
    BY <1>1, <1>2, <1>3, <1>4, <1>5, <1>6 DEF IInv

\* The end of the cleaner leaves the table.
LEMMA CleanerEndsStep ==
    ASSUME IInv, CleanerEnds
    PROVE  IInv'
  <1>1. TypeOK'
    BY ConstantsAssumption DEF IInv, TypeOK, AtRead, Ended, AtAccept, None, Ages, NoFlow, CleanerEnds
  <1>2. InTurn'
    BY DEF IInv, TypeOK, InTurn, Held, Gone, Ended, AtAccept, CleanerEnds
  <1>3. OwnConn'
    BY DEF IInv, TypeOK, OwnConn, NoFlow, None, CleanerEnds
  <1>4. OpenTied'
    BY DEF IInv, TypeOK, InTurn, OwnConn, OpenTied, Tied, Held, Gone, NoFlow, None, Ended, AtAccept, CleanerEnds
  <1>5. OnlyOne'
    BY DEF IInv, TypeOK, OnlyOne, Ended, AtAccept, CleanerEnds
  <1>6. HeldOnly'
    BY DEF IInv, TypeOK, HeldOnly, CleanerEnds
  <1>7. QED
    BY <1>1, <1>2, <1>3, <1>4, <1>5, <1>6 DEF IInv

\* What is accepted is registered next, or closed.
LEMMA AcceptTCPStep ==
    ASSUME IInv, NEW k \in DOMAIN conns, AcceptTCP(k)
    PROVE  IInv'
  <1>1. TypeOK'
    <2>1. conns' \in Seq(ConnType) /\ Len(conns') = Len(conns)
      BY StateConns DEF IInv, AcceptTCP
    <2>2. acceptor' \in {AtAccept, Ended} \cup [at : {"register"}, k : 1..Len(conns)]
      BY Numbered DEF IInv, TypeOK, AcceptTCP
    <2>3. QED
      BY <2>1, <2>2 DEF IInv, TypeOK, AcceptTCP, ConnType
  <1>2. InTurn'
    <2>1. CASE conns' = State(k, "closed") /\ UNCHANGED acceptor
      BY <2>1, StateConns, MoreGone DEF IInv, Gone
    <2>2. CASE conns' = State(k, "open") /\ acceptor' = [at |-> "register", k |-> k]
      <3>1. /\ DOMAIN conns' = DOMAIN conns
            /\ \A j \in DOMAIN conns : /\ conns'[j].peer = conns[j].peer
                                       /\ conns'[j].state = IF j = k THEN "open" ELSE conns[j].state
        BY <2>2, StateConns DEF IInv
      <3>2. \A j \in DOMAIN conns : Held(j)' => j = k
        BY <2>2 DEF Held
      <3>3. conns[k].state = "pending"
        BY DEF AcceptTCP
      <3>4. \A i, j \in DOMAIN conns : i < j /\ conns[i].peer = conns[j].peer => conns'[i].state \in Gone
        BY <3>1, <3>3 DEF IInv, InTurn, Gone
      <3>5. \A j \in DOMAIN conns : k < j => conns[k].peer # conns[j].peer
        BY <3>3 DEF IInv, InTurn, Gone
      <3>6. QED
        BY <3>1, <3>2, <3>4, <3>5 DEF InTurn
    <2>3. QED
      BY <2>1, <2>2 DEF AcceptTCP
  <1>3. OwnConn'
    <2>1. \A p \in Peers : flows[p] # NoFlow /\ flows[p].conn # None => flows[p].conn \in DOMAIN conns
      BY Flows, Numbered DEF IInv, FlowType, None
    <2>2. \A j \in DOMAIN conns : conns'[j].peer = conns[j].peer
      <3>1. PICK st \in {"open", "closed"} : conns' = State(k, st)
        BY DEF AcceptTCP
      <3>2. QED
        BY <3>1, StateConns DEF IInv
    <2>3. QED
      BY <2>1, <2>2 DEF IInv, OwnConn, AcceptTCP
  <1>4. OpenTied'
    <2>1. \A j \in DOMAIN conns : ~Held(j)
      BY DEF AcceptTCP, Held, AtAccept
    <2>2. PICK st \in {"open", "closed"} :
              conns' = State(k, st) /\ (st = "open" => acceptor' = [at |-> "register", k |-> k])
      BY DEF AcceptTCP
    <2>3. /\ DOMAIN conns' = DOMAIN conns
          /\ \A j \in DOMAIN conns : /\ conns'[j].peer = conns[j].peer
                                     /\ conns'[j].state = IF j = k THEN st ELSE conns[j].state
      BY <2>2, StateConns DEF IInv
    <2>4. QED
      BY <2>1, <2>2, <2>3 DEF IInv, OpenTied, Tied, Held, AcceptTCP
  <1>5. OnlyOne'
    BY DEF IInv, TypeOK, OnlyOne, Ended, AtAccept, AcceptTCP, State
  <1>6. HeldOnly'
    BY DEF IInv, TypeOK, HeldOnly, AcceptTCP
  <1>7. QED
    BY <1>1, <1>2, <1>3, <1>4, <1>5, <1>6 DEF IInv

\* The connection that was in the flow before is gone.
LEMMA RegisterStep ==
    ASSUME IInv, Register
    PROVE  IInv'
  <1>1. TypeOK'
    <2> DEFINE k == acceptor.k
               p == conns[k].peer
    <2>1. k \in DOMAIN conns /\ p \in Peers
      BY Numbered DEF IInv, TypeOK, Register, Ended, AtAccept, ConnType
    <2>2. Registered(Flow(p), k) \in FlowType
      BY <2>1, Flows, Numbered DEF IInv, Registered, FlowType
    <2>3. flows' \in [Peers -> {NoFlow} \cup FlowType]
      BY <2>1, <2>2 DEF IInv, TypeOK, Register, FlowType
    <2>4. QED
      BY <2>3 DEF IInv, TypeOK, Register, FlowType
  <1>2. InTurn'
    BY DEF IInv, TypeOK, InTurn, Held, Gone, Ended, AtAccept, Register, Registered, Flow
  <1>3. OwnConn'
    BY DEF IInv, TypeOK, OwnConn, NoFlow, None, Register, Registered, Flow
  <1>4. OpenTied'
    <2> DEFINE k == acceptor.k
               p == conns[k].peer
    <2>1. k \in DOMAIN conns /\ p \in Peers /\ Held(k)
      BY Numbered DEF IInv, TypeOK, Register, Ended, AtAccept, ConnType, Held
    <2>2. Registered(Flow(p), k) # NoFlow /\ Registered(Flow(p), k).conn = k
      <3>1. Registered(Flow(p), k) \in FlowType /\ Registered(Flow(p), k).conn = k
        BY <2>1, Flows, Numbered DEF IInv, Registered, FlowType
      <3>2. QED
        BY <2>1, <3>1, Flows DEF IInv
    <2>3. flows' = [flows EXCEPT ![p] = Registered(Flow(p), k)] /\ UNCHANGED conns
      BY DEF Register
    <2>4. ASSUME NEW j \in DOMAIN conns, conns[j].state = "open"
          PROVE  Tied(j)'
      <3>1. CASE j = k
        BY <2>1, <2>2, <2>3, <3>1 DEF IInv, TypeOK, Tied
      <3>2. CASE j # k
        <4>1. conns[j].peer # p
          BY <2>1, <2>4, <3>2, Numbered DEF IInv, InTurn, Gone
        <4>2. ~Held(j)
          BY <3>2 DEF Held
        <4>3. QED
          BY <2>1, <2>3, <2>4, <4>1, <4>2, Numbered DEF IInv, TypeOK, OpenTied, Tied, ConnType
      <3>3. QED
        BY <3>1, <3>2
    <2>5. QED
      BY <2>3, <2>4 DEF OpenTied
  <1>5. OnlyOne'
    BY DEF IInv, TypeOK, OnlyOne, Ended, AtAccept, Register, Registered, Flow
  <1>6. HeldOnly'
    BY DEF IInv, TypeOK, HeldOnly, Register
  <1>7. QED
    BY <1>1, <1>2, <1>3, <1>4, <1>5, <1>6 DEF IInv

\* The end of the accept loop leaves the table.
LEMMA AcceptFailsStep ==
    ASSUME IInv, AcceptFails
    PROVE  IInv'
  <1>1. TypeOK'
    BY ConstantsAssumption DEF IInv, TypeOK, AtRead, Ended, AtAccept, None, Ages, NoFlow, AcceptFails
  <1>2. InTurn'
    BY DEF IInv, TypeOK, InTurn, Held, Gone, Ended, AtAccept, AcceptFails
  <1>3. OwnConn'
    BY DEF IInv, TypeOK, OwnConn, NoFlow, None, AcceptFails
  <1>4. OpenTied'
    BY DEF IInv, TypeOK, InTurn, OwnConn, OpenTied, Tied, Held, Gone, NoFlow, None, Ended, AtAccept, AcceptFails
  <1>5. OnlyOne'
    BY DEF IInv, TypeOK, OnlyOne, Ended, AtAccept, AcceptFails
  <1>6. HeldOnly'
    BY DEF IInv, TypeOK, HeldOnly, AcceptFails
  <1>7. QED
    BY <1>1, <1>2, <1>3, <1>4, <1>5, <1>6 DEF IInv

\* Nothing is closed yet.
LEMMA CloseDieStep ==
    ASSUME IInv, CloseDie
    PROVE  IInv'
  <1>1. TypeOK'
    BY ConstantsAssumption DEF IInv, TypeOK, AtRead, Ended, AtAccept, None, Ages, NoFlow, CloseDie
  <1>2. InTurn'
    BY DEF IInv, TypeOK, InTurn, Held, Gone, Ended, AtAccept, CloseDie
  <1>3. OwnConn'
    BY DEF IInv, TypeOK, OwnConn, NoFlow, None, CloseDie
  <1>4. OpenTied'
    BY DEF IInv, TypeOK, InTurn, OwnConn, OpenTied, Tied, Held, Gone, NoFlow, None, Ended, AtAccept, CloseDie
  <1>5. OnlyOne'
    BY DEF IInv, TypeOK, OnlyOne, Ended, AtAccept, CloseDie
  <1>6. HeldOnly'
    BY DEF IInv, TypeOK, HeldOnly, CloseDie
  <1>7. QED
    BY <1>1, <1>2, <1>3, <1>4, <1>5, <1>6 DEF IInv

\* What is closed is not open.
LEMMA CloseConnStep ==
    ASSUME IInv, CloseConn
    PROVE  IInv'
  <1>1. TypeOK'
    BY ClosedConns DEF IInv, TypeOK, ConnType, CloseConn
  <1>2. InTurn'
    BY DEF IInv, TypeOK, InTurn, Held, Gone, Ended, AtAccept, CloseConn, ClosedFirst, Closed
  <1>3. OwnConn'
    BY DEF IInv, TypeOK, OwnConn, NoFlow, None, CloseConn, ClosedFirst, Closed
  <1>4. OpenTied'
    BY DEF IInv, TypeOK, InTurn, OwnConn, OpenTied, Tied, Held, Gone, NoFlow, None, Ended, AtAccept, CloseConn, ClosedFirst, Closed
  <1>5. OnlyOne'
    BY DEF IInv, TypeOK, OnlyOne, Ended, AtAccept, CloseConn, ClosedFirst, Closed
  <1>6. HeldOnly'
    BY DEF IInv, TypeOK, HeldOnly, CloseConn
  <1>7. QED
    BY <1>1, <1>2, <1>3, <1>4, <1>5, <1>6 DEF IInv

\* Every connection in the table is closed with it.
LEMMA CloseFlowsStep ==
    ASSUME IInv, CloseFlows
    PROVE  IInv'
  <1>1. TypeOK'
    <2>1. conns' \in Seq(ConnType) /\ Len(conns') = Len(conns)
      BY ClosedConns DEF IInv, TypeOK, ConnType, CloseFlows
    <2>2. flows' \in [Peers -> {NoFlow} \cup FlowType]
      BY DEF IInv, TypeOK, FlowType, CloseFlows
    <2>3. held' \in 0..Len(conns)
      BY Numbered DEF IInv, TypeOK, CloseFlows, None, Ended, AtAccept
    <2>4. QED
      BY <2>1, <2>2, <2>3 DEF IInv, TypeOK, CloseFlows, FlowType, ConnType
  <1>2. InTurn'
    BY ClosedConns, MoreGone DEF IInv, InTurn, Held, Gone, CloseFlows
  <1>3. OwnConn'
    BY DEF IInv, TypeOK, OwnConn, NoFlow, None, CloseFlows, Closed
  <1>4. DOMAIN conns' = DOMAIN conns /\ \A k \in DOMAIN conns : conns'[k].state = "open" => Held(k)
    <2>1. CASE listener
      <3>1. ASSUME NEW k \in DOMAIN conns, conns[k].state = "open", Tied(k)
            PROVE  k \in TableConns
        BY <3>1, Numbered DEF IInv, Tied, ConnType, None, TableConns
      <3>2. conns' = Closed(TableConns)
        BY <2>1 DEF CloseFlows
      <3>3. QED
        BY <3>1, <3>2, ClosedConns DEF IInv, OpenTied
    <2>2. CASE ~listener
      BY <2>2, Numbered DEF IInv, OnlyOne, CloseFlows
    <2>3. QED
      BY <2>1, <2>2
  <1>5. OpenTied'
    BY <1>4 DEF OpenTied, Held, CloseFlows
  <1>6. OnlyOne'
    BY DEF IInv, TypeOK, OnlyOne, Ended, AtAccept, CloseFlows, Closed
  <1>7. HeldOnly'
    BY <1>4 DEF HeldOnly, Held, CloseFlows
  <1>8. QED
    BY <1>1, <1>2, <1>3, <1>5, <1>6, <1>7 DEF IInv

\* Raw sockets hold no connection.
LEMMA CloseHandlesStep ==
    ASSUME IInv, CloseHandles
    PROVE  IInv'
  <1>1. TypeOK'
    BY ConstantsAssumption DEF IInv, TypeOK, AtRead, Ended, AtAccept, None, Ages, NoFlow, CloseHandles
  <1>2. InTurn'
    BY DEF IInv, TypeOK, InTurn, Held, Gone, Ended, AtAccept, CloseHandles
  <1>3. OwnConn'
    BY DEF IInv, TypeOK, OwnConn, NoFlow, None, CloseHandles
  <1>4. OpenTied'
    BY DEF IInv, TypeOK, InTurn, OwnConn, OpenTied, Tied, Held, Gone, NoFlow, None, Ended, AtAccept, CloseHandles
  <1>5. OnlyOne'
    BY DEF IInv, TypeOK, OnlyOne, Ended, AtAccept, CloseHandles
  <1>6. HeldOnly'
    BY DEF IInv, TypeOK, HeldOnly, CloseHandles
  <1>7. QED
    BY <1>1, <1>2, <1>3, <1>4, <1>5, <1>6 DEF IInv

LEMMA NextInv == IInv /\ [Next]_vars => IInv'
  <1>1. ASSUME IInv, UNCHANGED vars
        PROVE  IInv'
    BY <1>1 DEF vars, IInv, TypeOK, InTurn, OwnConn, OpenTied, OnlyOne, HeldOnly, Tied, Held
  <1>2. QED
    BY <1>1, HandshakeStep, ResetStep, CaptureReadsStep, CaptureStep, CaptureFailsStep, ReadFromStep,
       CaptureDiesStep, WriteToLooksStep, WriteToStep, CleanStep, CleanerEndsStep, AcceptTCPStep, RegisterStep, AcceptFailsStep, CloseDieStep,
       CloseConnStep, CloseFlowsStep, CloseHandlesStep DEF Next, Close

\* The inductive invariant holds in every state of the Conn.
THEOREM Inductive == Spec => []IInv
  <1>1. QED
    BY InitInv, NextInv, PTL DEF Spec

\* For any peers, raw sockets and connections: as long as the Conn is in use, no peer is left
\* connected and unheard, however it resets and reconnects.
THEOREM NobodyUnheard == Spec => []ConnInv
  <1>1. IInv => ConnInv
    BY DEF IInv, OpenTied, Tied, Held, ConnInv, ConnectedHeard
  <1>2. QED
    BY <1>1, Inductive, PTL

\* For any peers, raw sockets and connections: once Close has emptied the table, no connection
\* is open but the one that the accept loop held then, and none is opened later.
THEOREM ClosedCompletely == Spec => []NothingLeftOpen
  <1>1. IInv => NothingLeftOpen
    BY DEF IInv, HeldOnly, NothingLeftOpen
  <1>2. QED
    BY <1>1, Inductive, PTL

=============================================================================
