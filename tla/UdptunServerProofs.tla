------------------------- MODULE UdptunServerProofs -------------------------
(***************************************************************************)
(* Proofs about UdptunServer: its table and its sockets agree for any      *)
(* number of clients, ids and sockets.  Three kinds of goroutine take      *)
(* flows out of the table and close them afterwards; the invariant says    *)
(* what each may rely on between the two.                                  *)
(***************************************************************************)
EXTENDS UdptunServer, TLAPS

\* The main loop registers for a key it found free, which nobody else does; it holds
\* the flow it writes to and who asked; and it has closed what it closes before it reads
\* again.
MainLoop ==
    /\ main.pc = "dial" => flows[main.key] = None
    /\ main.pc \in {"touch", "write"} => main.sock \in Socks
    /\ main.pc \in {"dial", "touch", "write"} => ~Busy("main") /\ main.asker \in Askers

\* A pump only closes the socket it drains, once it has stopped, and it sends answers
\* to somebody.
Pumps ==
    \A s \in Socks :
        /\ closing[s] \in {None, s}
        /\ pump[s].pc \in {"read", "send"} => ~Busy(s)
        /\ pump[s].pc = "send" => pump[s].asker \in Askers

IInv == TypeOK /\ FlowTable /\ ClosedOnce /\ MainLoop /\ Pumps

-----------------------------------------------------------------------------
USE DEF Actors, Busy, Registered

\* There is a key for sockets without a flow.
LEMMA NoKeyType == NoKey \in Keys
  <1>1. PICK t \in TAddrs : TRUE
    BY ConstantsAssumption
  <1>2. <<t, 1>> \in Keys
    BY ConstantsAssumption DEF Keys, Ids
  <1>3. QED
    BY <1>2 DEF NoKey

\* The actors have different names, and no socket is None.
LEMMA Names == Socks \cap {None, "main", "reaper"} = {}
  BY ConstantsAssumption DEF None

\* Nothing is registered, open or closing at first.
LEMMA InitInv == Init => IInv
  BY NoKeyType, ConstantsAssumption
     DEF Init, IInv, TypeOK, FlowTable, ClosedOnce, MainLoop, Pumps, AtRead, NoPump, Ages


\* closeFlow takes out the flow itself, if it is in the table, and then an actor that
\* had nothing to close has it.
LEMMA CloseFlowTable ==
    ASSUME IInv, NEW a \in Actors, ~Busy(a), NEW s \in Socks, CloseFlow(a, s), UNCHANGED sock,
           \A t \in Socks \ {s} : pump'[t] = pump[t]
    PROVE  FlowTable'
  <1>1. ASSUME NEW k \in Keys, flows'[k] # None
        PROVE  /\ flows'[k] = flows[k] /\ flows[k] # s
               /\ sock[flows[k]].key = k /\ sock[flows[k]].open /\ pump[flows[k]].pc \in {"read", "send"}
    BY <1>1 DEF IInv, TypeOK, FlowTable, CloseFlow
  <1>2. ASSUME NEW t \in Socks, sock[t].open
        PROVE  flows'[sock[t].key] = t \/ \E b \in Actors : closing'[b] = t
    <2>1. CASE t = s /\ Registered(s)
      BY <2>1 DEF IInv, TypeOK, CloseFlow
    <2>2. CASE t # s /\ Registered(t)
      BY <2>2 DEF IInv, TypeOK, FlowTable, CloseFlow
    <2>3. CASE ~Registered(t)
      <3>1. PICK b \in Actors : closing[b] = t
        BY <1>2, <2>3 DEF IInv, FlowTable
      <3>2. b # a
        BY <3>1, ConstantsAssumption DEF None
      <3>3. QED
        BY <3>1, <3>2 DEF IInv, TypeOK, CloseFlow
    <2>4. QED
      BY <2>1, <2>2, <2>3
  <1>3. QED
    BY <1>1, <1>2 DEF IInv, TypeOK, FlowTable

\* What it takes out nobody else is closing.
LEMMA CloseFlowOnce ==
    ASSUME IInv, NEW a \in Actors, ~Busy(a), NEW s \in Socks, CloseFlow(a, s), UNCHANGED sock
    PROVE  ClosedOnce'
  <1>1. CASE ~Registered(s)
    BY <1>1 DEF IInv, ClosedOnce, CloseFlow
  <1>2. CASE Registered(s)
    <2>1. sock[s].open /\ \A b \in Actors : closing[b] # s
      BY <1>2, Names DEF IInv, TypeOK, FlowTable, ClosedOnce
    <2>2. closing' = [closing EXCEPT ![a] = s] /\ flows' = [flows EXCEPT ![sock[s].key] = None]
      BY <1>2 DEF CloseFlow
    <2>3. ASSUME NEW b \in Actors, b # a, closing[b] # None
          PROVE  ~Registered(closing[b])' /\ sock[closing[b]].open
      BY <2>2, <2>3 DEF IInv, TypeOK, ClosedOnce
    <2>4. ~Registered(s)'
      BY <2>2, Names DEF IInv, TypeOK
    <2>5. closing'[a] = s /\ \A b \in Actors : b # a => closing'[b] = closing[b]
      BY <2>2 DEF IInv, TypeOK
    <2>6. QED
      BY <2>1, <2>3, <2>4, <2>5 DEF IInv, ClosedOnce
  <1>3. QED
    BY <1>1, <1>2

\* A datagram that is dropped changes nothing else.
LEMMA DiscardStep ==
    ASSUME IInv, Discard
    PROVE  IInv'
  <1>1. TypeOK'
    BY DEF IInv, TypeOK, Discard
  <1>2. FlowTable'
    BY DEF IInv, FlowTable, Discard
  <1>3. ClosedOnce'
    BY DEF IInv, ClosedOnce, Discard
  <1>4. MainLoop' /\ Pumps'
    BY DEF IInv, MainLoop, Pumps, Discard
  <1>5. QED
    BY <1>1, <1>2, <1>3, <1>4 DEF IInv

\* The flow that flowFor finds is open and drained, or there is none.
LEMMA RecvStep ==
    ASSUME IInv, Recv
    PROVE  IInv'
  <1>1. TypeOK'
    BY DEF IInv, TypeOK, Recv, Taken, Carry, Up, Down, Keys
  <1>2. FlowTable'
    BY DEF IInv, FlowTable, Recv
  <1>3. ClosedOnce'
    BY DEF IInv, ClosedOnce, Recv
  <1>4. MainLoop' /\ Pumps'
    <2>1. PICK d \in up : \/ UNCHANGED main
                          \/ /\ d.id # KeepAliveFlow
                             /\ main' = [pc |-> IF flows[<<d.from, d.id>>] = None THEN "dial" ELSE "touch",
                                         key |-> <<d.from, d.id>>, asker |-> d.asker,
                                         sock |-> flows[<<d.from, d.id>>]]
      BY DEF Recv
    <2>2. d.id # KeepAliveFlow => <<d.from, d.id>> \in Keys /\ d.asker \in Askers
      BY DEF IInv, TypeOK, Up, Keys
    <2>3. MainLoop'
      <3>1. CASE UNCHANGED main
        BY <3>1 DEF IInv, MainLoop, Recv
      <3>2. CASE /\ d.id # KeepAliveFlow
                 /\ main' = [pc |-> IF flows[<<d.from, d.id>>] = None THEN "dial" ELSE "touch",
                             key |-> <<d.from, d.id>>, asker |-> d.asker, sock |-> flows[<<d.from, d.id>>]]
        <4>1. flows[<<d.from, d.id>>] \in Socks \cup {None}
          BY <2>2, <3>2 DEF IInv, TypeOK
        <4>2. main'.key = <<d.from, d.id>> /\ main'.asker \in Askers /\ main'.sock = flows[<<d.from, d.id>>]
              /\ main'.pc = IF flows[<<d.from, d.id>>] = None THEN "dial" ELSE "touch"
          BY <2>2, <3>2
        <4>3. QED
          BY <4>1, <4>2 DEF MainLoop, Recv
      <3>3. QED
        BY <2>1, <3>1, <3>2
    <2>4. QED
      BY <2>3 DEF IInv, Pumps, Recv
  <1>5. QED
    BY <1>1, <1>2, <1>3, <1>4 DEF IInv

\* The table stays as it is.
LEMMA TransportFailsStep ==
    ASSUME IInv, TransportFails
    PROVE  IInv'
  <1>1. TypeOK'
    BY NoKeyType DEF IInv, TypeOK, TransportFails, AtRead
  <1>2. FlowTable'
    BY DEF IInv, FlowTable, TransportFails
  <1>3. ClosedOnce'
    BY DEF IInv, ClosedOnce, TransportFails
  <1>4. MainLoop' /\ Pumps'
    BY DEF IInv, MainLoop, Pumps, TransportFails
  <1>5. QED
    BY <1>1, <1>2, <1>3, <1>4 DEF IInv

\* A free socket is nobody's, so the new flow is the only one to have it.
LEMMA DialStep ==
    ASSUME IInv, Dial
    PROVE  IInv'
  <1>1. TypeOK'
    <2>1. PICK s \in Socks : Register(s) /\ main' = [main EXCEPT !.pc = "touch", !.sock = s]
      BY DEF Dial
    <2>2. main'.pc = "touch" /\ main' \in [pc : {"read", "dial", "touch", "write", "over"}, key : Keys,
                                          asker : Askers \cup {Nobody}, sock : Socks \cup {None}]
      BY <2>1 DEF IInv, TypeOK
    <2>3. /\ flows' \in [Keys -> Socks \cup {None}]
          /\ sock' \in [Socks -> [key : Keys, open : BOOLEAN]]
          /\ age' \in [Socks -> Ages]
          /\ asked' \in [Socks -> SUBSET Askers]
      BY <2>1, ConstantsAssumption DEF IInv, TypeOK, Register, Ages
    <2>4. pump' \in [Socks -> [pc : {"none", "read", "send", "end"}, asker : Askers \cup {Nobody}]]
      BY <2>1 DEF IInv, TypeOK, Register, Reading
    <2>5. QED
      BY <2>2, <2>3, <2>4 DEF IInv, TypeOK, Dial
  <1>2. FlowTable'
    BY DEF IInv, TypeOK, FlowTable, MainLoop, Dial, Free, Register, Reading
  <1>3. ClosedOnce'
    BY DEF IInv, ClosedOnce, Dial, Free, Register
  <1>4. MainLoop' /\ Pumps'
    BY DEF IInv, MainLoop, Pumps, Dial, Free, Register, Reading
  <1>5. QED
    BY <1>1, <1>2, <1>3, <1>4 DEF IInv

\* Nothing was registered.
LEMMA DialFailsStep ==
    ASSUME IInv, DialFails
    PROVE  IInv'
  <1>1. TypeOK'
    BY NoKeyType DEF IInv, TypeOK, DialFails, AtRead
  <1>2. FlowTable'
    BY DEF IInv, FlowTable, DialFails
  <1>3. ClosedOnce'
    BY DEF IInv, ClosedOnce, DialFails
  <1>4. MainLoop' /\ Pumps'
    BY DEF IInv, MainLoop, Pumps, DialFails, AtRead
  <1>5. QED
    BY <1>1, <1>2, <1>3, <1>4 DEF IInv

\* Touching a flow leaves it where it is.
LEMMA TouchStep ==
    ASSUME IInv, Touch
    PROVE  IInv'
  <1>1. TypeOK'
    BY ConstantsAssumption DEF IInv, TypeOK, MainLoop, Touch, Ages
  <1>2. FlowTable'
    BY DEF IInv, FlowTable, Touch
  <1>3. ClosedOnce'
    BY DEF IInv, ClosedOnce, Touch
  <1>4. MainLoop' /\ Pumps'
    BY DEF IInv, MainLoop, Pumps, Touch
  <1>5. QED
    BY <1>1, <1>2, <1>3, <1>4 DEF IInv

\* The main loop closes nothing else when it closes the flow it writes to.
LEMMA WriteStep ==
    ASSUME IInv, Write
    PROVE  IInv'
  <1>1. TypeOK'
    BY NoKeyType, ConstantsAssumption, SMTT(20) DEF IInv, TypeOK, MainLoop, Write, CloseFlow, AtRead
  <1>2. FlowTable'
    <2>1. CASE UNCHANGED <<flows, closing>>
      BY <2>1 DEF IInv, FlowTable, Write
    <2>2. CASE CloseFlow("main", main.sock)
      BY <2>2, CloseFlowTable DEF IInv, MainLoop, Write
    <2>3. QED
      BY <2>1, <2>2 DEF Write
  <1>3. ClosedOnce'
    BY SMTT(20) DEF IInv, TypeOK, FlowTable, ClosedOnce, MainLoop, Pumps, Write, CloseFlow, AtRead
  <1>4. MainLoop' /\ Pumps'
    BY Names DEF IInv, TypeOK, MainLoop, Pumps, Write, CloseFlow, AtRead
  <1>5. QED
    BY <1>1, <1>2, <1>3, <1>4 DEF IInv

\* An answer touches the flow.
LEMMA PumpReadStep ==
    ASSUME IInv, NEW s \in Socks, PumpRead(s)
    PROVE  IInv'
  <1>1. TypeOK'
    BY ConstantsAssumption DEF IInv, TypeOK, PumpRead, Ages
  <1>2. FlowTable'
    BY DEF IInv, FlowTable, PumpRead
  <1>3. ClosedOnce'
    BY DEF IInv, ClosedOnce, PumpRead
  <1>4. MainLoop' /\ Pumps'
    BY DEF IInv, TypeOK, MainLoop, Pumps, PumpRead
  <1>5. QED
    BY <1>1, <1>2, <1>3, <1>4 DEF IInv

\* An answer goes to whom the flow belongs.
LEMMA PumpSendStep ==
    ASSUME IInv, NEW s \in Socks, PumpSend(s)
    PROVE  IInv'
  <1>1. TypeOK'
    <2>1. [to |-> sock[s].key[1], id |-> sock[s].key[2], asker |-> pump[s].asker] \in Down
      BY DEF IInv, TypeOK, Pumps, PumpSend, Down, Keys
    <2>2. down' \subseteq Down
      BY <2>1 DEF IInv, TypeOK, PumpSend, Carry
    <2>3. QED
      BY <2>2 DEF IInv, TypeOK, PumpSend, Reading
  <1>2. FlowTable'
    BY DEF IInv, FlowTable, PumpSend, Reading
  <1>3. ClosedOnce'
    BY DEF IInv, ClosedOnce, PumpSend
  <1>4. MainLoop' /\ Pumps'
    BY DEF IInv, MainLoop, Pumps, PumpSend, Reading
  <1>5. QED
    BY <1>1, <1>2, <1>3, <1>4 DEF IInv

\* A pump ends with its flow taken out, by itself or before.
LEMMA PumpFailsStep ==
    ASSUME IInv, NEW s \in Socks, PumpFails(s)
    PROVE  IInv'
  <1>1. TypeOK'
    BY DEF IInv, TypeOK, MainLoop, PumpFails, CloseFlow
  <1>2. FlowTable'
    BY CloseFlowTable DEF IInv, TypeOK, Pumps, PumpFails
  <1>3. ClosedOnce'
    BY CloseFlowOnce DEF IInv, TypeOK, Pumps, PumpFails
  <1>4. MainLoop'
    BY Names DEF IInv, TypeOK, MainLoop, PumpFails, CloseFlow
  <1>5. ASSUME NEW t \in Socks
        PROVE  /\ closing'[t] \in {None, t}
               /\ pump'[t].pc \in {"read", "send"} => ~Busy(t)'
               /\ pump'[t].pc = "send" => pump'[t].asker \in Askers
    <2>1. CASE t = s
      BY <2>1 DEF IInv, TypeOK, Pumps, PumpFails, CloseFlow
    <2>2. CASE t # s
      BY <2>2 DEF IInv, TypeOK, Pumps, PumpFails, CloseFlow
    <2>3. QED
      BY <2>1, <2>2
  <1>6. QED
    BY <1>1, <1>2, <1>3, <1>4, <1>5 DEF IInv, Pumps

\* The socket of a pump that ended is not in the table.
LEMMA PumpEndsStep ==
    ASSUME IInv, NEW s \in Socks, PumpEnds(s)
    PROVE  IInv'
  <1>1. TypeOK'
    BY NoKeyType DEF IInv, TypeOK, PumpEnds, NoPump
  <1>2. FlowTable'
    <2>1. \A k \in Keys : flows[k] # s
      BY Names DEF IInv, FlowTable, PumpEnds
    <2>2. ASSUME NEW t \in Socks, sock[t].open
          PROVE  Registered(t)' \/ \E b \in Actors : closing[b] = t
      <3>1. CASE t = s
        BY <3>1, <2>1, <2>2 DEF IInv, TypeOK, FlowTable
      <3>2. CASE t # s
        BY <3>2, <2>2 DEF IInv, FlowTable, PumpEnds
      <3>3. QED
        BY <3>1, <3>2
    <2>3. QED
      BY <2>1, <2>2 DEF IInv, FlowTable, PumpEnds
  <1>3. ClosedOnce'
    BY NoKeyType DEF IInv, FlowTable, ClosedOnce, PumpEnds
  <1>4. MainLoop' /\ Pumps'
    BY DEF IInv, MainLoop, Pumps, PumpEnds, NoPump
  <1>5. QED
    BY <1>1, <1>2, <1>3, <1>4 DEF IInv

\* The reaper only looks.
LEMMA ScanStep ==
    ASSUME IInv, Scan
    PROVE  IInv'
  <1>1. TypeOK'
    BY DEF IInv, TypeOK, Scan
  <1>2. FlowTable'
    BY DEF IInv, FlowTable, Scan
  <1>3. ClosedOnce'
    BY DEF IInv, ClosedOnce, Scan
  <1>4. MainLoop' /\ Pumps'
    BY DEF IInv, MainLoop, Pumps, Scan
  <1>5. QED
    BY <1>1, <1>2, <1>3, <1>4 DEF IInv

\* What the reaper saw may have been taken out since.
LEMMA ReapOneStep ==
    ASSUME IInv, ReapOne
    PROVE  IInv'
  <1>1. TypeOK'
    BY DEF IInv, TypeOK, ReapOne, CloseFlow
  <1>2. FlowTable'
    BY CloseFlowTable DEF IInv, TypeOK, ReapOne
  <1>3. ClosedOnce'
    BY CloseFlowOnce DEF IInv, TypeOK, ReapOne
  <1>4. MainLoop' /\ Pumps'
    BY Names DEF IInv, TypeOK, MainLoop, Pumps, ReapOne, CloseFlow
  <1>5. QED
    BY <1>1, <1>2, <1>3, <1>4 DEF IInv

\* What is closed was taken out before, and nobody else closes it.
LEMMA CloseConnStep ==
    ASSUME IInv, NEW a \in Actors, CloseConn(a)
    PROVE  IInv'
  <1> DEFINE c == closing[a]
  <1>0. c \in Socks /\ ~Registered(c)
    BY DEF IInv, TypeOK, ClosedOnce, CloseConn
  <1>1. TypeOK'
    BY <1>0 DEF IInv, TypeOK, CloseConn
  <1>2. FlowTable'
    <2>1. ASSUME NEW t \in Socks, t # c, sock[t].open
          PROVE  Registered(t) \/ \E b \in Actors : closing'[b] = t
      BY <2>1 DEF IInv, TypeOK, FlowTable, CloseConn
    <2>2. \A k \in Keys : flows[k] # c
      BY <1>0, Names DEF IInv, FlowTable
    <2>3. \A t \in Socks : t # c => sock'[t] = sock[t]
      BY DEF IInv, TypeOK, CloseConn
    <2>4. ~sock'[c].open /\ \A t \in Socks : sock'[t].key = sock[t].key
      BY <1>0 DEF IInv, TypeOK, CloseConn
    <2>5. QED
      <3>1. ASSUME NEW k \in Keys, flows[k] # None
            PROVE  /\ sock'[flows[k]].key = k /\ sock'[flows[k]].open
                   /\ pump[flows[k]].pc \in {"read", "send"}
        BY <3>1, <2>2, <2>3 DEF IInv, TypeOK, FlowTable
      <3>2. ASSUME NEW t \in Socks, sock'[t].open
            PROVE  flows[sock'[t].key] = t \/ \E b \in Actors : closing'[b] = t
        BY <3>2, <2>1, <2>3, <2>4
      <3>3. QED
        BY <3>1, <3>2 DEF FlowTable, CloseConn
  <1>3. ClosedOnce'
    BY DEF IInv, TypeOK, ClosedOnce, CloseConn
  <1>4. MainLoop' /\ Pumps'
    BY DEF IInv, MainLoop, Pumps, CloseConn
  <1>5. QED
    BY <1>1, <1>2, <1>3, <1>4 DEF IInv

\* The reaper ends with nothing to close.
LEMMA ReaperEndsStep ==
    ASSUME IInv, ReaperEnds
    PROVE  IInv'
  <1>1. TypeOK'
    BY DEF IInv, TypeOK, ReaperEnds
  <1>2. FlowTable'
    BY DEF IInv, FlowTable, ReaperEnds
  <1>3. ClosedOnce'
    BY DEF IInv, ClosedOnce, ReaperEnds
  <1>4. MainLoop' /\ Pumps'
    BY DEF IInv, MainLoop, Pumps, ReaperEnds
  <1>5. QED
    BY <1>1, <1>2, <1>3, <1>4 DEF IInv

\* Only ages change.
LEMMA TickStep ==
    ASSUME IInv, Tick
    PROVE  IInv'
  <1>1. TypeOK'
    BY ConstantsAssumption DEF IInv, TypeOK, Tick, Aged, IsIdle, Ages
  <1>2. FlowTable'
    BY DEF IInv, FlowTable, Tick
  <1>3. ClosedOnce'
    BY DEF IInv, ClosedOnce, Tick
  <1>4. MainLoop' /\ Pumps'
    BY DEF IInv, MainLoop, Pumps, Tick
  <1>5. QED
    BY <1>1, <1>2, <1>3, <1>4 DEF IInv

\* Only the network changes.
LEMMA ArriveStep ==
    ASSUME IInv, Arrive
    PROVE  IInv'
  <1>1. TypeOK'
    BY DEF IInv, TypeOK, Arrive, Carry
  <1>2. FlowTable'
    BY DEF IInv, FlowTable, Arrive
  <1>3. ClosedOnce'
    BY DEF IInv, ClosedOnce, Arrive
  <1>4. MainLoop' /\ Pumps'
    BY DEF IInv, MainLoop, Pumps, Arrive
  <1>5. QED
    BY <1>1, <1>2, <1>3, <1>4 DEF IInv

\* Only the network changes.
LEMMA DepartStep ==
    ASSUME IInv, Depart
    PROVE  IInv'
  <1>1. TypeOK'
    BY DEF IInv, TypeOK, Depart
  <1>2. FlowTable'
    BY DEF IInv, FlowTable, Depart
  <1>3. ClosedOnce'
    BY DEF IInv, ClosedOnce, Depart
  <1>4. MainLoop' /\ Pumps'
    BY DEF IInv, MainLoop, Pumps, Depart
  <1>5. QED
    BY <1>1, <1>2, <1>3, <1>4 DEF IInv

\* The invariant is inductive.
LEMMA NextInv == IInv /\ [Next]_vars => IInv'
  <1>1. ASSUME IInv, UNCHANGED vars
        PROVE  IInv'
    BY <1>1 DEF vars, IInv, TypeOK, FlowTable, ClosedOnce, MainLoop, Pumps
  <1>2. ASSUME IInv, ServerStep
        PROVE  IInv'
    <2>1. CASE Discard \/ Recv \/ Dial \/ DialFails \/ Touch \/ Write
      BY <1>2, <2>1, DiscardStep, RecvStep, DialStep, DialFailsStep, TouchStep, WriteStep
    <2>2. ASSUME NEW s \in Socks, PumpRead(s) \/ PumpSend(s) \/ PumpFails(s) \/ PumpEnds(s)
          PROVE  IInv'
      BY <1>2, <2>2, PumpReadStep, PumpSendStep, PumpFailsStep, PumpEndsStep
    <2>3. CASE Scan \/ ReapOne \/ \E a \in Actors : CloseConn(a)
      BY <1>2, <2>3, ScanStep, ReapOneStep, CloseConnStep
    <2>4. QED
      BY <1>2, <2>1, <2>2, <2>3 DEF ServerStep
  <1>3. ASSUME IInv, TransportFails \/ ReaperEnds \/ Tick \/ Arrive \/ Depart
        PROVE  IInv'
    BY <1>3, TransportFailsStep, ReaperEndsStep, TickStep, ArriveStep, DepartStep
  <1>4. QED
    BY <1>1, <1>2, <1>3 DEF Next

\* The inductive invariant holds in every state of the server.
THEOREM Inductive == Spec => []IInv
  <1>1. QED
    BY InitInv, NextInv, PTL DEF Spec

\* For any clients, ids and sockets: what is in the table is open and drained, an open
\* socket is in the table or about to be closed, and no socket is closed twice, through
\* every race of the main loop, the pumps and the reaper.
THEOREM FlowsCorrect == Spec => []FlowInv
  <1>1. IInv => FlowInv
    BY DEF IInv, FlowInv
  <1>2. QED
    BY <1>1, Inductive, PTL

=============================================================================
