---------------------------- MODULE UdptunProofs ----------------------------
(***************************************************************************)
(* Proofs about Udptun, the relay end to end: for any number of clients,   *)
(* sockets and ids the clients' tables agree, and replies reach who asked. *)
(* An asker is known by its client's address and its flow's id.  That pair *)
(* is named in datagrams, in the server and in its client's tables; the    *)
(* invariant is that all of them mean the same asker, also of a pair that  *)
(* its client has given up.  The client's transport, UdptunTransport,      *)
(* has variables of its own and is proved about separately, at the end.    *)
(***************************************************************************)
EXTENDS Udptun, UdptunTransport, FiniteSetTheorems, TLAPS

SP == INSTANCE UdptunServerProofs WITH IdleTTL <- ServerIdle

\* Who is meant by address t and id i: in the datagrams up and down, ...
InUp(t, i, who) == \E d \in up : d.from = t /\ d.id = i /\ d.asker = who
InDown(t, i, who) == \E d \in down : d.to = t /\ d.id = i /\ d.asker = who

\* ... in the server's main loop and its pumps, ...
InMain(t, i, who) == main.pc \in {"dial", "touch", "write"} /\ main.key = <<t, i>> /\ main.asker = who
InPumps(t, i, who) ==
    \E s \in Socks : /\ pump[s].pc # "none" /\ sock[s].key = <<t, i>>
                     /\ who \in asked[s] \/ (pump[s].pc = "send" /\ pump[s].asker = who)

\* ... and in its client's tables and localLoop.
InTables(t, i, who) == \E c \in Clients : at[c] = t /\ byID[c][i] # None /\ who = <<c, byID[c][i]>>
InLocal(t, i, who) == \E c \in Clients : at[c] = t /\ local[c].id = i /\ who = <<c, local[c].addr>>

Means(t, i, who) ==
    \/ InUp(t, i, who) \/ InDown(t, i, who) \/ InMain(t, i, who) \/ InPumps(t, i, who)
    \/ InTables(t, i, who) \/ InLocal(t, i, who)

OneMeaning ==
    \A t \in TAddrs, i \in Ids : \A v, w \in Askers : Means(t, i, v) /\ Means(t, i, w) => v = w

\* No two clients have an address in common, nor is one mentioned before it is used.
Addresses ==
    /\ \A c \in Clients : at[c] \in used
    /\ \A c, d \in Clients : at[c] = at[d] => c = d
    /\ \A t \in TAddrs, i \in Ids : \A v \in Askers : Means(t, i, v) => t \in used

\* A socket whose pump has ended may still be written to once, by the main loop that
\* holds it; others are of the flow that the main loop has looked up.
LastWrite ==
    /\ \A s \in Socks : pump[s].pc = "none" => \A v, w \in asked[s] : v = w
    /\ main.pc \in {"touch", "write"} =>
           IF pump[main.sock].pc = "none" THEN asked[main.sock] = {} ELSE sock[main.sock].key = main.key

Clientside == TypeOK /\ TablesAgree
Meanings == OneMeaning /\ Addresses /\ LastWrite /\ RepliesToAsker

RelayInv == Clientside /\ SP!IInv /\ Meanings

-----------------------------------------------------------------------------
(* The server, as UdptunServerProofs has it *)

LEMMA ServerConstants == SP!ConstantsAssumption
  BY ServerAssumption DEF S!ConstantsAssumption, SP!ConstantsAssumption

LEMMA SameIds == SP!KeepAliveFlow = KeepAliveFlow /\ SP!Ids = Ids
  BY DEF SP!KeepAliveFlow, KeepAliveFlow, SP!Ids, Ids

\* What the datagrams and the server hold.
LEMMA ServerTyped ==
    ASSUME SP!IInv
    PROVE  /\ up \subseteq [from : TAddrs, id : Ids, asker : Askers]
                          \cup [from : TAddrs, id : {KeepAliveFlow}, asker : {Nobody}]
           /\ down \subseteq [to : TAddrs, id : Ids, asker : Askers]
                            \cup [to : TAddrs, id : {KeepAliveFlow}, asker : {Nobody}]
           /\ \A s \in Socks : sock[s].key \in TAddrs \X Ids /\ asked[s] \subseteq Askers
           /\ sock \in [Socks -> [key : TAddrs \X Ids, open : BOOLEAN]]
           /\ asked \in [Socks -> SUBSET Askers]
           /\ main.key \in TAddrs \X Ids
  BY DEF SP!IInv, SP!TypeOK, SP!Up, SP!Down, SP!Keys, SP!KeepAliveFlow, KeepAliveFlow, SP!Ids, Ids

\* The two instances of the server are one.
LEMMA SameServer ==
    /\ S!Init => SP!Init
    /\ S!ServerStep => SP!ServerStep
    /\ S!Aged = SP!Aged
  <1>1. S!Init => SP!Init
    BY DEF S!Init, SP!Init, S!Keys, SP!Keys, S!Ids, SP!Ids, S!None, SP!None, S!NoKey, SP!NoKey, S!AtRead, SP!AtRead,
           S!NoPump, SP!NoPump, S!Actors, SP!Actors
  <1>0. \A n, d : S!Carry(n, d) = SP!Carry(n, d) /\ S!Taken(n, d) = SP!Taken(n, d)
    BY DEF S!Carry, SP!Carry, S!Taken, SP!Taken, S!Cardinality, SP!Cardinality
  <1>2. S!ServerStep => SP!ServerStep
    <2>1. S!Discard => SP!Discard
      BY DEF S!Discard, SP!Discard, S!Busy, SP!Busy, S!None, SP!None
    <2>2. S!Recv => SP!Recv
      BY <1>0 DEF S!Recv, SP!Recv, S!Busy, SP!Busy, S!None, SP!None, S!KeepAliveFlow, SP!KeepAliveFlow
    <2>3. S!Dial => SP!Dial
      BY DEF S!Dial, SP!Dial, S!Free, SP!Free, S!Register, SP!Register, S!Reading, SP!Reading, S!None, SP!None, S!Actors, SP!Actors
    <2>4. S!DialFails => SP!DialFails
      BY DEF S!DialFails, SP!DialFails, S!AtRead, SP!AtRead, S!NoKey, SP!NoKey, S!Keys, SP!Keys, S!Ids, SP!Ids, S!None, SP!None
    <2>5. S!Touch => SP!Touch
      BY DEF S!Touch, SP!Touch
    <2>6. S!Write => SP!Write
      BY DEF S!Write, SP!Write, S!CloseFlow, SP!CloseFlow, S!Registered, SP!Registered, S!None, SP!None, S!AtRead, SP!AtRead, S!NoKey, SP!NoKey, S!Keys, SP!Keys, S!Ids, SP!Ids
    <2>7. \A s \in Socks : S!PumpRead(s) => SP!PumpRead(s)
      BY DEF S!PumpRead, SP!PumpRead
    <2>8. \A s \in Socks : S!PumpSend(s) => SP!PumpSend(s)
      BY <1>0 DEF S!PumpSend, SP!PumpSend, S!Reading, SP!Reading
    <2>9. \A s \in Socks : S!PumpFails(s) => SP!PumpFails(s)
      BY DEF S!PumpFails, SP!PumpFails, S!CloseFlow, SP!CloseFlow, S!Registered, SP!Registered, S!None, SP!None
    <2>10. \A s \in Socks : S!PumpEnds(s) => SP!PumpEnds(s)
      BY DEF S!PumpEnds, SP!PumpEnds, S!Busy, SP!Busy, S!None, SP!None, S!NoPump, SP!NoPump, S!NoKey, SP!NoKey, S!Keys, SP!Keys, S!Ids, SP!Ids
    <2>11. S!Scan => SP!Scan
      BY DEF S!Scan, SP!Scan, S!Busy, SP!Busy, S!None, SP!None, S!Registered, SP!Registered, S!IsIdle, SP!IsIdle
    <2>12. S!ReapOne => SP!ReapOne
      BY DEF S!ReapOne, SP!ReapOne, S!Busy, SP!Busy, S!None, SP!None, S!CloseFlow, SP!CloseFlow, S!Registered, SP!Registered
    <2>13. \A a \in SP!Actors : S!CloseConn(a) => SP!CloseConn(a)
      BY DEF S!CloseConn, SP!CloseConn, S!Busy, SP!Busy, S!None, SP!None
    <2>14. S!Actors = SP!Actors
      BY DEF S!Actors, SP!Actors
    <2>15. QED
      BY <2>1, <2>2, <2>3, <2>4, <2>5, <2>6, <2>7, <2>8, <2>9, <2>10, <2>11, <2>12, <2>13, <2>14 DEF S!ServerStep, SP!ServerStep
  <1>3. S!Aged = SP!Aged
    BY DEF S!Aged, SP!Aged, S!Registered, SP!Registered, S!IsIdle, SP!IsIdle
  <1>4. QED
    BY <1>1, <1>2, <1>3

\* The server's invariant is not about what clients do: they only add datagrams of
\* their flows, and take some away.
LEMMA ServerKept ==
    ASSUME SP!IInv, UNCHANGED serverVars, up' \subseteq SP!Up, down' \subseteq SP!Down
    PROVE  SP!IInv'
  BY DEF serverVars, SP!IInv, SP!TypeOK, SP!FlowTable, SP!ClosedOnce, SP!MainLoop, SP!Pumps, SP!Busy, SP!Registered

LEMMA ServerStepKeeps == SP!IInv /\ S!ServerStep => SP!IInv'
  BY SameServer, SP!NextInv, ServerConstants DEF SP!Next

LEMMA ServerTickKeeps == SP!IInv /\ Tick => SP!IInv'
  <1>1. Tick => SP!Tick
    BY SameServer DEF Tick, SP!Tick
  <1>2. QED
    BY <1>1, SP!TickStep, ServerConstants

LEMMA ServerInit == S!Init => SP!IInv
  BY SameServer, SP!InitInv, ServerConstants

-----------------------------------------------------------------------------
(* The clients' tables *)

\* No id is given at first.
LEMMA ClientInit == Init => Clientside
  BY ConstantsAssumption DEF Init, Clientside, TypeOK, TablesAgree, Ids, NoFlow

\* flowFor gives an id that no flow has, to an address that has none.
LEMMA LocalRecvTables ==
    ASSUME Clientside, NEW c \in Clients, NEW a \in Addrs, LocalRecv(c, a)
    PROVE  Clientside'
  <1>1. CASE UNCHANGED <<tables, idle>> /\ local' = [local EXCEPT ![c] = [id |-> byAddr[c][a], addr |-> a]] /\ byAddr[c][a] # 0
    BY <1>1 DEF Clientside, TypeOK, TablesAgree, LocalRecv, tables, Ids
  <1>2. ASSUME NEW id \in Ids, byAddr[c][a] = 0, Fresh(c, id), NewFlow(c, a, id),
               local' = [local EXCEPT ![c] = [id |-> id, addr |-> a]]
        PROVE  Clientside'
    <2>1. byID[c][id] = None
      BY <1>2 DEF Fresh
    <2>2. TypeOK'
      <3>1. byAddr' \in [Clients -> [Addrs -> 0..MaxId]]
        BY <1>2 DEF Clientside, TypeOK, NewFlow, Ids
      <3>2. byID' \in [Clients -> [Ids -> Addrs \cup {None}]]
        BY <1>2 DEF Clientside, TypeOK, NewFlow
      <3>3. nextID' \in [Clients -> 0..MaxId]
        BY <1>2 DEF Clientside, TypeOK, NewFlow, Ids
      <3>4. idle' \in [Clients -> [Ids -> 0..(IdleTTL + 1)]]
        BY <1>2, ConstantsAssumption DEF Clientside, TypeOK, NewFlow
      <3>5. local' \in [Clients -> {NoFlow} \cup [id : Ids, addr : Addrs]]
        BY <1>2 DEF Clientside, TypeOK
      <3>6. QED
        BY <3>1, <3>2, <3>3, <3>4, <3>5 DEF Clientside, TypeOK, LocalRecv
    <2>3. /\ \A d \in Clients, b \in Addrs : byAddr'[d][b] = IF d = c /\ b = a THEN id ELSE byAddr[d][b]
          /\ \A d \in Clients, i \in Ids : byID'[d][i] = IF d = c /\ i = id THEN a ELSE byID[d][i]
      BY <1>2 DEF Clientside, TypeOK, NewFlow
    <2>4. TablesAgree'
      <3>1. ASSUME NEW d \in Clients, NEW b \in Addrs, byAddr'[d][b] # 0
            PROVE  byID'[d][byAddr'[d][b]] = b
        <4>1. CASE d = c /\ b = a
          BY <1>2, <2>3, <4>1
        <4>2. CASE ~(d = c /\ b = a)
          <5>1. byAddr'[d][b] = byAddr[d][b] /\ byAddr[d][b] \in Ids /\ byID[d][byAddr[d][b]] = b
            BY <2>3, <3>1, <4>2, ConstantsAssumption DEF Clientside, TypeOK, TablesAgree, Ids
          <5>2. ~(d = c /\ byAddr[d][b] = id)
            BY <2>1, <5>1, ConstantsAssumption
          <5>3. QED
            BY <2>3, <5>1, <5>2
        <4>3. QED
          BY <4>1, <4>2
      <3>2. ASSUME NEW d \in Clients, NEW i \in Ids, byID'[d][i] # None
            PROVE  byAddr'[d][byID'[d][i]] = i
        <4>1. CASE d = c /\ i = id
          BY <2>3, <4>1
        <4>2. CASE ~(d = c /\ i = id)
          <5>1. byID'[d][i] = byID[d][i] /\ byID[d][i] \in Addrs /\ byAddr[d][byID[d][i]] = i
            BY <2>3, <3>2, <4>2 DEF Clientside, TypeOK, TablesAgree
          <5>2. ~(d = c /\ byID[d][i] = a)
            BY <1>2, <5>1, ConstantsAssumption DEF Ids
          <5>3. QED
            BY <2>3, <5>1, <5>2
        <4>3. QED
          BY <4>1, <4>2
      <3>3. QED
        BY <3>1, <3>2 DEF TablesAgree
    <2>5. QED
      BY <2>2, <2>4 DEF Clientside
  <1>3. QED
    BY <1>1, <1>2 DEF LocalRecv

\* A touch leaves an age an age.
LEMMA TouchedType ==
    ASSUME TypeOK, NEW c \in Clients, NEW f
    PROVE  Touched(c, f) \in [Clients -> [Ids -> 0..(IdleTTL + 1)]]
  <1>1. 0 \in 0..(IdleTTL + 1)
    BY ConstantsAssumption
  <1>2. [idle[c] EXCEPT ![f.id] = 0] \in [Ids -> 0..(IdleTTL + 1)]
    BY <1>1 DEF TypeOK
  <1>3. QED
    BY <1>2 DEF TypeOK, Touched

LEMMA LocalSendTables ==
    ASSUME Clientside, NEW c \in Clients, LocalSend(c)
    PROVE  Clientside'
  <1>1. idle' \in [Clients -> [Ids -> 0..(IdleTTL + 1)]]
    BY TouchedType DEF Clientside, TypeOK, LocalSend
  <1>2. local' \in [Clients -> {NoFlow} \cup [id : Ids, addr : Addrs]]
    BY DEF Clientside, TypeOK, LocalSend
  <1>3. QED
    BY <1>1, <1>2 DEF Clientside, TypeOK, TablesAgree, LocalSend, tables

LEMMA TransportRecvTables ==
    ASSUME Clientside, SP!IInv, NEW c \in Clients, TransportRecv(c)
    PROVE  Clientside'
  <1>1. PICK d \in down :
               reply' = IF d.id # KeepAliveFlow /\ byID[c][d.id] # None
                        THEN [reply EXCEPT ![c] = [id |-> d.id, addr |-> byID[c][d.id], asker |-> d.asker]]
                        ELSE reply
    BY DEF TransportRecv
  <1>2. d.id # KeepAliveFlow => d.id \in Ids /\ d.asker \in Askers
    BY ServerTyped, SameIds
  <1>3. reply' \in [Clients -> {Nothing} \cup [id : Ids, addr : Addrs, asker : Askers]]
    BY <1>1, <1>2 DEF Clientside, TypeOK
  <1>4. QED
    BY <1>3 DEF Clientside, TypeOK, TablesAgree, TransportRecv, tables

LEMMA TransportDeliverTables ==
    ASSUME Clientside, NEW c \in Clients, TransportDeliver(c)
    PROVE  Clientside'
  BY TouchedType DEF Clientside, TypeOK, TablesAgree, TransportDeliver, tables

\* A flow goes from both tables at once.
LEMMA ReapTables ==
    ASSUME Clientside, NEW c \in Clients, Reap(c)
    PROVE  Clientside'
  <1>1. /\ \A d \in Clients, b \in Addrs :
               byAddr'[d][b] = IF d = c /\ byAddr[d][b] \in Stale(c) THEN 0 ELSE byAddr[d][b]
        /\ \A d \in Clients, i \in Ids :
               byID'[d][i] = IF d = c /\ i \in Stale(c) THEN None ELSE byID[d][i]
    BY DEF Clientside, TypeOK, Reap, Forget
  <1>2. TypeOK'
    <2>1. byAddr' \in [Clients -> [Addrs -> 0..MaxId]]
      BY ConstantsAssumption DEF Clientside, TypeOK, Reap, Forget
    <2>2. byID' \in [Clients -> [Ids -> Addrs \cup {None}]]
      BY DEF Clientside, TypeOK, Reap, Forget
    <2>3. QED
      BY <2>1, <2>2 DEF Clientside, TypeOK, Reap, Forget
  <1>3. TablesAgree'
    <2>1. ASSUME NEW d \in Clients, NEW b \in Addrs, byAddr'[d][b] # 0
          PROVE  byID'[d][byAddr'[d][b]] = b
      <3>1. byAddr'[d][b] = byAddr[d][b] /\ byAddr[d][b] \in Ids /\ byID[d][byAddr[d][b]] = b
        BY <1>1, <2>1, ConstantsAssumption DEF Clientside, TypeOK, TablesAgree, Ids
      <3>2. ~(d = c /\ byAddr[d][b] \in Stale(c))
        BY <1>1, <2>1
      <3>3. QED
        BY <1>1, <3>1, <3>2
    <2>2. ASSUME NEW d \in Clients, NEW i \in Ids, byID'[d][i] # None
          PROVE  byAddr'[d][byID'[d][i]] = i
      <3>1. byID'[d][i] = byID[d][i] /\ ~(d = c /\ i \in Stale(c))
        BY <1>1, <2>2
      <3>2. byID[d][i] \in Addrs /\ byAddr[d][byID[d][i]] = i
        BY <2>2, <3>1 DEF Clientside, TypeOK, TablesAgree
      <3>3. QED
        BY <1>1, <3>1, <3>2
    <2>3. QED
      BY <2>1, <2>2 DEF TablesAgree
  <1>4. QED
    BY <1>2, <1>3 DEF Clientside

\* Keepalives and redials leave the tables alone.
LEMMA PingTables ==
    ASSUME Clientside, NEW c \in Clients, Ping(c)
    PROVE  Clientside'
  BY DEF Clientside, TypeOK, TablesAgree, Ping, tables

LEMMA RedialTables ==
    ASSUME Clientside, NEW c \in Clients, Redial(c)
    PROVE  Clientside'
  BY DEF Clientside, TypeOK, TablesAgree, Redial, tables

LEMMA TickTables ==
    ASSUME Clientside, Tick
    PROVE  Clientside'
  <1>1. idle' \in [Clients -> [Ids -> 0..(IdleTTL + 1)]]
    <2>1. ASSUME NEW c \in Clients, NEW i \in Ids
          PROVE  (IF byID[c][i] # None /\ idle[c][i] <= IdleTTL THEN idle[c][i] + 1 ELSE idle[c][i])
                     \in 0..(IdleTTL + 1)
      BY ConstantsAssumption DEF Clientside, TypeOK
    <2>2. QED
      BY <2>1 DEF Tick, Aged
  <1>2. QED
    BY <1>1 DEF Clientside, TypeOK, TablesAgree, Tick, tables

LEMMA ClientStepTables == Clientside /\ SP!IInv /\ ClientStep => Clientside'
  BY LocalRecvTables, LocalSendTables, TransportRecvTables, TransportDeliverTables, ReapTables, PingTables,
     RedialTables DEF ClientStep

-----------------------------------------------------------------------------
(* What address and id mean.  Steps of the server only repeat what was said. *)

\* If nobody means anyone new, one meaning stays one.
LEMMA MeaningsKept ==
    ASSUME OneMeaning, Addresses, UNCHANGED <<at, used>>,
           \A t \in TAddrs, i \in Ids : \A v \in Askers : Means(t, i, v)' => Means(t, i, v)
    PROVE  OneMeaning' /\ Addresses'
  BY DEF OneMeaning, Addresses


\* The server leaves the clients' part alone, ...
LEMMA ServerSays ==
    ASSUME UNCHANGED clientVars, OneMeaning, Addresses, RepliesToAsker, LastWrite', up' \subseteq up,
           \A t \in TAddrs, i \in Ids : \A v \in Askers :
               InDown(t, i, v)' \/ InMain(t, i, v)' \/ InPumps(t, i, v)' => Means(t, i, v)
    PROVE  Meanings'
  <1>1. ASSUME NEW t \in TAddrs, NEW i \in Ids, NEW v \in Askers, Means(t, i, v)'
        PROVE  Means(t, i, v)
    <2>1. CASE InUp(t, i, v)'
      BY <2>1 DEF InUp, Means
    <2>2. CASE InTables(t, i, v)' \/ InLocal(t, i, v)'
      BY <2>2 DEF InTables, InLocal, Means, clientVars, tables
    <2>3. CASE InDown(t, i, v)' \/ InMain(t, i, v)' \/ InPumps(t, i, v)'
      BY <2>3
    <2>4. QED
      BY <1>1, <2>1, <2>2, <2>3 DEF Means
  <1>2. QED
    BY <1>1, MeaningsKept DEF Meanings, RepliesToAsker, clientVars

\* ... and clients leave the server's.
LEMMA ClientSays ==
    ASSUME UNCHANGED serverVars, NEW t, NEW i, NEW v
    PROVE  InMain(t, i, v)' = InMain(t, i, v) /\ InPumps(t, i, v)' = InPumps(t, i, v)
  BY DEF serverVars, InMain, InPumps

\* A datagram less is nobody's meaning more.
LEMMA DiscardMeans ==
    ASSUME RelayInv, SP!Discard, UNCHANGED clientVars
    PROVE  Meanings'
  <1>1. ASSUME NEW t \in TAddrs, NEW i \in Ids, NEW v \in Askers
        PROVE  /\ InDown(t, i, v)' => InDown(t, i, v) \/ InPumps(t, i, v)
               /\ InMain(t, i, v)' => InMain(t, i, v) \/ InUp(t, i, v)
               /\ InPumps(t, i, v)' => InPumps(t, i, v) \/ InMain(t, i, v)
    <2>1. InDown(t, i, v)' => InDown(t, i, v) \/ InPumps(t, i, v)
      BY DEF RelayInv, InDown, SP!Discard
    <2>2. InMain(t, i, v)' => InMain(t, i, v) \/ InUp(t, i, v)
      BY DEF RelayInv, SP!IInv, SP!TypeOK, InMain, SP!Discard
    <2>3. InPumps(t, i, v)' => InPumps(t, i, v) \/ InMain(t, i, v)
      BY DEF RelayInv, SP!IInv, SP!TypeOK, InPumps, SP!Discard
    <2>4. QED
      BY <2>1, <2>2, <2>3
  <1>2. LastWrite'
    BY DEF RelayInv, Meanings, LastWrite, SP!IInv, SP!TypeOK, SP!MainLoop, SP!FlowTable, SP!Discard
  <1>3. QED
    BY <1>1, <1>2, ServerSays DEF RelayInv, Meanings, Means, SP!Discard

\* The main loop takes over what a datagram says, and a keepalive is for nobody.
LEMMA RecvMeans ==
    ASSUME RelayInv, SP!Recv, UNCHANGED clientVars
    PROVE  Meanings'
  <1>1. ASSUME NEW t \in TAddrs, NEW i \in Ids, NEW v \in Askers
        PROVE  /\ InDown(t, i, v)' => InDown(t, i, v) \/ InPumps(t, i, v)
               /\ InMain(t, i, v)' => InMain(t, i, v) \/ InUp(t, i, v)
               /\ InPumps(t, i, v)' => InPumps(t, i, v) \/ InMain(t, i, v)
    <2>1. InDown(t, i, v)' => InDown(t, i, v) \/ InPumps(t, i, v)
      BY DEF RelayInv, InDown, Ids, SP!KeepAliveFlow, SP!Recv, SP!Taken, SP!Carry
    <2>2. InMain(t, i, v)' => InMain(t, i, v) \/ InUp(t, i, v)
      BY DEF RelayInv, SP!IInv, SP!TypeOK, InMain, InUp, SP!Recv, SP!Taken, SP!Carry
    <2>3. InPumps(t, i, v)' => InPumps(t, i, v) \/ InMain(t, i, v)
      BY DEF RelayInv, SP!IInv, SP!TypeOK, InPumps, SP!Recv, SP!Taken, SP!Carry
    <2>4. QED
      BY <2>1, <2>2, <2>3
  <1>2. LastWrite'
    <2>1. CASE UNCHANGED main
      BY <2>1 DEF RelayInv, Meanings, LastWrite, SP!Recv
    <2>2. ASSUME NEW key, main'.sock = flows[key], main'.key = key, key \in SP!Keys, flows[key] # SP!None
          PROVE  pump[main'.sock].pc # "none" /\ sock[main'.sock].key = main'.key
      BY <2>2 DEF RelayInv, SP!IInv, SP!FlowTable
    <2>3. CASE \E d \in up : d.id # SP!KeepAliveFlow /\
                   main' = [pc |-> IF flows[<<d.from, d.id>>] = SP!None THEN "dial" ELSE "touch",
                            key |-> <<d.from, d.id>>, asker |-> d.asker, sock |-> flows[<<d.from, d.id>>]]
      <3>1. PICK d \in up : d.id # SP!KeepAliveFlow /\
                   main' = [pc |-> IF flows[<<d.from, d.id>>] = SP!None THEN "dial" ELSE "touch",
                            key |-> <<d.from, d.id>>, asker |-> d.asker, sock |-> flows[<<d.from, d.id>>]]
        BY <2>3
      <3>2. <<d.from, d.id>> \in SP!Keys
        BY <3>1, ServerTyped, SameIds DEF RelayInv, SP!Keys
      <3>3. QED
        BY <2>2, <3>1, <3>2 DEF RelayInv, Meanings, LastWrite, SP!Recv
    <2>4. QED
      BY <2>1, <2>3 DEF SP!Recv
  <1>3. QED
    BY <1>1, <1>2, ServerSays DEF RelayInv, Meanings, Means, SP!Taken, SP!Recv

\* A new socket has been asked nothing yet.
LEMMA DialMeans ==
    ASSUME RelayInv, SP!Dial, UNCHANGED clientVars
    PROVE  Meanings'
  <1>1. ASSUME NEW t \in TAddrs, NEW i \in Ids, NEW v \in Askers
        PROVE  /\ InDown(t, i, v)' => InDown(t, i, v) \/ InPumps(t, i, v)
               /\ InMain(t, i, v)' => InMain(t, i, v) \/ InUp(t, i, v)
               /\ InPumps(t, i, v)' => InPumps(t, i, v) \/ InMain(t, i, v)
    <2>1. InDown(t, i, v)' => InDown(t, i, v) \/ InPumps(t, i, v)
      BY DEF RelayInv, InDown, SP!Dial, SP!Register, SP!Reading, SP!Free
    <2>2. InMain(t, i, v)' => InMain(t, i, v) \/ InUp(t, i, v)
      BY DEF RelayInv, SP!IInv, SP!TypeOK, InMain, SP!Dial, SP!Register, SP!Reading, SP!Free
    <2>3. InPumps(t, i, v)' => InPumps(t, i, v) \/ InMain(t, i, v)
      <3>1. PICK n \in Socks : SP!Register(n)
        BY DEF SP!Dial
      <3>2. ASSUME NEW s \in Socks
            PROVE  IF s = n THEN asked'[s] = {} /\ pump'[s].pc = "read"
                   ELSE asked'[s] = asked[s] /\ pump'[s] = pump[s] /\ sock'[s] = sock[s]
        BY <3>1 DEF RelayInv, SP!IInv, SP!TypeOK, SP!Register, SP!Reading
      <3>3. QED
        BY <3>2 DEF InPumps
    <2>4. QED
      BY <2>1, <2>2, <2>3
  <1>2. LastWrite'
    BY DEF RelayInv, Meanings, LastWrite, SP!IInv, SP!TypeOK, SP!MainLoop, SP!FlowTable, SP!Dial, SP!Register, SP!Reading, SP!Free
  <1>3. QED
    BY <1>1, <1>2, ServerSays DEF RelayInv, Meanings, Means, SP!Dial

\* The main loop forgets.
LEMMA DialFailsMeans ==
    ASSUME RelayInv, SP!DialFails, UNCHANGED clientVars
    PROVE  Meanings'
  <1>1. ASSUME NEW t \in TAddrs, NEW i \in Ids, NEW v \in Askers
        PROVE  /\ InDown(t, i, v)' => InDown(t, i, v) \/ InPumps(t, i, v)
               /\ InMain(t, i, v)' => InMain(t, i, v) \/ InUp(t, i, v)
               /\ InPumps(t, i, v)' => InPumps(t, i, v) \/ InMain(t, i, v)
    <2>1. InDown(t, i, v)' => InDown(t, i, v) \/ InPumps(t, i, v)
      BY DEF RelayInv, InDown, SP!DialFails, SP!AtRead
    <2>2. InMain(t, i, v)' => InMain(t, i, v) \/ InUp(t, i, v)
      BY DEF RelayInv, SP!IInv, SP!TypeOK, InMain, SP!DialFails, SP!AtRead
    <2>3. InPumps(t, i, v)' => InPumps(t, i, v) \/ InMain(t, i, v)
      BY DEF RelayInv, SP!IInv, SP!TypeOK, InPumps, SP!DialFails, SP!AtRead
    <2>4. QED
      BY <2>1, <2>2, <2>3
  <1>2. LastWrite'
    BY DEF RelayInv, Meanings, LastWrite, SP!IInv, SP!TypeOK, SP!MainLoop, SP!FlowTable, SP!DialFails, SP!AtRead
  <1>3. QED
    BY <1>1, <1>2, ServerSays DEF RelayInv, Meanings, Means, SP!DialFails

\* Time does not say who asked.
LEMMA TouchMeans ==
    ASSUME RelayInv, SP!Touch, UNCHANGED clientVars
    PROVE  Meanings'
  <1>1. ASSUME NEW t \in TAddrs, NEW i \in Ids, NEW v \in Askers
        PROVE  /\ InDown(t, i, v)' => InDown(t, i, v) \/ InPumps(t, i, v)
               /\ InMain(t, i, v)' => InMain(t, i, v) \/ InUp(t, i, v)
               /\ InPumps(t, i, v)' => InPumps(t, i, v) \/ InMain(t, i, v)
    <2>1. InDown(t, i, v)' => InDown(t, i, v) \/ InPumps(t, i, v)
      BY DEF RelayInv, InDown, SP!Touch
    <2>2. InMain(t, i, v)' => InMain(t, i, v) \/ InUp(t, i, v)
      BY DEF RelayInv, SP!IInv, SP!TypeOK, InMain, SP!Touch
    <2>3. InPumps(t, i, v)' => InPumps(t, i, v) \/ InMain(t, i, v)
      BY DEF RelayInv, SP!IInv, SP!TypeOK, InPumps, SP!Touch
    <2>4. QED
      BY <2>1, <2>2, <2>3
  <1>2. LastWrite'
    BY DEF RelayInv, Meanings, LastWrite, SP!IInv, SP!TypeOK, SP!MainLoop, SP!FlowTable, SP!Touch
  <1>3. QED
    BY <1>1, <1>2, ServerSays DEF RelayInv, Meanings, Means, SP!Touch

\* The main loop writes to the socket of the flow it has looked up, or to one of no flow.
LEMMA WriteMeans ==
    ASSUME RelayInv, SP!Write, UNCHANGED clientVars
    PROVE  Meanings'
  <1>1. ASSUME NEW t \in TAddrs, NEW i \in Ids, NEW v \in Askers
        PROVE  /\ InDown(t, i, v)' => InDown(t, i, v) \/ InPumps(t, i, v)
               /\ InMain(t, i, v)' => InMain(t, i, v) \/ InUp(t, i, v)
               /\ InPumps(t, i, v)' => InPumps(t, i, v) \/ InMain(t, i, v)
    <2>1. InDown(t, i, v)' => InDown(t, i, v) \/ InPumps(t, i, v)
      BY DEF RelayInv, InDown, SP!Write, SP!CloseFlow, SP!AtRead
    <2>2. InMain(t, i, v)' => InMain(t, i, v) \/ InUp(t, i, v)
      BY DEF RelayInv, SP!IInv, SP!TypeOK, InMain, SP!Write, SP!CloseFlow, SP!AtRead
    <2>3. InPumps(t, i, v)' => InPumps(t, i, v) \/ InMain(t, i, v)
      <3>1. ASSUME NEW s \in Socks, pump[s].pc # "none", sock[s].key = <<t, i>>, v \in asked'[s], v \notin asked[s]
            PROVE  InMain(t, i, v)
        <4>1. s = main.sock /\ v = main.asker
          BY <3>1, ServerTyped DEF RelayInv, SP!Write
        <4>2. QED
          BY <3>1, <4>1 DEF RelayInv, Meanings, LastWrite, InMain, SP!Write
      <3>2. QED
        BY <3>1 DEF InPumps, SP!Write
    <2>4. QED
      BY <2>1, <2>2, <2>3
  <1>2. LastWrite'
    <2>1. main'.pc = "read"
      BY DEF SP!Write, SP!AtRead
    <2>2. ASSUME NEW s \in Socks, pump[s].pc = "none", NEW v \in asked'[s], NEW w \in asked'[s]
          PROVE  v = w
      <3>1. CASE s = main.sock
        <4>1. asked[s] = {}
          BY <2>2, <3>1 DEF RelayInv, Meanings, LastWrite, SP!Write
        <4>2. asked'[s] \subseteq {main.asker}
          BY <3>1, <4>1, ServerTyped DEF RelayInv, SP!Write
        <4>3. QED
          BY <2>2, <4>2
      <3>2. CASE s # main.sock
        BY <2>2, <3>2, ServerTyped DEF RelayInv, Meanings, LastWrite, SP!Write
      <3>3. QED
        BY <3>1, <3>2
    <2>3. QED
      BY <2>1, <2>2 DEF LastWrite, SP!Write
  <1>3. QED
    BY <1>1, <1>2, ServerSays DEF RelayInv, Meanings, Means, SP!Write

\* The target answers what it was asked.
LEMMA PumpReadMeans ==
    ASSUME RelayInv, NEW s \in Socks, SP!PumpRead(s), UNCHANGED clientVars
    PROVE  Meanings'
  <1>1. ASSUME NEW t \in TAddrs, NEW i \in Ids, NEW v \in Askers
        PROVE  /\ InDown(t, i, v)' => InDown(t, i, v) \/ InPumps(t, i, v)
               /\ InMain(t, i, v)' => InMain(t, i, v) \/ InUp(t, i, v)
               /\ InPumps(t, i, v)' => InPumps(t, i, v) \/ InMain(t, i, v)
    <2>1. InDown(t, i, v)' => InDown(t, i, v) \/ InPumps(t, i, v)
      BY DEF RelayInv, InDown, SP!PumpRead
    <2>2. InMain(t, i, v)' => InMain(t, i, v) \/ InUp(t, i, v)
      BY DEF RelayInv, SP!IInv, SP!TypeOK, InMain, SP!PumpRead
    <2>3. InPumps(t, i, v)' => InPumps(t, i, v) \/ InMain(t, i, v)
      BY SMTT(20) DEF RelayInv, SP!IInv, SP!TypeOK, InPumps, SP!PumpRead
    <2>4. QED
      BY <2>1, <2>2, <2>3
  <1>2. LastWrite'
    BY DEF RelayInv, Meanings, LastWrite, SP!IInv, SP!TypeOK, SP!MainLoop, SP!FlowTable, SP!PumpRead
  <1>3. QED
    BY <1>1, <1>2, ServerSays DEF RelayInv, Meanings, Means, SP!PumpRead

\* A pump answers under the key of its flow.
LEMMA PumpSendMeans ==
    ASSUME RelayInv, NEW s \in Socks, SP!PumpSend(s), UNCHANGED clientVars
    PROVE  Meanings'
  <1>1. ASSUME NEW t \in TAddrs, NEW i \in Ids, NEW v \in Askers
        PROVE  /\ InDown(t, i, v)' => InDown(t, i, v) \/ InPumps(t, i, v)
               /\ InMain(t, i, v)' => InMain(t, i, v) \/ InUp(t, i, v)
               /\ InPumps(t, i, v)' => InPumps(t, i, v) \/ InMain(t, i, v)
    <2>1. InDown(t, i, v)' => InDown(t, i, v) \/ InPumps(t, i, v)
      <3> DEFINE k == sock[s].key
                 e == [to |-> k[1], id |-> k[2], asker |-> pump[s].asker]
      <3>1. down' = down \/ down' = down \cup {e}
        BY DEF SP!PumpSend, SP!Carry
      <3>2. e.to = t /\ e.id = i /\ e.asker = v => InPumps(t, i, v)
        <4>1. k = <<k[1], k[2]>>
          BY ServerTyped DEF RelayInv
        <4>2. QED
          BY <4>1 DEF InPumps, SP!PumpSend
      <3>3. QED
        BY <3>1, <3>2 DEF InDown
    <2>2. InMain(t, i, v)' => InMain(t, i, v) \/ InUp(t, i, v)
      BY DEF RelayInv, SP!IInv, SP!TypeOK, InMain, SP!PumpSend, SP!Carry, SP!Reading
    <2>3. InPumps(t, i, v)' => InPumps(t, i, v) \/ InMain(t, i, v)
      BY DEF RelayInv, SP!IInv, SP!TypeOK, InPumps, SP!PumpSend, SP!Carry, SP!Reading
    <2>4. QED
      BY <2>1, <2>2, <2>3
  <1>2. LastWrite'
    BY DEF RelayInv, Meanings, LastWrite, SP!IInv, SP!TypeOK, SP!MainLoop, SP!FlowTable, SP!PumpSend, SP!Carry, SP!Reading
  <1>3. QED
    BY <1>1, <1>2, ServerSays DEF RelayInv, Meanings, Means, SP!PumpSend

\* A pump that stops sends nothing any more.
LEMMA PumpFailsMeans ==
    ASSUME RelayInv, NEW s \in Socks, SP!PumpFails(s), UNCHANGED clientVars
    PROVE  Meanings'
  <1>1. ASSUME NEW t \in TAddrs, NEW i \in Ids, NEW v \in Askers
        PROVE  /\ InDown(t, i, v)' => InDown(t, i, v) \/ InPumps(t, i, v)
               /\ InMain(t, i, v)' => InMain(t, i, v) \/ InUp(t, i, v)
               /\ InPumps(t, i, v)' => InPumps(t, i, v) \/ InMain(t, i, v)
    <2>1. InDown(t, i, v)' => InDown(t, i, v) \/ InPumps(t, i, v)
      BY DEF RelayInv, InDown, SP!PumpFails, SP!CloseFlow
    <2>2. InMain(t, i, v)' => InMain(t, i, v) \/ InUp(t, i, v)
      BY DEF RelayInv, SP!IInv, SP!TypeOK, InMain, SP!PumpFails, SP!CloseFlow
    <2>3. InPumps(t, i, v)' => InPumps(t, i, v) \/ InMain(t, i, v)
      BY DEF RelayInv, SP!IInv, SP!TypeOK, InPumps, SP!PumpFails, SP!CloseFlow
    <2>4. QED
      BY <2>1, <2>2, <2>3
  <1>2. LastWrite'
    BY DEF RelayInv, Meanings, LastWrite, SP!IInv, SP!TypeOK, SP!MainLoop, SP!FlowTable, SP!PumpFails, SP!CloseFlow
  <1>3. QED
    BY <1>1, <1>2, ServerSays DEF RelayInv, Meanings, Means, SP!PumpFails

\* A socket without a pump and a flow has been asked nothing.
LEMMA PumpEndsMeans ==
    ASSUME RelayInv, NEW s \in Socks, SP!PumpEnds(s), UNCHANGED clientVars
    PROVE  Meanings'
  <1>1. ASSUME NEW t \in TAddrs, NEW i \in Ids, NEW v \in Askers
        PROVE  /\ InDown(t, i, v)' => InDown(t, i, v) \/ InPumps(t, i, v)
               /\ InMain(t, i, v)' => InMain(t, i, v) \/ InUp(t, i, v)
               /\ InPumps(t, i, v)' => InPumps(t, i, v) \/ InMain(t, i, v)
    <2>1. InDown(t, i, v)' => InDown(t, i, v) \/ InPumps(t, i, v)
      BY DEF RelayInv, InDown, SP!PumpEnds, SP!NoPump
    <2>2. InMain(t, i, v)' => InMain(t, i, v) \/ InUp(t, i, v)
      BY DEF RelayInv, SP!IInv, SP!TypeOK, InMain, SP!PumpEnds, SP!NoPump
    <2>3. InPumps(t, i, v)' => InPumps(t, i, v) \/ InMain(t, i, v)
      BY DEF RelayInv, SP!IInv, SP!TypeOK, InPumps, SP!PumpEnds, SP!NoPump
    <2>4. QED
      BY <2>1, <2>2, <2>3
  <1>2. LastWrite'
    BY DEF RelayInv, Meanings, LastWrite, SP!IInv, SP!TypeOK, SP!MainLoop, SP!FlowTable, SP!PumpEnds, SP!NoPump
  <1>3. QED
    BY <1>1, <1>2, ServerSays DEF RelayInv, Meanings, Means, SP!PumpEnds

\* The reaper does not ask.
LEMMA ScanMeans ==
    ASSUME RelayInv, SP!Scan, UNCHANGED clientVars
    PROVE  Meanings'
  <1>1. ASSUME NEW t \in TAddrs, NEW i \in Ids, NEW v \in Askers
        PROVE  /\ InDown(t, i, v)' => InDown(t, i, v) \/ InPumps(t, i, v)
               /\ InMain(t, i, v)' => InMain(t, i, v) \/ InUp(t, i, v)
               /\ InPumps(t, i, v)' => InPumps(t, i, v) \/ InMain(t, i, v)
    <2>1. InDown(t, i, v)' => InDown(t, i, v) \/ InPumps(t, i, v)
      BY DEF RelayInv, InDown, SP!Scan
    <2>2. InMain(t, i, v)' => InMain(t, i, v) \/ InUp(t, i, v)
      BY DEF RelayInv, SP!IInv, SP!TypeOK, InMain, SP!Scan
    <2>3. InPumps(t, i, v)' => InPumps(t, i, v) \/ InMain(t, i, v)
      BY DEF RelayInv, SP!IInv, SP!TypeOK, InPumps, SP!Scan
    <2>4. QED
      BY <2>1, <2>2, <2>3
  <1>2. LastWrite'
    BY DEF RelayInv, Meanings, LastWrite, SP!IInv, SP!TypeOK, SP!MainLoop, SP!FlowTable, SP!Scan
  <1>3. QED
    BY <1>1, <1>2, ServerSays DEF RelayInv, Meanings, Means, SP!Scan

\* The reaper does not ask.
LEMMA ReapOneMeans ==
    ASSUME RelayInv, SP!ReapOne, UNCHANGED clientVars
    PROVE  Meanings'
  <1>1. ASSUME NEW t \in TAddrs, NEW i \in Ids, NEW v \in Askers
        PROVE  /\ InDown(t, i, v)' => InDown(t, i, v) \/ InPumps(t, i, v)
               /\ InMain(t, i, v)' => InMain(t, i, v) \/ InUp(t, i, v)
               /\ InPumps(t, i, v)' => InPumps(t, i, v) \/ InMain(t, i, v)
    <2>1. InDown(t, i, v)' => InDown(t, i, v) \/ InPumps(t, i, v)
      BY DEF RelayInv, InDown, SP!ReapOne, SP!CloseFlow
    <2>2. InMain(t, i, v)' => InMain(t, i, v) \/ InUp(t, i, v)
      BY DEF RelayInv, SP!IInv, SP!TypeOK, InMain, SP!ReapOne, SP!CloseFlow
    <2>3. InPumps(t, i, v)' => InPumps(t, i, v) \/ InMain(t, i, v)
      BY DEF RelayInv, SP!IInv, SP!TypeOK, InPumps, SP!ReapOne, SP!CloseFlow
    <2>4. QED
      BY <2>1, <2>2, <2>3
  <1>2. LastWrite'
    BY DEF RelayInv, Meanings, LastWrite, SP!IInv, SP!TypeOK, SP!MainLoop, SP!FlowTable, SP!ReapOne, SP!CloseFlow
  <1>3. QED
    BY <1>1, <1>2, ServerSays DEF RelayInv, Meanings, Means, SP!ReapOne

\* Closing does not ask.
LEMMA CloseConnMeans ==
    ASSUME RelayInv, NEW a \in SP!Actors, SP!CloseConn(a), UNCHANGED clientVars
    PROVE  Meanings'
  <1>1. ASSUME NEW t \in TAddrs, NEW i \in Ids, NEW v \in Askers
        PROVE  /\ InDown(t, i, v)' => InDown(t, i, v) \/ InPumps(t, i, v)
               /\ InMain(t, i, v)' => InMain(t, i, v) \/ InUp(t, i, v)
               /\ InPumps(t, i, v)' => InPumps(t, i, v) \/ InMain(t, i, v)
    <2>1. InDown(t, i, v)' => InDown(t, i, v) \/ InPumps(t, i, v)
      BY DEF RelayInv, InDown, SP!CloseConn, SP!Busy
    <2>2. InMain(t, i, v)' => InMain(t, i, v) \/ InUp(t, i, v)
      BY DEF RelayInv, SP!IInv, SP!TypeOK, InMain, SP!CloseConn, SP!Busy
    <2>3. InPumps(t, i, v)' => InPumps(t, i, v) \/ InMain(t, i, v)
      BY DEF RelayInv, SP!IInv, SP!TypeOK, InPumps, SP!CloseConn, SP!Busy
    <2>4. QED
      BY <2>1, <2>2, <2>3
  <1>2. LastWrite'
    BY DEF RelayInv, Meanings, LastWrite, SP!IInv, SP!TypeOK, SP!MainLoop, SP!FlowTable, SP!CloseConn, SP!Busy
  <1>3. QED
    BY <1>1, <1>2, ServerSays DEF RelayInv, Meanings, Means, SP!CloseConn

\* So no step of the server says anything new.
LEMMA ServerStepMeans == RelayInv /\ S!ServerStep /\ UNCHANGED clientVars => Meanings'
  BY SameServer, DiscardMeans, RecvMeans, DialMeans, DialFailsMeans, TouchMeans, WriteMeans, PumpReadMeans,
     PumpSendMeans, PumpFailsMeans, PumpEndsMeans, ScanMeans, ReapOneMeans, CloseConnMeans DEF SP!ServerStep

-----------------------------------------------------------------------------
(* A client may name a new asker, of an id that nobody mentions *)

\* What a client does not touch means what it meant.
LEMMA ServerQuiet ==
    ASSUME UNCHANGED serverVars, RelayInv
    PROVE  LastWrite'
  BY DEF serverVars, RelayInv, Meanings, LastWrite

\* If the flow has an id, localLoop names an asker whom the tables name.
LEMMA OldFlowMeans ==
    ASSUME RelayInv, NEW c \in Clients, NEW a \in Addrs, byAddr[c][a] # 0, LocalRecv(c, a), UNCHANGED serverVars
    PROVE  Meanings'
  <1>1. /\ local' = [local EXCEPT ![c] = [id |-> byAddr[c][a], addr |-> a]]
        /\ UNCHANGED <<up, down, tables, reply, at, used>>
    BY DEF LocalRecv
  <1>2. byAddr[c][a] \in Ids /\ byID[c][byAddr[c][a]] = a /\ a # None
    BY ConstantsAssumption DEF RelayInv, Clientside, TypeOK, TablesAgree, Ids
  <1>3. ASSUME NEW t \in TAddrs, NEW i \in Ids, NEW v \in Askers, Means(t, i, v)'
        PROVE  Means(t, i, v)
    <2>1. CASE InLocal(t, i, v)'
      <3>1. PICK d \in Clients : at'[d] = t /\ local'[d].id = i /\ v = <<d, local'[d].addr>>
        BY <2>1 DEF InLocal
      <3>2. CASE d = c
        <4>1. local'[c] = [id |-> byAddr[c][a], addr |-> a]
          BY <1>1 DEF RelayInv, Clientside, TypeOK
        <4>2. QED
          BY <1>1, <1>2, <3>1, <3>2, <4>1 DEF InTables, Means
      <3>3. CASE d # c
        BY <1>1, <3>1, <3>3 DEF RelayInv, Clientside, TypeOK, InLocal, Means
      <3>4. QED
        BY <3>2, <3>3
    <2>2. CASE InUp(t, i, v)' \/ InDown(t, i, v)' \/ InTables(t, i, v)'
      BY <1>1, <2>2 DEF InUp, InDown, InTables, Means, tables
    <2>3. QED
      BY <1>3, <2>1, <2>2, ClientSays DEF Means
  <1>4. QED
    BY <1>1, <1>3, MeaningsKept, ServerQuiet DEF RelayInv, Meanings, RepliesToAsker

\* A new flow has an id of which nothing is left.
LEMMA NewFlowMeans ==
    ASSUME RelayInv, NEW c \in Clients, NEW a \in Addrs, byAddr[c][a] = 0, LocalRecv(c, a), NoneTooSoon,
           UNCHANGED serverVars
    PROVE  Meanings'
  <1>1. PICK id \in Ids : /\ byID[c][id] = None /\ byID' = [byID EXCEPT ![c][id] = a]
                          /\ local' = [local EXCEPT ![c] = [id |-> id, addr |-> a]]
                          /\ local[c].addr = None
                          /\ UNCHANGED <<up, down, reply, at, used>>
    <2>1. byAddr[c][a] \notin Ids
      BY ConstantsAssumption DEF Ids
    <2>2. QED
      BY <2>1 DEF LocalRecv, Fresh, NewFlow
  <1>2. a # None /\ local[c].id \notin Ids
    BY <1>1, ConstantsAssumption DEF RelayInv, Clientside, TypeOK, NoFlow, Ids
  <1>3. /\ \A d \in Clients, i \in Ids : byID'[d][i] = IF d = c /\ i = id THEN a ELSE byID[d][i]
        /\ \A d \in Clients : local'[d] = IF d = c THEN [id |-> id, addr |-> a] ELSE local[d]
    BY <1>1 DEF RelayInv, Clientside, TypeOK
  <1>4. Over(c, id)
    BY <1>1, <1>2, <1>3 DEF NoneTooSoon
  <1>5. \A d \in Clients : at[d] = at[c] => d = c
    BY DEF RelayInv, Meanings, Addresses
  <1>6. ASSUME NEW v \in Askers
        PROVE  ~Means(at[c], id, v)
    <2>1. ~InUp(at[c], id, v) /\ ~InDown(at[c], id, v)
      BY <1>4 DEF Over, InUp, InDown
    <2>2. ~InMain(at[c], id, v) /\ ~InPumps(at[c], id, v)
      BY <1>4 DEF Over, InMain, InPumps
    <2>3. ~InTables(at[c], id, v)
      BY <1>1, <1>5 DEF InTables
    <2>4. ~InLocal(at[c], id, v)
      BY <1>2, <1>5 DEF InLocal
    <2>5. QED
      BY <2>1, <2>2, <2>3, <2>4 DEF Means
  <1>7. ASSUME NEW t \in TAddrs, NEW i \in Ids, NEW v \in Askers, Means(t, i, v)'
        PROVE  Means(t, i, v) \/ (t = at[c] /\ i = id /\ v = <<c, a>>)
    <2>1. CASE InTables(t, i, v)'
      BY <1>1, <1>3, <2>1 DEF InTables, Means
    <2>2. CASE InLocal(t, i, v)'
      BY <1>1, <1>3, <2>2 DEF InLocal, Means
    <2>3. CASE InUp(t, i, v)' \/ InDown(t, i, v)'
      BY <1>1, <2>3 DEF InUp, InDown, Means
    <2>4. QED
      BY <1>7, <2>1, <2>2, <2>3, ClientSays DEF Means
  <1>8. OneMeaning'
    BY <1>6, <1>7 DEF RelayInv, Meanings, OneMeaning
  <1>9. Addresses'
    BY <1>1, <1>7 DEF RelayInv, Meanings, Addresses
  <1>10. QED
    BY <1>1, <1>8, <1>9, ServerQuiet DEF RelayInv, Meanings, RepliesToAsker

\* A datagram goes up under the id that localLoop holds.
LEMMA LocalSendMeans ==
    ASSUME RelayInv, NEW c \in Clients, LocalSend(c), UNCHANGED serverVars
    PROVE  Meanings'
  <1> DEFINE e == [from |-> at[c], id |-> local[c].id, asker |-> <<c, local[c].addr>>]
  <1>1. /\ up' = up \/ up' = up \cup {e}
        /\ local' = [local EXCEPT ![c] = NoFlow]
        /\ UNCHANGED <<down, tables, reply, at, used>>
    BY DEF LocalSend, Carry
  <1>2. \A d \in Clients : local'[d] = IF d = c THEN NoFlow ELSE local[d]
    BY <1>1 DEF RelayInv, Clientside, TypeOK
  <1>3. ASSUME NEW t \in TAddrs, NEW i \in Ids, NEW v \in Askers, Means(t, i, v)'
        PROVE  Means(t, i, v)
    <2>1. CASE InUp(t, i, v)'
      BY <1>1, <2>1 DEF InUp, InLocal, Means
    <2>2. CASE InLocal(t, i, v)'
      BY <1>1, <1>2, <2>2 DEF InLocal, Means, NoFlow, Ids
    <2>3. CASE InDown(t, i, v)' \/ InTables(t, i, v)'
      BY <1>1, <2>3 DEF InDown, InTables, Means, tables
    <2>4. QED
      BY <1>3, <2>1, <2>2, <2>3, ClientSays DEF Means
  <1>4. QED
    BY <1>1, <1>3, MeaningsKept, ServerQuiet DEF RelayInv, Meanings, RepliesToAsker

\* An answer is for who asked, because the id it bears means the same to the table.
LEMMA TransportRecvMeans ==
    ASSUME RelayInv, NEW c \in Clients, TransportRecv(c), UNCHANGED serverVars
    PROVE  Meanings'
  <1>1. PICK d \in down :
            /\ d.to = at[c] /\ down' \subseteq down
            /\ reply' = IF d.id # KeepAliveFlow /\ byID[c][d.id] # None
                        THEN [reply EXCEPT ![c] = [id |-> d.id, addr |-> byID[c][d.id], asker |-> d.asker]]
                        ELSE reply
            /\ UNCHANGED <<up, tables, local, at, used>>
    BY DEF TransportRecv, Taken
  <1>2. ASSUME NEW t \in TAddrs, NEW i \in Ids, NEW v \in Askers, Means(t, i, v)'
        PROVE  Means(t, i, v)
    <2>1. CASE InUp(t, i, v)' \/ InDown(t, i, v)' \/ InTables(t, i, v)' \/ InLocal(t, i, v)'
      BY <1>1, <2>1 DEF InUp, InDown, InTables, InLocal, Means, tables
    <2>2. QED
      BY <1>2, <2>1, ClientSays DEF Means
  <1>3. ASSUME d.id # KeepAliveFlow, byID[c][d.id] # None
        PROVE  d.asker = <<c, byID[c][d.id]>>
    <2>1. d.id \in Ids /\ d.asker \in Askers
      BY <1>3, ServerTyped, SameIds DEF RelayInv
    <2>2. at[c] \in TAddrs /\ <<c, byID[c][d.id]>> \in Askers
      BY <1>3, <2>1 DEF RelayInv, Clientside, TypeOK, Askers
    <2>3. Means(at[c], d.id, d.asker)
      BY <1>1 DEF Means, InDown
    <2>4. Means(at[c], d.id, <<c, byID[c][d.id]>>)
      BY <1>3 DEF Means, InTables
    <2>5. QED
      BY <2>1, <2>2, <2>3, <2>4 DEF RelayInv, Meanings, OneMeaning
  <1>4. RepliesToAsker'
    BY <1>1, <1>3 DEF RelayInv, Clientside, TypeOK, Meanings, RepliesToAsker
  <1>5. QED
    BY <1>1, <1>2, <1>4, MeaningsKept, ServerQuiet DEF RelayInv, Meanings

\* What a step neither sends nor registers is not meant afterwards either.
LEMMA QuietMeans ==
    ASSUME RelayInv, UNCHANGED <<down, local, at, used>>, RepliesToAsker', LastWrite',
           \A t \in TAddrs, i \in Ids : \A v \in Askers :
               /\ InUp(t, i, v)' => InUp(t, i, v)
               /\ InTables(t, i, v)' => InTables(t, i, v)
               /\ InMain(t, i, v)' => InMain(t, i, v)
               /\ InPumps(t, i, v)' => InPumps(t, i, v)
    PROVE  Meanings'
  <1>1. \A t \in TAddrs, i \in Ids : \A v \in Askers :
            (InDown(t, i, v)' => InDown(t, i, v)) /\ (InLocal(t, i, v)' => InLocal(t, i, v))
    BY DEF InDown, InLocal
  <1>2. \A t \in TAddrs, i \in Ids : \A v \in Askers : Means(t, i, v)' => Means(t, i, v)
    BY <1>1 DEF Means
  <1>3. QED
    BY <1>2, MeaningsKept DEF RelayInv, Meanings

\* Handing an answer over, forgetting flows and keepalives name nobody.
LEMMA TransportDeliverMeans ==
    ASSUME RelayInv, NEW c \in Clients, TransportDeliver(c), UNCHANGED serverVars
    PROVE  Meanings'
  <1>1. RepliesToAsker'
    BY DEF RelayInv, Clientside, TypeOK, Meanings, RepliesToAsker, TransportDeliver
  <1>2. QED
    BY <1>1, QuietMeans, ServerQuiet, ClientSays DEF TransportDeliver, InUp, InTables, tables

LEMMA ReapMeans ==
    ASSUME RelayInv, NEW c \in Clients, Reap(c), UNCHANGED serverVars
    PROVE  Meanings'
  <1>1. \A d \in Clients, i \in Ids : byID'[d][i] = IF d = c /\ i \in Stale(c) THEN None ELSE byID[d][i]
    BY DEF RelayInv, Clientside, TypeOK, Reap, Forget
  <1>2. \A t \in TAddrs, i \in Ids : \A v \in Askers : InTables(t, i, v)' => InTables(t, i, v)
    BY <1>1 DEF InTables, Reap
  <1>3. RepliesToAsker'
    BY DEF RelayInv, Meanings, RepliesToAsker, Reap
  <1>4. QED
    BY <1>2, <1>3, QuietMeans, ServerQuiet, ClientSays DEF Reap, InUp

LEMMA PingMeans ==
    ASSUME RelayInv, NEW c \in Clients, Ping(c), UNCHANGED serverVars
    PROVE  Meanings'
  <1>1. \A t \in TAddrs, i \in Ids : \A v \in Askers : InUp(t, i, v)' => InUp(t, i, v)
    BY DEF InUp, Ping, Carry, KeepAliveFlow, Ids
  <1>2. RepliesToAsker'
    BY DEF RelayInv, Meanings, RepliesToAsker, Ping
  <1>3. QED
    BY <1>1, <1>2, QuietMeans, ServerQuiet, ClientSays DEF Ping, InTables, tables

\* A client that redials goes on with its flows under an address that nobody mentions.
LEMMA RedialMeans ==
    ASSUME RelayInv, NEW c \in Clients, Redial(c), UNCHANGED serverVars
    PROVE  Meanings'
  <1>1. PICK n \in TAddrs \ used : at' = [at EXCEPT ![c] = n] /\ used' = used \cup {n}
    BY DEF Redial
  <1>2. \A d \in Clients : at'[d] = IF d = c THEN n ELSE at[d]
    BY <1>1 DEF RelayInv, Clientside, TypeOK
  <1>3. \A d \in Clients : at[d] # n /\ at[c] \in TAddrs
    BY DEF RelayInv, Clientside, TypeOK, Meanings, Addresses
  <1>4. ASSUME NEW t \in TAddrs, NEW i \in Ids, NEW v \in Askers, Means(t, i, v)'
        PROVE  IF t = n THEN Means(at[c], i, v) ELSE Means(t, i, v)
    <2>1. CASE InTables(t, i, v)'
      BY <1>2, <1>3, <2>1 DEF InTables, Means, Redial, tables
    <2>2. CASE InLocal(t, i, v)'
      BY <1>2, <1>3, <2>2 DEF InLocal, Means, Redial
    <2>3. CASE InUp(t, i, v)' \/ InDown(t, i, v)' \/ InMain(t, i, v)' \/ InPumps(t, i, v)'
      <3>1. Means(t, i, v)
        BY <2>3, ClientSays DEF InUp, InDown, Means, Redial
      <3>2. QED
        BY <1>1, <3>1 DEF RelayInv, Meanings, Addresses
    <2>4. QED
      BY <1>4, <2>1, <2>2, <2>3 DEF Means
  <1>5. OneMeaning'
    BY <1>3, <1>4 DEF RelayInv, Meanings, OneMeaning
  <1>6. Addresses'
    BY <1>1, <1>2, <1>3, <1>4 DEF RelayInv, Meanings, Addresses
  <1>7. QED
    BY <1>5, <1>6, ServerQuiet DEF RelayInv, Meanings, RepliesToAsker, Redial

LEMMA TickMeans ==
    ASSUME RelayInv, Tick
    PROVE  Meanings'
  <1>1. RepliesToAsker' /\ LastWrite'
    BY DEF RelayInv, Meanings, RepliesToAsker, LastWrite, Tick
  <1>2. QED
    BY <1>1, QuietMeans DEF Tick, InUp, InTables, InMain, InPumps, tables

-----------------------------------------------------------------------------
(* The relay *)

\* At first nothing is said, and the clients have addresses of their own.
LEMMA InitInv == RelayInit => RelayInv
  <1> SUFFICES ASSUME Init, S!Init
               PROVE  RelayInv
    BY DEF RelayInit
  <1>1. Clientside /\ SP!IInv
    BY ClientInit, ServerInit
  <1>2. main.pc = "read" /\ \A s \in Socks : pump[s].pc = "none" /\ asked[s] = {}
    BY DEF S!Init, S!AtRead, S!NoPump
  <1>3. \A t \in TAddrs, i \in Ids : \A v \in Askers : ~Means(t, i, v)
    BY <1>2 DEF Init, Means, InUp, InDown, InMain, InPumps, InTables, InLocal, NoFlow, Ids
  <1>4. OneMeaning /\ Addresses
    BY <1>3, ConstantsAssumption DEF Init, OneMeaning, Addresses
  <1>5. LastWrite /\ RepliesToAsker
    BY <1>2 DEF Init, LastWrite, RepliesToAsker
  <1>6. QED
    BY <1>1, <1>4, <1>5 DEF RelayInv, Meanings

\* What a client adds to the datagrams up is its own; it adds nothing to those down.
LEMMA ClientStepServer ==
    ASSUME RelayInv, ClientStep, UNCHANGED serverVars
    PROVE  SP!IInv'
  <1>1. up \subseteq SP!Up /\ down \subseteq SP!Down
    BY DEF RelayInv, SP!IInv, SP!TypeOK
  <1>2. ASSUME NEW c \in Clients, LocalSend(c)
        PROVE  up' \subseteq SP!Up
    <2>1. local[c].id \in Ids /\ local[c].addr \in Addrs /\ at[c] \in TAddrs
      BY <1>2 DEF RelayInv, Clientside, TypeOK, LocalSend, NoFlow
    <2>2. [from |-> at[c], id |-> local[c].id, asker |-> <<c, local[c].addr>>] \in SP!Up
      BY <2>1 DEF SP!Up, SP!Ids, Ids, Askers
    <2>3. QED
      BY <1>1, <1>2, <2>2 DEF LocalSend, Carry
  <1>3. ASSUME NEW c \in Clients, Ping(c)
        PROVE  up' \subseteq SP!Up
    <2>1. [from |-> at[c], id |-> KeepAliveFlow, asker |-> Nobody] \in SP!Up
      BY DEF RelayInv, Clientside, TypeOK, SP!Up, SP!KeepAliveFlow, KeepAliveFlow
    <2>2. QED
      BY <1>1, <1>3, <2>1 DEF Ping, Carry
  <1>4. up' \subseteq SP!Up
    BY <1>1, <1>2, <1>3 DEF ClientStep, LocalRecv, TransportRecv, TransportDeliver, Reap, Redial
  <1>5. down' \subseteq SP!Down
    BY <1>1 DEF ClientStep, LocalRecv, LocalSend, TransportRecv, Taken, TransportDeliver, Reap, Ping, Redial
  <1>6. QED
    BY <1>4, <1>5, ServerKept DEF RelayInv

LEMMA ClientStepMeans ==
    ASSUME RelayInv, ClientStep, NoneTooSoon, UNCHANGED serverVars
    PROVE  Meanings'
  <1>1. ASSUME NEW c \in Clients, NEW a \in Addrs, LocalRecv(c, a)
        PROVE  Meanings'
    BY <1>1, OldFlowMeans, NewFlowMeans
  <1>2. QED
    BY <1>1, LocalSendMeans, TransportRecvMeans, TransportDeliverMeans, ReapMeans, PingMeans, RedialMeans DEF ClientStep

\* The invariant is inductive.
LEMMA NextInv == RelayInv /\ [RelayNext]_relayVars => RelayInv'
  <1>1. ASSUME RelayInv, UNCHANGED relayVars
        PROVE  RelayInv'
    <2>1. Clientside'
      BY <1>1 DEF RelayInv, Clientside, TypeOK, TablesAgree, relayVars, clientVars, tables
    <2>2. SP!IInv'
      BY <1>1, ServerKept DEF RelayInv, relayVars, SP!IInv, SP!TypeOK
    <2>3. RepliesToAsker' /\ LastWrite'
      BY <1>1, ServerQuiet DEF RelayInv, Meanings, RepliesToAsker, relayVars, clientVars
    <2>4. Meanings'
      BY <1>1, <2>3, QuietMeans, ClientSays DEF relayVars, clientVars, tables, InUp, InTables
    <2>5. QED
      BY <2>1, <2>2, <2>4 DEF RelayInv
  <1>2. ASSUME RelayInv, ClientStep, NoneTooSoon, UNCHANGED serverVars
        PROVE  RelayInv'
    BY <1>2, ClientStepTables, ClientStepServer, ClientStepMeans DEF RelayInv
  <1>3. ASSUME RelayInv, S!ServerStep, UNCHANGED clientVars
        PROVE  RelayInv'
    <2>1. Clientside'
      BY <1>3 DEF RelayInv, Clientside, TypeOK, TablesAgree, clientVars, tables
    <2>2. QED
      BY <1>3, <2>1, ServerStepKeeps, ServerStepMeans DEF RelayInv
  <1>4. ASSUME RelayInv, Tick
        PROVE  RelayInv'
    BY <1>4, TickTables, ServerTickKeeps, TickMeans DEF RelayInv
  <1>5. QED
    BY <1>1, <1>2, <1>3, <1>4 DEF RelayNext

\* The inductive invariant holds in every state of the relay.
THEOREM RelayInductive == RelaySpec => []RelayInv
  <1>1. QED
    BY InitInv, NextInv, PTL DEF RelaySpec

\* For any clients, sockets and ids the two tables of each client are each other's
\* inverse, at every step of localLoop, transportLoop and maintain.
THEOREM TablesCorrect == RelaySpec => []TablesInv
  <1>1. RelayInv => TablesInv
    BY DEF RelayInv, Clientside, TablesInv
  <1>2. QED
    BY <1>1, RelayInductive, PTL

\* For any clients, sockets and ids an answer reaches the socket of ss-local that asked,
\* although both sides forget flows and reuse ids, transports are replaced, and datagrams
\* are lost, repeated and late.
THEOREM AnswersReachAskers == RelaySpec => []RepliesToAsker
  <1>1. RelayInv => RepliesToAsker
    BY DEF RelayInv, Meanings
  <1>2. QED
    BY <1>1, RelayInductive, PTL

\* A set all of whose elements are equal has one at most.
LEMMA OneAtMost ==
    ASSUME NEW T, \A v, w \in T : v = w
    PROVE  Cardinality(T) <= 1
  <1>1. CASE T = {}
    BY <1>1, FS_EmptySet
  <1>2. ASSUME NEW v \in T
        PROVE  Cardinality(T) <= 1
    <2>1. T = {v}
      BY <1>2
    <2>2. QED
      BY <2>1, FS_Singleton
  <1>3. QED
    BY <1>1, <1>2

\* For any clients, sockets and ids the server writes what one asker sent to a socket
\* towards the target, and nothing else before that socket has a new flow.
THEOREM SocketsNotShared == RelaySpec => []OneAskerPerSocket
  <1>1. RelayInv => OneAskerPerSocket
    <2> SUFFICES ASSUME RelayInv, NEW s \in Socks, NEW v \in asked[s], NEW w \in asked[s]
                 PROVE  v = w
      BY OneAtMost DEF OneAskerPerSocket
    <2>1. CASE pump[s].pc = "none"
      BY <2>1 DEF RelayInv, Meanings, LastWrite
    <2>2. CASE pump[s].pc # "none"
      <3>1. PICK t \in TAddrs, i \in Ids : sock[s].key = <<t, i>>
        BY ServerTyped DEF RelayInv
      <3>2. v \in Askers /\ w \in Askers
        BY ServerTyped DEF RelayInv
      <3>3. Means(t, i, v) /\ Means(t, i, w)
        BY <2>2, <3>1 DEF Means, InPumps
      <3>4. QED
        BY <3>2, <3>3 DEF RelayInv, Meanings, OneMeaning
    <2>3. QED
      BY <2>1, <2>2
  <1>2. QED
    BY <1>1, RelayInductive, PTL

-----------------------------------------------------------------------------
(* The client's transport, UdptunTransport.  Any number of transports and any interval *)
(* of keepalives: a watchdog only drops a transport that was silent itself, after two   *)
(* pings, if the interval is of three seconds or more.  The watchdogs look at one age for all transports; the invariant says why it  *)
(* is no more than the age of the transport that is held, and how many pings such an    *)
(* age stands for.                                                                      *)

\* What supervise holds is what is handed out, until it dials again; a watchdog of a
\* transport that is not closed watches that one.
Holding ==
    /\ conn = supervisor.conn
    /\ \A g \in Conns : watchdog[g] # "off" /\ g \notin closed => supervisor = [pc |-> "loop", conn |-> g]

\* The age the watchdogs look at started with the transport, or later.
OwnSilence ==
    supervisor.pc \in {"received", "loop"} /\ ~die => lastRecv <= quiet[conn]

\* maintain pings every KeepAlive seconds or one later, and at its first tick.
PingsInTime ==
    /\ tick = "ended" => die
    /\ ~die => \/ lastPing <= (IF tick = "fired" THEN KeepAlive + 1 ELSE KeepAlive)
               \/ supervisor.pc \in {"received", "loop"} => lastRecv <= (IF tick = "fired" THEN 1 ELSE 0)

\* So many seconds of silence, so many pings.
PingsCounted ==
    supervisor.pc \in {"received", "loop"} /\ ~die =>
        /\ pings[conn] = 0 => lastRecv <= lastPing
        /\ pings[conn] = 1 => lastRecv <= KeepAlive + 1 + lastPing

TransportInv == TransportTypeOK /\ Holding /\ OwnSilence /\ PingsInTime /\ PingsCounted

-----------------------------------------------------------------------------
USE DEF NoConn, Dead, Seconds

LEMMA TransportStarts ==
    TransportInit => TransportInv
  <1> SUFFICES ASSUME TransportInit
               PROVE  TransportInv
    OBVIOUS
  <1>1. TransportTypeOK
    <2>1. pong \in BOOLEAN /\ die \in BOOLEAN
      BY DEF TransportInit
    <2>2. /\ supervisor \in [pc : {"dial", "dialled", "received", "loop", "lost", "ended"}, conn : Conns \cup {NoConn}]
          /\ supervisor.pc = "dial" /\ supervisor.conn = NoConn
      BY DEF TransportInit, AtDial
    <2>3. Dead + 1 \in Seconds /\ 0 \in Seconds /\ 0 \in 0..PingCap
      BY TransportAssumption
    <2>4. QED
      BY <2>1, <2>2, <2>3 DEF TransportInit, TransportTypeOK
  <1>2. Holding /\ OwnSilence /\ PingsInTime /\ PingsCounted
    BY DEF TransportInit, AtDial, Holding, OwnSilence, PingsInTime, PingsCounted
  <1>3. QED
    BY <1>1, <1>2 DEF TransportInv

\* A free transport has no watchdog.
LEMMA DialStep ==
    ASSUME TransportInv, Dial
    PROVE  TransportInv'
  <1>1. TransportTypeOK'
    <2>1. /\ conn' \in Conns /\ supervisor'.pc = "dialled"
          /\ supervisor' \in [pc : {"dial", "dialled", "received", "loop", "lost", "ended"}, conn : Conns \cup {NoConn}]
          /\ supervisor'.conn # NoConn
      BY TransportAssumption DEF Dial
    <2>2. /\ closed' \subseteq Conns /\ broken' \subseteq Conns
          /\ quiet' \in [Conns -> Seconds] /\ pings' \in [Conns -> 0..PingCap]
      BY TransportAssumption DEF TransportInv, TransportTypeOK, Dial
    <2>3. pong' \in BOOLEAN /\ die' \in BOOLEAN
      BY DEF TransportInv, TransportTypeOK, Dial
    <2>4. QED
      BY <2>1, <2>2, <2>3 DEF TransportInv, TransportTypeOK, Dial
  <1>2. Holding'
    BY DEF TransportInv, Holding, Dial, Free
  <1>3. OwnSilence'
    BY DEF OwnSilence, Dial
  <1>4. PingsInTime' /\ PingsCounted'
    BY DEF TransportInv, PingsInTime, PingsCounted, Dial
  <1>5. QED
    BY <1>1, <1>2, <1>3, <1>4 DEF TransportInv

\* Nothing was handed out.
LEMMA DialFailsStep ==
    ASSUME TransportInv, DialFails
    PROVE  TransportInv'
  <1>1. TransportTypeOK'
    BY DEF TransportInv, TransportTypeOK, DialFails
  <1>2. Holding'
    BY DEF TransportInv, TransportTypeOK, Holding, DialFails
  <1>3. OwnSilence'
    BY DEF OwnSilence, DialFails
  <1>4. PingsInTime' /\ PingsCounted'
    BY DEF PingsInTime, PingsCounted, DialFails
  <1>5. QED
    BY <1>1, <1>2, <1>3, <1>4 DEF TransportInv

\* The silence starts anew, no later than the transport's own.
LEMMA DialledStep ==
    ASSUME TransportInv, Dialled
    PROVE  TransportInv'
  <1>1. TransportTypeOK'
    BY TransportAssumption DEF TransportInv, TransportTypeOK, Dialled
  <1>2. Holding'
    BY DEF TransportInv, Holding, Dialled
  <1>3. OwnSilence'
    BY DEF TransportInv, TransportTypeOK, Holding, OwnSilence, Dialled
  <1>4. PingsInTime' /\ PingsCounted'
    BY TransportAssumption DEF TransportInv, TransportTypeOK, PingsInTime, PingsCounted, Dialled
  <1>5. QED
    BY <1>1, <1>2, <1>3, <1>4 DEF TransportInv

\* The watchdog watches what supervise holds.
LEMMA StartWatchdogStep ==
    ASSUME TransportInv, StartWatchdog
    PROVE  TransportInv'
  <1>1. TransportTypeOK'
    BY DEF TransportInv, TransportTypeOK, StartWatchdog
  <1>2. Holding'
    BY DEF TransportInv, TransportTypeOK, Holding, StartWatchdog
  <1>3. OwnSilence'
    BY DEF TransportInv, OwnSilence, StartWatchdog
  <1>4. PingsInTime' /\ PingsCounted'
    BY DEF TransportInv, PingsInTime, PingsCounted, StartWatchdog
  <1>5. QED
    BY <1>1, <1>2, <1>3, <1>4 DEF TransportInv

\* Both kinds of silence are broken at once.
LEMMA ReceiveStep ==
    ASSUME TransportInv, Receive
    PROVE  TransportInv'
  <1>1. TransportTypeOK'
    <2>1. lastRecv' \in Seconds /\ quiet' \in [Conns -> Seconds] /\ pings' \in [Conns -> 0..PingCap]
      BY TransportAssumption DEF TransportInv, TransportTypeOK, Receive
    <2>2. QED
      BY <2>1 DEF TransportInv, TransportTypeOK, Receive
  <1>2. Holding'
    BY DEF TransportInv, Holding, Receive
  <1>3. OwnSilence'
    BY DEF TransportInv, TransportTypeOK, Holding, OwnSilence, Receive
  <1>4. PingsInTime' /\ PingsCounted'
    BY TransportAssumption DEF TransportInv, TransportTypeOK, PingsInTime, PingsCounted, Receive
  <1>5. QED
    BY <1>1, <1>2, <1>3, <1>4 DEF TransportInv

\* What is given up is closed.
LEMMA LoopEndsStep ==
    ASSUME TransportInv, LoopEnds
    PROVE  TransportInv'
  <1>1. TransportTypeOK'
    BY DEF TransportInv, TransportTypeOK, LoopEnds
  <1>2. Holding'
    BY DEF TransportInv, Holding, LoopEnds
  <1>3. OwnSilence'
    BY DEF OwnSilence, LoopEnds
  <1>4. PingsInTime' /\ PingsCounted'
    BY DEF TransportInv, PingsInTime, PingsCounted, LoopEnds
  <1>5. QED
    BY <1>1, <1>2, <1>3, <1>4 DEF TransportInv

\* Nothing is handed out while supervise dials.
LEMMA WithdrawStep ==
    ASSUME TransportInv, Withdraw
    PROVE  TransportInv'
  <1>1. TransportTypeOK'
    <2>1. 0 \in Seconds /\ 0 \in 0..PingCap
      BY TransportAssumption
    <2>2. quiet' \in [Conns -> Seconds] /\ pings' \in [Conns -> 0..PingCap]
      BY <2>1 DEF TransportInv, TransportTypeOK, Withdraw
    <2>3. /\ supervisor'.pc \in {"dial", "ended"} /\ supervisor'.conn = NoConn
          /\ supervisor' \in [pc : {"dial", "dialled", "received", "loop", "lost", "ended"}, conn : Conns \cup {NoConn}]
      BY DEF Withdraw
    <2>4. QED
      BY <2>2, <2>3 DEF TransportInv, TransportTypeOK, Withdraw
  <1>2. Holding'
    BY DEF TransportInv, Holding, Withdraw
  <1>3. OwnSilence'
    BY DEF OwnSilence, Withdraw
  <1>4. PingsInTime' /\ PingsCounted'
    BY DEF TransportInv, PingsInTime, PingsCounted, Withdraw
  <1>5. QED
    BY <1>1, <1>2, <1>3, <1>4 DEF TransportInv

\* A watchdog that has looked has decided nothing.
LEMMA WatchdogLooksStep ==
    ASSUME TransportInv, NEW g \in Conns, WatchdogLooks(g)
    PROVE  TransportInv'
  <1>1. TransportTypeOK'
    BY DEF TransportInv, TransportTypeOK, WatchdogLooks
  <1>2. Holding'
    BY DEF TransportInv, Holding, WatchdogLooks
  <1>3. OwnSilence'
    BY DEF TransportInv, OwnSilence, WatchdogLooks
  <1>4. PingsInTime' /\ PingsCounted'
    BY DEF TransportInv, PingsInTime, PingsCounted, WatchdogLooks
  <1>5. QED
    BY <1>1, <1>2, <1>3, <1>4 DEF TransportInv

\* A watchdog may end.
LEMMA WatchdogEndsStep ==
    ASSUME TransportInv, NEW g \in Conns, WatchdogEnds(g)
    PROVE  TransportInv'
  <1>1. TransportTypeOK'
    BY DEF TransportInv, TransportTypeOK, WatchdogEnds
  <1>2. Holding'
    BY DEF TransportInv, Holding, WatchdogEnds
  <1>3. OwnSilence'
    BY DEF OwnSilence, WatchdogEnds
  <1>4. PingsInTime' /\ PingsCounted'
    BY DEF PingsInTime, PingsCounted, WatchdogEnds
  <1>5. QED
    BY <1>1, <1>2, <1>3, <1>4 DEF TransportInv

\* Whatever it decides, a watchdog that is left watches on.
LEMMA WatchdogDecidesStep ==
    ASSUME TransportInv, NEW g \in Conns, WatchdogDecides(g)
    PROVE  TransportInv'
  <1>1. TransportTypeOK'
    BY DEF TransportInv, TransportTypeOK, WatchdogDecides, Drop, KeepOn
  <1>2. Holding'
    BY DEF TransportInv, TransportTypeOK, Holding, WatchdogDecides, Drop, KeepOn
  <1>3. OwnSilence'
    BY DEF TransportInv, OwnSilence, WatchdogDecides, Drop, KeepOn
  <1>4. PingsInTime' /\ PingsCounted'
    BY DEF TransportInv, PingsInTime, PingsCounted, WatchdogDecides, Drop, KeepOn
  <1>5. QED
    BY <1>1, <1>2, <1>3, <1>4 DEF TransportInv

\* A ping makes up for the seconds since the last.
LEMMA MaintainStep ==
    ASSUME TransportInv, Maintain
    PROVE  TransportInv'
  <1>1. TransportTypeOK'
    <2>1. pings' \in [Conns -> 0..PingCap] /\ lastPing' \in Seconds /\ tick' \in {"waiting", "fired", "ended"}
      BY TransportAssumption DEF TransportInv, TransportTypeOK, Maintain, PingDue, NoPing
    <2>2. pong' \in BOOLEAN
      BY DEF TransportInv, TransportTypeOK, Maintain, PingDue, NoPing
    <2>3. QED
      BY <2>1, <2>2 DEF TransportInv, TransportTypeOK, Maintain, PingDue, NoPing
  <1>2. Holding'
    BY DEF TransportInv, Holding, Maintain, PingDue, NoPing
  <1>3. OwnSilence'
    BY DEF TransportInv, OwnSilence, Maintain, PingDue, NoPing
  <1>4. PingsInTime' /\ PingsCounted'
    BY TransportAssumption DEF TransportInv, TransportTypeOK, Holding, PingsInTime, PingsCounted, Maintain, PingDue, NoPing
  <1>5. QED
    BY <1>1, <1>2, <1>3, <1>4 DEF TransportInv

\* Without maintain, the client is over.
LEMMA MaintainEndsStep ==
    ASSUME TransportInv, MaintainEnds
    PROVE  TransportInv'
  <1>1. TransportTypeOK'
    BY DEF TransportInv, TransportTypeOK, MaintainEnds
  <1>2. Holding'
    BY DEF TransportInv, Holding, MaintainEnds
  <1>3. OwnSilence'
    BY DEF OwnSilence, MaintainEnds
  <1>4. PingsInTime' /\ PingsCounted'
    BY DEF PingsInTime, PingsCounted, MaintainEnds
  <1>5. QED
    BY <1>1, <1>2, <1>3, <1>4 DEF TransportInv

\* The client is over.
LEMMA LocalFailsStep ==
    ASSUME TransportInv, LocalFails
    PROVE  TransportInv'
  <1>1. TransportTypeOK'
    BY TransportAssumption DEF TransportInv, TransportTypeOK, LocalFails
  <1>2. Holding'
    BY DEF TransportInv, Holding, LocalFails
  <1>3. OwnSilence'
    BY DEF OwnSilence, LocalFails
  <1>4. PingsInTime' /\ PingsCounted'
    BY DEF PingsInTime, PingsCounted, LocalFails
  <1>5. QED
    BY <1>1, <1>2, <1>3, <1>4 DEF TransportInv

\* A second passes for all ages alike.
LEMMA SecondStep ==
    ASSUME TransportInv, Second
    PROVE  TransportInv'
  <1>1. TransportTypeOK'
    BY TransportAssumption DEF TransportInv, TransportTypeOK, Second, Later
  <1>2. Holding'
    BY DEF TransportInv, Holding, Second
  <1>3. OwnSilence'
    BY DEF TransportInv, TransportTypeOK, Holding, OwnSilence, Second, Later
  <1>4. PingsInTime' /\ PingsCounted'
    BY TransportAssumption DEF TransportInv, TransportTypeOK, PingsInTime, PingsCounted, Second, Later
  <1>5. QED
    BY <1>1, <1>2, <1>3, <1>4 DEF TransportInv

\* The far end has no part in it.
LEMMA BreakStep ==
    ASSUME TransportInv, Break
    PROVE  TransportInv'
  <1>1. TransportTypeOK'
    BY DEF TransportInv, TransportTypeOK, Break
  <1>2. Holding'
    BY DEF TransportInv, Holding, Break
  <1>3. OwnSilence'
    BY DEF TransportInv, OwnSilence, Break
  <1>4. PingsInTime' /\ PingsCounted'
    BY DEF TransportInv, PingsInTime, PingsCounted, Break
  <1>5. QED
    BY <1>1, <1>2, <1>3, <1>4 DEF TransportInv

LEMMA TransportNext ==
    TransportInv /\ [Next]_vars => TransportInv'
  <1>1. ASSUME TransportInv, UNCHANGED vars
        PROVE  TransportInv'
    BY <1>1 DEF vars, TransportInv, TransportTypeOK, Holding, OwnSilence, PingsInTime, PingsCounted
  <1>2. QED
    BY <1>1, DialStep, DialFailsStep, DialledStep, StartWatchdogStep, ReceiveStep, LoopEndsStep, WithdrawStep, WatchdogLooksStep, WatchdogDecidesStep, WatchdogEndsStep, MaintainStep, MaintainEndsStep, LocalFailsStep, SecondStep, BreakStep
       DEF Next

\* The inductive invariant holds in every state of the client.
THEOREM TransportInductive ==
    Spec => []TransportInv
  <1>1. QED
    BY TransportStarts, TransportNext, PTL DEF Spec

\* For any transports and any interval, supervise hands nothing out while it dials.
THEOREM NothingHandedOut ==
    Spec => []WatchInv
  <1>1. TransportInv => WatchInv
    BY DEF TransportInv, TransportTypeOK, Holding, WatchInv, NoneHandedOut
  <1>2. QED
    BY <1>1, TransportInductive, PTL

\* Only a watchdog that has looked and found silence drops a transport.
LEMMA OneWayToDrop ==
    ASSUME TransportTypeOK, Next, NEW g \in Conns, DropsBy(g)
    PROVE  MayBeDead
  <1>1. WatchdogDecides(g)
    BY DEF TransportTypeOK, DropsBy, Next, Dial, DialFails, Dialled, StartWatchdog, Receive, LoopEnds,
           Withdraw, WatchdogLooks, WatchdogDecides, Drop, KeepOn, WatchdogEnds, Maintain,
           PingDue, NoPing, MaintainEnds,
           LocalFails, Second, Break
  <1>2. QED
    BY <1>1 DEF TransportTypeOK, DropsBy, WatchdogDecides, Drop, KeepOn

\* For any transports and any interval, a watchdog drops a transport only if it was itself
\* silent for three intervals, with two pings or more unanswered (one, if the interval is of
\* one or two seconds).
THEOREM DropsRight ==
    Spec => DroppedForItsSilence
  <1>1. ASSUME TransportInv, [Next]_vars, NEW g \in Conns, DropsBy(g), ~die
        PROVE  quiet[g] >= Dead /\ pings[g] >= Heartbeats
    <2>1. Next
      BY <1>1 DEF vars, DropsBy
    <2>2. lastRecv >= Dead
      BY <1>1, <2>1, OneWayToDrop DEF TransportInv, MayBeDead
    <2>3. conn = g /\ supervisor.pc = "loop"
      BY <1>1 DEF TransportInv, Holding, DropsBy
    <2>4. lastRecv \in Nat /\ lastPing \in Nat /\ quiet[g] \in Nat /\ pings[g] \in Nat
      BY <1>1, TransportAssumption DEF TransportInv, TransportTypeOK
    <2>5. quiet[g] >= Dead
      BY <1>1, <2>2, <2>3, <2>4, TransportAssumption DEF TransportInv, OwnSilence
    <2>6. lastPing <= KeepAlive + 1
      BY <1>1, <2>2, <2>3, <2>4, TransportAssumption DEF TransportInv, PingsInTime
    <2>7. pings[g] >= Heartbeats
      BY <1>1, <2>2, <2>3, <2>4, <2>6, TransportAssumption DEF TransportInv, PingsCounted, Heartbeats
    <2>8. QED
      BY <2>5, <2>7
  <1>2. TransportInv /\ [Next]_vars => [\A g \in Conns : DropsBy(g) /\ ~die => quiet[g] >= Dead /\ pings[g] >= Heartbeats]_vars
    BY <1>1
  <1>3. QED
    BY <1>2, TransportInductive, PTL DEF Spec, DroppedForItsSilence

=============================================================================
