---------------------------- MODULE StreamProofs ----------------------------
(***************************************************************************)
(* Proofs about ClientMux and Tunnel, the client's sessions and the        *)
(* connections that go through them.  ClientMux: for any number of slots,  *)
(* connections and sessions no open session is forgotten, and the          *)
(* scavenger closes none that is dealt out.  Both hang on the moment       *)
(* between a session's way to the scavenger and its replacement in the     *)
(* slot.  Tunnel has variables of its own and is proved about separately.  *)
(***************************************************************************)
EXTENDS ClientMux, Tunnel, SequenceTheorems, TLAPS

\* No two slots share a session, and slots have sessions that were made.
OwnSession ==
    /\ \A k \in Slots : muxes[k].session <= made
    /\ \A j, k \in Slots : muxes[j].session = muxes[k].session => j = k

\* The main goroutine has a connection to deal out, and what it replaces is the
\* scavenger's or closed.
Replacing ==
    /\ main # "accept" => p1 \in Conns
    /\ main = "wait" => muxes[idx].session \in Retired \cup closed

IInv == TypeOK /\ OpenTracked /\ SlotsNotRetired /\ OwnSession /\ Replacing

-----------------------------------------------------------------------------
(* Numbers and the channel *)

LEMMA SlotOfRR == TypeOK => idx \in Slots
  BY ConstantsAssumption DEF TypeOK, Slots, idx

LEMMA MinOfTwo ==
    ASSUME NEW a \in Int, NEW b \in Int
    PROVE  Min({a, b}) = IF a <= b THEN a ELSE b
  BY DEF Min

\* What is put into the channel, and what is taken out.
LEMMA Sending ==
    ASSUME TypeOK, NEW s \in 1..made
    PROVE  LET c == Append(chScavenger, s)
           IN  /\ c \in Seq(1..made) /\ Len(c) = Len(chScavenger) + 1
               /\ {c[i] : i \in DOMAIN c} = OnTheirWay \cup {s}
  <1>1. chScavenger \in Seq(1..made)
    BY DEF TypeOK
  <1>2. QED
    BY <1>1, AppendProperties, LenProperties DEF OnTheirWay

LEMMA Taking ==
    ASSUME TypeOK, chScavenger # <<>>
    PROVE  LET c == Tail(chScavenger)
           IN  /\ c \in Seq(1..made) /\ Len(c) <= Len(chScavenger) /\ Head(chScavenger) \in 1..made
               /\ {c[i] : i \in DOMAIN c} \cup {Head(chScavenger)} = OnTheirWay
  <1> DEFINE n == Len(chScavenger)
             c == Tail(chScavenger)
  <1>1. chScavenger \in Seq(1..made)
    BY DEF TypeOK
  <1>2. /\ n \in Nat \ {0} /\ DOMAIN chScavenger = 1..n
        /\ \A i \in 1..n : chScavenger[i] \in 1..made
    BY <1>1, LenProperties, EmptySeq
  <1>3. Head(chScavenger) = chScavenger[1]
    BY <1>1, <1>2
  <1>4. c \in Seq(1..made) /\ Len(c) = n - 1 /\ \A i \in 1..Len(c) : c[i] = chScavenger[i + 1]
    BY <1>1, HeadTailProperties
  <1>5. DOMAIN c = 1..(n - 1)
    BY <1>2, <1>4, LenProperties
  <1>6. \A i \in 2..n : i - 1 \in DOMAIN c /\ c[i - 1] = chScavenger[i]
    BY <1>2, <1>4, <1>5
  <1>7. {c[i] : i \in DOMAIN c} \cup {chScavenger[1]} = OnTheirWay
    <2>1. ASSUME NEW s \in OnTheirWay
          PROVE  s \in {c[i] : i \in DOMAIN c} \cup {chScavenger[1]}
      <3>1. PICK i \in 1..n : s = chScavenger[i]
        BY <1>2 DEF OnTheirWay
      <3>2. i = 1 \/ i \in 2..n
        BY <1>2
      <3>3. QED
        BY <1>6, <3>1, <3>2
    <2>2. \A i \in DOMAIN c : c[i] = chScavenger[i + 1] /\ i + 1 \in 1..n
      BY <1>2, <1>4, <1>5
    <2>3. 1 \in 1..n
      BY <1>2
    <2>4. ASSUME NEW s \in {c[i] : i \in DOMAIN c} \cup {chScavenger[1]}
          PROVE  s \in OnTheirWay
      <3>1. \E i \in 1..n : s = chScavenger[i]
        BY <2>2, <2>3, <2>4
      <3>2. QED
        BY <1>2, <3>1 DEF OnTheirWay
    <2>5. QED
      BY <2>1, <2>4
  <1>8. QED
    BY <1>2, <1>3, <1>4, <1>7

\* The lists of the scavenger, typed.
LEMMA RetiredMade == TypeOK => Retired \subseteq 1..made
  <1> SUFFICES ASSUME TypeOK
               PROVE  Retired \subseteq 1..made
    OBVIOUS
  <1>1. chScavenger \in Seq(1..made)
    BY DEF TypeOK
  <1>2. \A i \in DOMAIN chScavenger : chScavenger[i] \in 1..made
    BY <1>1, LenProperties
  <1>3. QED
    BY <1>2 DEF TypeOK, Retired, OnTheirWay

-----------------------------------------------------------------------------
(* Where sessions are *)

\* What moves on inside the scavenger, or ages, or is closed, is where it was.
LEMMA SameSlots ==
    ASSUME IInv, UNCHANGED <<made, rr, main, p1>>, \A k \in Slots : muxes'[k].session = muxes[k].session,
           Retired' \subseteq Retired, closed \subseteq closed', Retired \ Retired' \subseteq closed'
    PROVE  OpenTracked' /\ SlotsNotRetired' /\ OwnSession' /\ Replacing'
  <1>1. idx' = idx /\ idx \in Slots
    BY SlotOfRR DEF IInv, idx
  <1>2. SlotSessions' = SlotSessions
    BY DEF SlotSessions
  <1>3. OpenTracked'
    BY <1>2 DEF IInv, OpenTracked
  <1>4. SlotsNotRetired' /\ OwnSession'
    BY <1>1 DEF IInv, SlotsNotRetired, OwnSession
  <1>5. Replacing'
    BY <1>1 DEF IInv, Replacing
  <1>6. QED
    BY <1>3, <1>4, <1>5

-----------------------------------------------------------------------------
(* A lemma for every action. *)

LEMMA InitInv == Init => IInv
  <1> SUFFICES ASSUME Init
               PROVE  IInv
    OBVIOUS
  <1>1. TypeOK
    <2>1. muxes \in [Slots -> [session : Ids, age : 0..(AutoExpire + 1)]]
      BY ConstantsAssumption DEF Init, Slots, Ids
    <2>2. made \in Ids /\ rr \in 0..(RRSpace - 1)
      BY ConstantsAssumption DEF Init, Ids
    <2>3. given \in [Conns -> 0..made] /\ chScavenger \in Seq(1..made) /\ Len(chScavenger) <= Cap
      BY <2>2, ConstantsAssumption DEF Init, Ids
    <2>4. QED
      BY <2>1, <2>2, <2>3 DEF Init, TypeOK
  <1>2. Retired = {}
    BY DEF Init, Retired, OnTheirWay
  <1>3. \A k \in Slots : muxes[k].session = k + 1
    BY DEF Init
  <1>4. SlotSessions = 1..numconn
    BY <1>3, ConstantsAssumption DEF SlotSessions, Slots
  <1>5. QED
    BY <1>1, <1>2, <1>3, <1>4, ConstantsAssumption DEF Init, IInv, OpenTracked, SlotsNotRetired, OwnSession, Replacing, Slots

\* The main goroutine takes a connection on.
LEMMA AcceptStep ==
    ASSUME IInv, NEW c \in Conns, Accept(c)
    PROVE  IInv'
  <1>1. TypeOK'
    BY ConstantsAssumption DEF IInv, TypeOK, Accept
  <1>2. OpenTracked'
    BY DEF IInv, TypeOK, OpenTracked, SlotSessions, Retired, OnTheirWay, Accept
  <1>3. SlotsNotRetired' /\ OwnSession' /\ Replacing'
    BY SlotOfRR DEF IInv, SlotsNotRetired, OwnSession, Replacing, Retired, OnTheirWay, idx, Accept
  <1>4. QED
    BY <1>1, <1>2, <1>3 DEF IInv

\* What is retired is the scavenger's from here on, and the main goroutine replaces it next.
LEMMA CheckStep ==
    ASSUME IInv, Check
    PROVE  IInv'
  <1>1. TypeOK'
    <2>1. muxes[idx].session \in 1..made
      BY SlotOfRR DEF IInv, TypeOK, OwnSession, Ids
    <2>2. chScavenger' \in Seq(1..made) /\ Len(chScavenger') <= Cap
      <3>1. CASE Expired(idx)
        <4>1. Len(chScavenger) \in Nat /\ Len(chScavenger) < Cap
          BY <3>1 DEF IInv, TypeOK, Check
        <4>2. chScavenger \in Seq(1..made) /\ chScavenger' = Append(chScavenger, muxes[idx].session)
          BY <3>1 DEF IInv, TypeOK, Check
        <4>3. chScavenger' \in Seq(1..made) /\ Len(chScavenger') = Len(chScavenger) + 1
          BY <2>1, <4>2, Sending
        <4>4. QED
          BY <4>1, <4>3, ConstantsAssumption
      <3>2. CASE ~Expired(idx)
        BY <3>2 DEF IInv, TypeOK, Check
      <3>3. QED
        BY <3>1, <3>2
    <2>3. QED
      BY <2>2 DEF IInv, TypeOK, Check, AfterRetire
  <1>0. idx' = idx /\ idx \in Slots
    BY SlotOfRR DEF IInv, idx, Check
  <1>2. muxes[idx].session \in 1..made
    BY <1>0 DEF IInv, TypeOK, OwnSession, Ids
  <1>3. Retired' = IF Expired(idx) THEN Retired \cup {muxes[idx].session} ELSE Retired
    BY <1>2, Sending DEF IInv, Retired, OnTheirWay, Check
  <1>4. OpenTracked'
    BY <1>3 DEF IInv, OpenTracked, SlotSessions, Check
  <1>5. SlotsNotRetired' /\ OwnSession'
    BY <1>0, <1>3 DEF IInv, SlotsNotRetired, OwnSession, Check, AfterRetire
  <1>6. Replacing'
    BY <1>0, <1>3 DEF IInv, Replacing, Check, AfterRetire
  <1>7. QED
    BY <1>1, <1>4, <1>5, <1>6 DEF IInv

\* What a slot loses is the scavenger's, what it gets is new.
LEMMA ConnectStep ==
    ASSUME IInv, Connect
    PROVE  IInv'
  <1>1. TypeOK'
    <2>1. made' = made + 1 /\ made' \in Ids
      BY ConstantsAssumption DEF IInv, TypeOK, Connect, Ids
    <2>2. muxes' \in [Slots -> [session : Ids, age : 0..(AutoExpire + 1)]]
      BY <2>1, SlotOfRR, ConstantsAssumption DEF IInv, TypeOK, Connect
    <2>3. 1..made \subseteq 1..made' /\ 0..made \subseteq 0..made'
      BY <2>1, ConstantsAssumption DEF IInv, TypeOK, Ids
    <2>4. chScavenger \in Seq(1..made')
      <3>1. chScavenger \in Seq(1..made)
        BY DEF IInv, TypeOK
      <3> DEFINE n == Len(chScavenger)
      <3>2. n \in Nat /\ chScavenger \in [1..n -> 1..made]
        BY <3>1, LenProperties
      <3>3. chScavenger \in [1..n -> 1..made']
        BY <2>3, <3>2
      <3>4. chScavenger \in Seq(1..made')
        BY <3>2, <3>3, SeqDef
      <3>5. QED
        BY <3>4
    <2>5. given' \in [Conns -> 0..made'] /\ sessionList' \subseteq [session : 1..made', age : Nat] /\ closed' \subseteq 1..made'
      BY <2>3 DEF IInv, TypeOK, Connect
    <2>6. QED
      BY <2>1, <2>2, <2>4, <2>5 DEF IInv, TypeOK, Connect
  <1>0. idx' = idx /\ idx \in Slots
    BY SlotOfRR DEF IInv, idx, Connect
  <1>2. /\ \A k \in Slots : muxes'[k].session = IF k = idx THEN made + 1 ELSE muxes[k].session
        /\ made' = made + 1 /\ made \in Nat
    BY <1>0 DEF IInv, TypeOK, Connect, Ids
  <1>3. Retired' = Retired /\ Retired \subseteq 1..made
    BY RetiredMade DEF IInv, Retired, OnTheirWay, Connect
  <1>4. OpenTracked'
    <2>1. ASSUME NEW s \in (1..made') \ closed'
          PROVE  s \in SlotSessions' \cup Retired'
      <3>1. CASE s = made + 1
        BY <1>0, <1>2, <3>1 DEF SlotSessions
      <3>2. CASE s \in 1..made
        <4>1. s \in SlotSessions \cup Retired
          BY <2>1, <3>2 DEF IInv, OpenTracked, Connect
        <4>2. s = muxes[idx].session => s \in Retired
          BY <2>1 DEF IInv, Replacing, Connect
        <4>3. \A k \in Slots \ {idx} : muxes[k].session \in SlotSessions'
          BY <1>2 DEF SlotSessions
        <4>4. QED
          BY <1>3, <4>1, <4>2, <4>3 DEF SlotSessions
      <3>3. QED
        BY <1>2, <2>1, <3>1, <3>2
    <2>2. QED
      BY <2>1 DEF OpenTracked
  <1>5. SlotsNotRetired' /\ OwnSession'
    <2>1. \A k \in Slots \ {idx} : muxes[k].session \notin Retired
      BY DEF IInv, SlotsNotRetired
    <2>2. made + 1 \notin Retired /\ \A k \in Slots : muxes[k].session # made + 1
      BY <1>2, <1>3 DEF IInv, TypeOK, OwnSession, Ids
    <2>3. SlotsNotRetired'
      BY <1>2, <1>3, <2>1, <2>2 DEF SlotsNotRetired
    <2>4. \A k \in Slots : muxes'[k].session <= made'
      BY <1>2 DEF IInv, TypeOK, OwnSession, Ids
    <2>5. OwnSession'
      BY <1>2, <2>2, <2>4 DEF IInv, OwnSession
    <2>6. QED
      BY <2>3, <2>5
  <1>6. Replacing'
    BY DEF IInv, Replacing, Connect
  <1>7. QED
    BY <1>1, <1>4, <1>5, <1>6 DEF IInv

\* The slot that is dealt out next has been replaced if it had to be.
LEMMA SpawnStep ==
    ASSUME IInv, Spawn
    PROVE  IInv'
  <1>1. TypeOK'
    <2>1. muxes[idx].session \in 0..made
      BY SlotOfRR, ConstantsAssumption DEF IInv, TypeOK, OwnSession, Ids
    <2>2. NextRR(rr) \in 0..(RRSpace - 1)
      BY ConstantsAssumption DEF IInv, TypeOK, NextRR
    <2>3. QED
      BY <2>1, <2>2 DEF IInv, TypeOK, Replacing, Spawn
  <1>2. OpenTracked'
    BY DEF IInv, TypeOK, OpenTracked, SlotSessions, Retired, OnTheirWay, Spawn
  <1>3. SlotsNotRetired' /\ OwnSession' /\ Replacing'
    BY SlotOfRR DEF IInv, SlotsNotRetired, OwnSession, Replacing, Retired, OnTheirWay, idx, Spawn
  <1>4. QED
    BY <1>1, <1>2, <1>3 DEF IInv

\* Streams leave slots and lists alone.
LEMMA OpenStreamStep ==
    ASSUME IInv, NEW c \in Conns, OpenStream(c)
    PROVE  IInv'
  <1>1. TypeOK'
    BY ConstantsAssumption DEF IInv, TypeOK, OpenStream
  <1>2. OpenTracked'
    BY DEF IInv, TypeOK, OpenTracked, SlotSessions, Retired, OnTheirWay, OpenStream
  <1>3. SlotsNotRetired' /\ OwnSession' /\ Replacing'
    BY SlotOfRR DEF IInv, SlotsNotRetired, OwnSession, Replacing, Retired, OnTheirWay, idx, OpenStream
  <1>4. QED
    BY <1>1, <1>2, <1>3 DEF IInv

\* Streams leave slots and lists alone.
LEMMA FinishStep ==
    ASSUME IInv, NEW c \in Conns, Finish(c)
    PROVE  IInv'
  <1>1. TypeOK'
    BY ConstantsAssumption DEF IInv, TypeOK, Finish
  <1>2. OpenTracked'
    BY DEF IInv, TypeOK, OpenTracked, SlotSessions, Retired, OnTheirWay, Finish
  <1>3. SlotsNotRetired' /\ OwnSession' /\ Replacing'
    BY SlotOfRR DEF IInv, SlotsNotRetired, OwnSession, Replacing, Retired, OnTheirWay, idx, Finish
  <1>4. QED
    BY <1>1, <1>2, <1>3 DEF IInv

\* A session goes from the channel to the list.
LEMMA ReceiveStep ==
    ASSUME IInv, Receive
    PROVE  IInv'
  <1>1. TypeOK'
    <2>1. chScavenger # <<>>
      BY DEF Receive
    <2>2. /\ Tail(chScavenger) \in Seq(1..made) /\ Len(Tail(chScavenger)) <= Len(chScavenger)
          /\ Head(chScavenger) \in 1..made
      BY <2>1, Taking DEF IInv
    <2>3. Len(chScavenger) <= Cap /\ Len(chScavenger) \in Nat /\ Len(Tail(chScavenger)) \in Nat
      BY <2>2 DEF IInv, TypeOK
    <2>4. chScavenger' \in Seq(1..made) /\ Len(chScavenger') <= Cap
      BY <2>2, <2>3, ConstantsAssumption DEF Receive
    <2>5. [session |-> Head(chScavenger), age |-> 0] \in [session : 1..made, age : Nat]
      BY <2>2
    <2>6. sessionList' \subseteq [session : 1..made, age : Nat]
      BY <2>5 DEF IInv, TypeOK, Receive
    <2>7. QED
      BY <2>4, <2>6 DEF IInv, TypeOK, Receive
  <1>2. Retired' = Retired
    <2> DEFINE h == Head(chScavenger)
    <2>1. OnTheirWay' \cup {h} = OnTheirWay
      BY Taking DEF IInv, OnTheirWay, Receive
    <2>2. {x.session : x \in sessionList'} = {x.session : x \in sessionList} \cup {h}
      <3>1. sessionList' = sessionList \cup {[session |-> h, age |-> 0]}
        BY DEF Receive
      <3>2. [session |-> h, age |-> 0].session = h
        OBVIOUS
      <3>3. QED
        BY <3>1, <3>2
    <2>3. QED
      BY <2>1, <2>2 DEF Retired
  <1>3. QED
    BY <1>1, <1>2, SameSlots DEF IInv, Receive

\* What is dropped from the list is closed.
LEMMA ScanStep ==
    ASSUME IInv, Scan
    PROVE  IInv'
  <1>1. TypeOK'
    BY ConstantsAssumption DEF IInv, TypeOK, Scan
  <1>2. Retired' \subseteq Retired /\ Retired \ Retired' \subseteq closed'
    BY DEF Retired, OnTheirWay, Scan, Kept
  <1>3. QED
    BY <1>1, <1>2, SameSlots DEF IInv, Scan

\* A session that is closed need not be anywhere.
LEMMA DieStep ==
    ASSUME IInv, NEW s \in Ids, Die(s)
    PROVE  IInv'
  <1>1. TypeOK'
    BY ConstantsAssumption DEF IInv, TypeOK, Die
  <1>2. OpenTracked'
    BY DEF IInv, TypeOK, OpenTracked, SlotSessions, Retired, OnTheirWay, Die
  <1>3. SlotsNotRetired' /\ OwnSession' /\ Replacing'
    BY SlotOfRR DEF IInv, SlotsNotRetired, OwnSession, Replacing, Retired, OnTheirWay, idx, Die
  <1>4. QED
    BY <1>1, <1>2, <1>3 DEF IInv

\* Ages are not what is listed.
LEMMA SecondStep ==
    ASSUME IInv, Second
    PROVE  IInv'
  <1>1. TypeOK'
    <2>1. \A n \in Nat : Min({n + 1, AutoExpire + 1}) \in 0..(AutoExpire + 1)
      BY MinOfTwo, ConstantsAssumption
    <2>2. \A n \in Nat : Min({n + 1, ScavengeTTL + 1}) \in Nat
      BY MinOfTwo, ConstantsAssumption
    <2>3. muxes' \in [Slots -> [session : Ids, age : 0..(AutoExpire + 1)]]
      <3>1. ASSUME NEW k \in Slots
            PROVE  [muxes[k] EXCEPT !.age = Min({@ + 1, AutoExpire + 1})] \in [session : Ids, age : 0..(AutoExpire + 1)]
        <4>1. muxes[k] \in [session : Ids, age : Nat]
          BY ConstantsAssumption DEF IInv, TypeOK
        <4>2. Min({muxes[k].age + 1, AutoExpire + 1}) \in 0..(AutoExpire + 1)
          BY <2>1, <4>1
        <4>3. QED
          BY <4>1, <4>2
      <3>2. QED
        BY <3>1 DEF Second
    <2>4. sessionList' \subseteq [session : 1..made, age : Nat]
      <3>1. ASSUME NEW x \in sessionList
            PROVE  [session |-> x.session, age |-> Min({x.age + 1, ScavengeTTL + 1})] \in [session : 1..made, age : Nat]
        <4>1. x.session \in 1..made /\ x.age \in Nat
          BY DEF IInv, TypeOK
        <4>2. Min({x.age + 1, ScavengeTTL + 1}) \in Nat
          BY <2>2, <4>1
        <4>3. QED
          BY <4>1, <4>2
      <3>2. QED
        BY <3>1 DEF Second
    <2>5. QED
      BY <2>3, <2>4 DEF IInv, TypeOK, Second
  <1>2. \A k \in Slots : muxes'[k].session = muxes[k].session
    BY DEF IInv, TypeOK, Second
  <1>3. Retired' = Retired
    <2> DEFINE Older(x) == [session |-> x.session, age |-> Min({x.age + 1, ScavengeTTL + 1})]
    <2>1. sessionList' = {Older(x) : x \in sessionList}
      BY DEF Second
    <2>2. \A x \in sessionList : Older(x).session = x.session
      OBVIOUS
    <2> HIDE DEF Older
    <2>3. {x.session : x \in sessionList'} = {x.session : x \in sessionList}
      BY <2>1, <2>2
    <2>4. QED
      BY <2>3 DEF Retired, OnTheirWay, Second
  <1>4. QED
    BY <1>1, <1>2, <1>3, SameSlots DEF IInv, Second

LEMMA NextInv == IInv /\ [Next]_vars => IInv'
  <1>1. ASSUME IInv, UNCHANGED vars
        PROVE  IInv'
    BY <1>1 DEF vars, IInv, TypeOK, OpenTracked, SlotsNotRetired, OwnSession, Replacing, SlotSessions, Retired, OnTheirWay,
                idx
  <1>2. QED
    BY <1>1, AcceptStep, CheckStep, ConnectStep, SpawnStep, OpenStreamStep, FinishStep, ReceiveStep, ScanStep, DieStep,
       SecondStep DEF Next

\* The inductive invariant holds in every state of the client.
THEOREM Inductive == Spec => []IInv
  <1>1. QED
    BY InitInv, NextInv, PTL DEF Spec

\* For any slots, connections, expirations and channel: an open session is in a slot or in
\* the scavenger's hands, and in both only while it is being replaced.
THEOREM MuxCorrect == Spec => []MuxInv
  <1>1. IInv => MuxInv
    BY DEF IInv, MuxInv
  <1>2. QED
    BY <1>1, Inductive, PTL

-----------------------------------------------------------------------------
(* A connection's way through a session, Tunnel: its safety properties hold for any     *)
(* number of bytes.  They speak of what has ended, and the ends of the four copies, the *)
(* two handlers and the two streams cause each other; the invariant says what each of   *)
(* them shows about the others, as long as no session died, no peer is gone and the     *)
(* target was reached.                                                                  *)

Ending == {"close", "last", "done"}

\* What a handler has opened and closed at the place where it is.
Opened(e) ==
    /\ handling[e] \in {"none", "open"} => up[e] = "off" /\ down[e] = "off"
    /\ up[e] = "off" \/ stream[e] # "none"
    /\ sock[e] = "closed" \/ stream[e] = "closed" => handling[e] \in {"last", "done"}
    /\ fin[e] # "no" => stream[e] = "closed"

\* The client has its connection from the start, the server from Dial on.
Reached ==
    /\ peer["client"] # "none"
    /\ (peer["server"] = "none") = (sock["server"] = "none")
    /\ handling["server"] \in {"copy", "close", "last"} => sock["server"] # "none"
    /\ handling["server"] \in {"none", "open"} => sock["server"] = "none"
    /\ handling["server"] = "open" => stream["server"] # "none"

\* A copy that writes holds a byte that it has not counted yet.
Held(e) ==
    /\ up[e] = "write" => put[e] < sent[e]
    /\ down[e] = "write" => delivered[e] < arrived[e]

\* Nobody but the peer of the other end may have ended anything, and that one only its
\* direction.
Calm(e) ==
    /\ peer[e] \in {"none", "open"} /\ peer[Other(e)] \in {"none", "open", "half"}
    /\ alive["client"] /\ alive["server"] /\ ~DialFailed

\* Then the first to end is the copy of that direction at the other end, after its last
\* byte; the handler there closes, and what arrives here is all of it.
Endings(e) ==
    LET f == Other(e)
    IN  /\ up[f] = "ended" => put[f] = sent[f] /\ peer[f] = "half"
        /\ down[f] = "ended" \/ handling[f] \in Ending => up[f] = "ended"
        /\ down[e] = "ended" => delivered[e] = put[f] /\ up[f] = "ended"
        /\ handling[e] \in Ending => down[e] = "ended"
        /\ up[e] = "ended" => handling[e] \in {"last", "done"}

StreamInv ==
    /\ TunnelTypeOK /\ Forward /\ Reached
    /\ \A e \in Ends : Opened(e) /\ Held(e) /\ (Calm(e) => Endings(e))

-----------------------------------------------------------------------------
USE DEF Ends, Other, Copies, peers, ups, downs, net

\* The invariant holds of an application's connection that was just accepted.
LEMMA StreamInit == TunnelInit => StreamInv
  BY DEF TunnelInit, StreamInv, TunnelTypeOK, Forward, Reached, Opened, Held, Endings, Ending

(* A lemma for every action.  Its steps are the parts of the invariant. *)

\* A peer that sends has not ended its direction, so no copy of it has ended either.
LEMMA SendStep ==
    ASSUME StreamInv, NEW e \in Ends, Send(e)
    PROVE  StreamInv'
  <1>1. TunnelTypeOK'
    BY DEF StreamInv, TunnelTypeOK, Send
  <1>2. Forward' /\ Reached'
    BY DEF StreamInv, TunnelTypeOK, Forward, Reached, Send
  <1>3. ASSUME NEW x \in Ends
        PROVE  Opened(x)' /\ Held(x)'
    BY DEF StreamInv, TunnelTypeOK, Opened, Held, Send
  <1>4. ASSUME NEW x \in Ends, Calm(x)'
        PROVE  Endings(x)'
    BY <1>4 DEF StreamInv, Calm, Endings, DialFailed, Send
  <1>5. QED
    BY <1>1, <1>2, <1>3, <1>4 DEF StreamInv

\* A peer that ends its direction leaves the copies to notice it.
LEMMA TunnelFinishStep ==
    ASSUME StreamInv, NEW e \in Ends, PeerEnds(e)
    PROVE  StreamInv'
  <1>1. TunnelTypeOK'
    <2>1. peer' \in [Ends -> {"none", "open", "half", "gone"}]
      BY DEF StreamInv, TunnelTypeOK, PeerEnds
    <2>2. stopped' \in [Ends -> BOOLEAN]
      BY DEF StreamInv, TunnelTypeOK, PeerEnds
    <2>3. QED
      BY <2>1, <2>2 DEF StreamInv, TunnelTypeOK, PeerEnds
  <1>2. Forward' /\ Reached'
    BY DEF StreamInv, TunnelTypeOK, Forward, Reached, PeerEnds
  <1>3. ASSUME NEW x \in Ends
        PROVE  Opened(x)' /\ Held(x)'
    BY DEF StreamInv, Opened, Held, PeerEnds
  <1>4. ASSUME NEW x \in Ends, Calm(x)'
        PROVE  Endings(x)'
    BY <1>4 DEF StreamInv, TunnelTypeOK, Calm, Endings, DialFailed, PeerEnds
  <1>5. QED
    BY <1>1, <1>2, <1>3, <1>4 DEF StreamInv

\* A peer that stops reading makes copies wait, and ends none.
LEMMA PeerStopsStep ==
    ASSUME StreamInv, NEW e \in Ends, PeerStops(e)
    PROVE  StreamInv'
  <1>1. TunnelTypeOK'
    BY DEF StreamInv, TunnelTypeOK, PeerStops
  <1>2. Forward' /\ Reached'
    BY DEF StreamInv, TunnelTypeOK, Forward, Reached, PeerStops
  <1>3. ASSUME NEW x \in Ends
        PROVE  Opened(x)' /\ Held(x)'
    BY DEF StreamInv, TunnelTypeOK, Opened, Held, PeerStops
  <1>4. ASSUME NEW x \in Ends, Calm(x)'
        PROVE  Endings(x)'
    BY <1>4 DEF StreamInv, TunnelTypeOK, Calm, Endings, DialFailed, PeerStops
  <1>5. QED
    BY <1>1, <1>2, <1>3, <1>4 DEF StreamInv

\* What arrives is read before the end of the stream.
LEMMA ArriveStep ==
    ASSUME StreamInv, NEW e \in Ends, Arrive(e)
    PROVE  StreamInv'
  <1>1. TunnelTypeOK'
    BY DEF StreamInv, TunnelTypeOK, Arrive, Written
  <1>2. Forward' /\ Reached'
    BY DEF StreamInv, TunnelTypeOK, Forward, Reached, Arrive, Written
  <1>3. ASSUME NEW x \in Ends
        PROVE  Opened(x)' /\ Held(x)'
    BY DEF StreamInv, TunnelTypeOK, Opened, Held, Arrive
  <1>4. ASSUME NEW x \in Ends, Calm(x)'
        PROVE  Endings(x)'
    BY <1>4 DEF StreamInv, Calm, Endings, DialFailed, Arrive
  <1>5. QED
    BY <1>1, <1>2, <1>3, <1>4 DEF StreamInv

\* After the death of a session nothing is promised.
LEMMA TunnelDieStep ==
    ASSUME StreamInv, NEW e \in Ends, SessionDies(e)
    PROVE  StreamInv'
  <1>1. TunnelTypeOK'
    BY DEF StreamInv, TunnelTypeOK, SessionDies
  <1>2. Forward' /\ Reached'
    BY DEF StreamInv, Forward, Reached, SessionDies
  <1>3. ASSUME NEW x \in Ends
        PROVE  Opened(x)' /\ Held(x)'
    BY DEF StreamInv, Opened, Held, SessionDies
  <1>4. ASSUME NEW x \in Ends, Calm(x)'
        PROVE  Endings(x)'
    BY <1>4 DEF StreamInv, TunnelTypeOK, Calm, SessionDies
  <1>5. QED
    BY <1>1, <1>2, <1>3, <1>4 DEF StreamInv

\* A copy from a connection ends with its peer's last byte, or after its handler.
LEMMA UpReadStep ==
    ASSUME StreamInv, NEW e \in Ends, UpRead(e)
    PROVE  StreamInv'
  <1>1. TunnelTypeOK'
    BY DEF StreamInv, TunnelTypeOK, UpRead
  <1>2. Forward' /\ Reached'
    BY DEF StreamInv, Forward, Reached, UpRead
  <1>3. ASSUME NEW x \in Ends
        PROVE  Opened(x)' /\ Held(x)'
    BY DEF StreamInv, TunnelTypeOK, Opened, Held, UpRead
  <1>4. ASSUME NEW x \in Ends, Calm(x)'
        PROVE  Endings(x)'
    BY <1>4 DEF StreamInv, TunnelTypeOK, Opened, Calm, Endings, DialFailed, Ending, UpRead
  <1>5. QED
    BY <1>1, <1>2, <1>3, <1>4 DEF StreamInv

\* A write to a stream fails after the session or the handler.
LEMMA UpWriteStep ==
    ASSUME StreamInv, NEW e \in Ends, UpWrite(e)
    PROVE  StreamInv'
  <1>1. TunnelTypeOK'
    BY DEF StreamInv, TunnelTypeOK, UpWrite
  <1>2. Forward' /\ Reached'
    BY DEF StreamInv, TunnelTypeOK, Forward, Reached, Held, UpWrite
  <1>3. ASSUME NEW x \in Ends
        PROVE  Opened(x)' /\ Held(x)'
    BY DEF StreamInv, TunnelTypeOK, Opened, Held, UpWrite
  <1>4. ASSUME NEW x \in Ends, Calm(x)'
        PROVE  Endings(x)'
    BY <1>4 DEF StreamInv, TunnelTypeOK, Opened, Calm, Endings, DialFailed, Ending, UpWrite
  <1>5. QED
    BY <1>1, <1>2, <1>3, <1>4 DEF StreamInv

\* A copy from a stream ends after the last byte of the other end, or after its handler.
LEMMA DownReadStep ==
    ASSUME StreamInv, NEW e \in Ends, DownRead(e)
    PROVE  StreamInv'
  <1>1. TunnelTypeOK'
    BY DEF StreamInv, TunnelTypeOK, DownRead, Drained, AtEnd
  <1>2. Forward' /\ Reached'
    BY DEF StreamInv, Forward, Reached, DownRead
  <1>3. ASSUME NEW x \in Ends
        PROVE  Opened(x)' /\ Held(x)'
    BY DEF StreamInv, TunnelTypeOK, Forward, Opened, Held, DownRead, Drained
  <1>4. ASSUME NEW x \in Ends, Calm(x)'
        PROVE  Endings(x)'
    BY <1>4 DEF StreamInv, TunnelTypeOK, Opened, Calm, Endings, DialFailed, Ending, DownRead, Drained, AtEnd
  <1>5. QED
    BY <1>1, <1>2, <1>3, <1>4 DEF StreamInv

\* A write to a connection fails after the peer or the handler.
LEMMA DownWriteStep ==
    ASSUME StreamInv, NEW e \in Ends, DownWrite(e)
    PROVE  StreamInv'
  <1>1. TunnelTypeOK'
    BY DEF StreamInv, TunnelTypeOK, DownWrite
  <1>2. Forward' /\ Reached'
    BY DEF StreamInv, TunnelTypeOK, Forward, Reached, Held, DownWrite
  <1>3. ASSUME NEW x \in Ends
        PROVE  Opened(x)' /\ Held(x)'
    BY DEF StreamInv, TunnelTypeOK, Opened, Held, DownWrite
  <1>4. ASSUME NEW x \in Ends, Calm(x)'
        PROVE  Endings(x)'
    BY <1>4 DEF StreamInv, TunnelTypeOK, Opened, Calm, Endings, DialFailed, Ending, DownWrite
  <1>5. QED
    BY <1>1, <1>2, <1>3, <1>4 DEF StreamInv

\* A client without a stream has a session that is dead.
LEMMA TunnelOpenStreamStep ==
    ASSUME StreamInv, StartStream
    PROVE  StreamInv'
  <1>1. TunnelTypeOK'
    BY DEF StreamInv, TunnelTypeOK, StartStream, StartCopies
  <1>2. Forward' /\ Reached'
    BY DEF StreamInv, TunnelTypeOK, Forward, Reached, StartStream
  <1>3. ASSUME NEW x \in Ends
        PROVE  Opened(x)' /\ Held(x)'
    BY DEF StreamInv, TunnelTypeOK, Opened, Held, StartStream, StartCopies
  <1>4. ASSUME NEW x \in Ends, Calm(x)'
        PROVE  Endings(x)'
    BY <1>4 DEF StreamInv, TunnelTypeOK, Opened, Calm, Endings, DialFailed, Ending, StartStream, StartCopies
  <1>5. QED
    BY <1>1, <1>2, <1>3, <1>4 DEF StreamInv

\* The server's stream exists before its connection does.
LEMMA AcceptStreamStep ==
    ASSUME StreamInv, AcceptStream
    PROVE  StreamInv'
  <1>1. TunnelTypeOK'
    BY DEF StreamInv, TunnelTypeOK, AcceptStream
  <1>2. Forward' /\ Reached'
    BY DEF StreamInv, TunnelTypeOK, Forward, Reached, AcceptStream
  <1>3. ASSUME NEW x \in Ends
        PROVE  Opened(x)' /\ Held(x)'
    BY DEF StreamInv, Opened, Held, AcceptStream
  <1>4. ASSUME NEW x \in Ends, Calm(x)'
        PROVE  Endings(x)'
    BY <1>4 DEF StreamInv, Calm, Endings, DialFailed, Ending, AcceptStream
  <1>5. QED
    BY <1>1, <1>2, <1>3, <1>4 DEF StreamInv

\* No copy of the server has run before it reaches the target.
LEMMA DialStep ==
    ASSUME StreamInv, Dial
    PROVE  StreamInv'
  <1>1. TunnelTypeOK'
    BY DEF StreamInv, TunnelTypeOK, Dial, StartCopies
  <1>2. Forward' /\ Reached'
    BY DEF StreamInv, TunnelTypeOK, Forward, Reached, Dial
  <1>3. ASSUME NEW x \in Ends
        PROVE  Opened(x)' /\ Held(x)'
    BY DEF StreamInv, TunnelTypeOK, Reached, Opened, Held, Dial, StartCopies
  <1>4. ASSUME NEW x \in Ends, Calm(x)'
        PROVE  Endings(x)'
    BY <1>4 DEF StreamInv, Reached, Calm, Endings, DialFailed, Ending, Dial, StartCopies
  <1>5. QED
    BY <1>1, <1>2, <1>3, <1>4 DEF StreamInv

\* A server that cannot reach the target promises nothing.
LEMMA DialFailsStep ==
    ASSUME StreamInv, DialFails
    PROVE  StreamInv'
  <1>1. TunnelTypeOK'
    BY DEF StreamInv, TunnelTypeOK, DialFails, CloseStream
  <1>2. Forward' /\ Reached'
    BY DEF StreamInv, TunnelTypeOK, Forward, Reached, DialFails
  <1>3. ASSUME NEW x \in Ends
        PROVE  Opened(x)' /\ Held(x)'
    BY DEF StreamInv, TunnelTypeOK, Opened, Held, DialFails, CloseStream
  <1>4. ASSUME NEW x \in Ends, Calm(x)'
        PROVE  Endings(x)'
    BY <1>4 DEF StreamInv, TunnelTypeOK, Reached, Calm, DialFailed, DialFails
  <1>5. QED
    BY <1>1, <1>2, <1>3, <1>4 DEF StreamInv

\* A handler goes on to close when one of its copies has ended; either way the copy from
\* the connection that ended has.
LEMMA OverStep ==
    ASSUME StreamInv, NEW e \in Ends, Over(e)
    PROVE  StreamInv'
  <1>1. TunnelTypeOK'
    BY DEF StreamInv, TunnelTypeOK, Over, OneIsOver
  <1>2. Forward' /\ Reached'
    BY DEF StreamInv, Forward, Reached, Over
  <1>3. ASSUME NEW x \in Ends
        PROVE  Opened(x)' /\ Held(x)'
    BY DEF StreamInv, Opened, Held, Over
  <1>4. ASSUME NEW x \in Ends, Calm(x)'
        PROVE  Endings(x)'
    BY <1>4 DEF StreamInv, Calm, Endings, DialFailed, Over, OneIsOver
  <1>5. QED
    BY <1>1, <1>2, <1>3, <1>4 DEF StreamInv

\* A handler closes after that.
LEMMA CloseStep ==
    ASSUME StreamInv, NEW e \in Ends, Close(e)
    PROVE  StreamInv'
  <1>1. TunnelTypeOK'
    BY DEF StreamInv, TunnelTypeOK, Close, First, CloseStream
  <1>2. Forward' /\ Reached'
    BY DEF StreamInv, TunnelTypeOK, Forward, Reached, Close, CloseStream
  <1>3. ASSUME NEW x \in Ends
        PROVE  Opened(x)' /\ Held(x)'
    BY DEF StreamInv, TunnelTypeOK, Opened, Held, Close, CloseStream
  <1>4. ASSUME NEW x \in Ends, Calm(x)'
        PROVE  Endings(x)'
    BY <1>4 DEF StreamInv, TunnelTypeOK, Calm, Endings, DialFailed, Ending, Close
  <1>5. QED
    BY <1>1, <1>2, <1>3, <1>4 DEF StreamInv

\* The end of a stream goes after its close.
LEMMA SendEndStep ==
    ASSUME StreamInv, NEW e \in Ends, SendEnd(e)
    PROVE  StreamInv'
  <1>1. TunnelTypeOK'
    BY DEF StreamInv, TunnelTypeOK, SendEnd
  <1>2. Forward' /\ Reached'
    BY DEF StreamInv, TunnelTypeOK, Forward, Reached, SendEnd
  <1>3. ASSUME NEW x \in Ends
        PROVE  Opened(x)' /\ Held(x)'
    BY DEF StreamInv, TunnelTypeOK, Opened, Held, SendEnd
  <1>4. ASSUME NEW x \in Ends, Calm(x)'
        PROVE  Endings(x)'
    BY <1>4 DEF StreamInv, TunnelTypeOK, Calm, Endings, DialFailed, SendEnd
  <1>5. QED
    BY <1>1, <1>2, <1>3, <1>4 DEF StreamInv

\* The invariant is inductive.
LEMMA StreamNext == StreamInv /\ [TunnelNext]_(tunnelVars) => StreamInv'
  <1>1. ASSUME StreamInv, UNCHANGED tunnelVars
        PROVE  StreamInv'
    BY <1>1 DEF tunnelVars, StreamInv, TunnelTypeOK, Forward, Reached, Opened, Held, Calm, Endings, DialFailed
  <1>2. ASSUME StreamInv, NEW e \in Ends, Send(e) \/ PeerEnds(e) \/ PeerStops(e) \/ Arrive(e) \/ SessionDies(e)
        PROVE  StreamInv'
    BY <1>2, SendStep, TunnelFinishStep, PeerStopsStep, ArriveStep, TunnelDieStep
  <1>3. ASSUME StreamInv, NEW e \in Ends, Copy(e)
        PROVE  StreamInv'
    BY <1>3, UpReadStep, UpWriteStep, DownReadStep, DownWriteStep DEF Copy
  <1>4. ASSUME StreamInv, Handlers
        PROVE  StreamInv'
    BY <1>4, TunnelOpenStreamStep, AcceptStreamStep, DialStep, DialFailsStep, OverStep, CloseStep,
       SendEndStep
       DEF Handlers
  <1>5. QED
    BY <1>1, <1>2, <1>3, <1>4 DEF TunnelNext

\* The inductive invariant holds in every state of the tunnel.
THEOREM StreamInductive == TunnelSpec => []StreamInv
  <1>1. QED
    BY StreamInit, StreamNext, PTL DEF TunnelSpec

\* While both sessions live and no peer is gone, a connection that was closed had one
\* peer end its direction, and everything that peer sent was delivered before.
LEMMA ClosedInOrder ==
    ASSUME StreamInv
    PROVE  CutForAReason /\ EndedCompletely
  <1>1. CutForAReason
    <2>1. SUFFICES ASSUME NEW e \in Ends, sock[e] = "closed", ~DialFailed,
                          \A f \in Ends : peer[f] \in {"none", "open"} /\ alive[f]
                   PROVE  FALSE
      BY DEF CutForAReason, Ended, StreamInv, TunnelTypeOK
    <2>2. Calm(e) /\ handling[e] \in Ending
      BY <2>1 DEF Calm, StreamInv, Opened, Ending
    <2>3. peer[Other(e)] = "half"
      BY <2>2 DEF StreamInv, Endings
    <2>4. QED
      BY <2>1, <2>3
  <1>2. EndedCompletely
    <2>1. SUFFICES ASSUME NEW e \in Ends, sock[e] = "closed", peer[e] = "open", peer[Other(e)] = "half",
                          alive["client"], alive["server"]
                   PROVE  delivered[e] = sent[Other(e)]
      BY DEF EndedCompletely
    <2>2. ~DialFailed
      BY <2>1 DEF StreamInv, Reached, DialFailed
    <2>3. Calm(e) /\ handling[e] \in Ending
      BY <2>1, <2>2 DEF Calm, StreamInv, Opened, Ending
    <2>4. QED
      BY <2>3 DEF StreamInv, Endings
  <1>3. QED
    BY <1>1, <1>2

\* For any number of bytes: what a copy writes was sent and arrived first, no connection
\* is cut without a reason, and one that a peer half-closes has delivered all of its bytes.
THEOREM TunnelCorrect == TunnelSpec => []TunnelInv
  <1>1. StreamInv => TunnelInv
    BY ClosedInOrder DEF StreamInv, TunnelInv
  <1>2. QED
    BY <1>1, StreamInductive, PTL

=============================================================================
