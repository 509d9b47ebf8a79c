---------------------------- MODULE UdptunServer ----------------------------
(***************************************************************************)
(* The flow table of the UDP relay's server (udptun/server.go): one socket *)
(* towards the target for each flow of each client, opened by the main     *)
(* loop on the first datagram, drained by a pump goroutine and closed by   *)
(* the reaper, by its pump or by the main loop, whoever finds a reason.    *)
(*                                                                         *)
(* Abstractions.                                                           *)
(*  - A payload is the identity of whoever asked; the target answers any   *)
(*    request it got on a socket, any number of times.                     *)
(*  - lastActive is kept as the age of the last touch, in seconds, and no  *)
(*    further than the first age that counts as idle.                      *)
(*  - A socket is reused once nothing refers to it, as memory is.          *)
(*  - The main loop is the only one to register flows: the branch "raced;  *)
(*    keep the winner" of flowFor cannot be taken.                         *)
(*  - A reply that is too large for the path is dropped before anything    *)
(*    else happens.                                                        *)
(***************************************************************************)
EXTENDS Integers, FiniteSets

CONSTANTS
    TAddrs,     \* transport addresses of clients
    MaxId,      \* largest flow id, 2^32 - 1
    Askers,     \* who may ask
    Nobody,     \* who a keepalive is for
    Socks,      \* sockets towards the target
    IdleTTL,    \* ServerConfig.Idle; -1 makes every flow idle at once
    NetCap      \* bound: datagrams in flight each way

ASSUME ConstantsAssumption ==
    /\ MaxId \in Nat \ {0} /\ IdleTTL \in Nat \cup {-1} /\ NetCap \in Nat \ {0}
    /\ Nobody \notin Askers
    /\ TAddrs # {} /\ Socks \cap {"none", "main", "reaper"} = {}

VARIABLES
    up,         \* datagrams on their way to the server
    down,       \* datagrams on their way to clients
    flows,      \* s.flows: key -> socket
    sock,       \* serverFlow of each socket: its key, and whether conn is open
    age,        \* seconds since the flow was touched
    main,       \* the loop of RunServer
    pump,       \* the pump of each socket
    stale,      \* flows the reaper has still to close
    closing,    \* socket an actor has unregistered and has still to Close
    asked,      \* what was written to the target on each socket
    reaper      \* the reaper has not ended

vars == <<up, down, flows, sock, age, main, pump, stale, closing, asked, reaper>>

KeepAliveFlow == 0
Ids == 1..MaxId
Keys == TAddrs \X Ids       \* flowKey scopes an id to its client
None == "none"
Actors == {"main", "reaper"} \cup Socks
Ages == 0..(IdleTTL + 1)

\* Keepalives and their answers are for nobody.
Up == [from : TAddrs, id : Ids, asker : Askers]
      \cup [from : TAddrs, id : {KeepAliveFlow}, asker : {Nobody}]
Down == [to : TAddrs, id : Ids, asker : Askers]
        \cup [to : TAddrs, id : {KeepAliveFlow}, asker : {Nobody}]

\* The table maps keys to sockets; the main loop, the pumps and the reaper hold
\* sockets and payloads.
TypeOK ==
    /\ up \subseteq Up /\ down \subseteq Down
    /\ flows \in [Keys -> Socks \cup {None}]
    /\ sock \in [Socks -> [key : Keys, open : BOOLEAN]]
    /\ age \in [Socks -> Ages]
    /\ main \in [pc : {"read", "dial", "touch", "write", "over"}, key : Keys,
                 asker : Askers \cup {Nobody}, sock : Socks \cup {None}]
    /\ pump \in [Socks -> [pc : {"none", "read", "send", "end"}, asker : Askers \cup {Nobody}]]
    /\ stale \subseteq Socks
    /\ closing \in [Actors -> Socks \cup {None}]
    /\ asked \in [Socks -> SUBSET Askers]
    /\ reaper \in BOOLEAN

NoKey == CHOOSE k \in Keys : TRUE
AtRead == [pc |-> "read", key |-> NoKey, asker |-> Nobody, sock |-> None]
NoPump == [pc |-> "none", asker |-> Nobody]
Reading == [pc |-> "read", asker |-> Nobody]

Init ==
    /\ up = {} /\ down = {}
    /\ flows = [k \in Keys |-> None]
    /\ sock = [s \in Socks |-> [key |-> NoKey, open |-> FALSE]]
    /\ age = [s \in Socks |-> 0]
    /\ main = AtRead
    /\ pump = [s \in Socks |-> NoPump]
    /\ stale = {}
    /\ closing = [a \in Actors |-> None]
    /\ asked = [s \in Socks |-> {}]
    /\ reaper = TRUE

-----------------------------------------------------------------------------

Registered(s) == flows[sock[s].key] = s

\* The datagram service may lose what it is given, and deliver it again.
Carry(net, d) == {net} \cup (IF Cardinality(net) < NetCap THEN {net \cup {d}} ELSE {})
Taken(net, d) == {net, net \ {d}}

\* Mutant: whatever flow has the key goes.
CloseFlow_ByKey(actor, s) ==
    /\ flows' = [flows EXCEPT ![sock[s].key] = None]
    /\ closing' = [closing EXCEPT ![actor] = s]

\* closeFlow up to its unlock: only the flow itself is removed, never a
\* successor with the same key; what was removed is closed next.
CloseFlow(actor, s) ==
    IF Registered(s)
    THEN /\ flows' = [flows EXCEPT ![sock[s].key] = None]
         /\ closing' = [closing EXCEPT ![actor] = s]
    ELSE UNCHANGED <<flows, closing>>

Busy(actor) == closing[actor] # None

\* f.conn.Close(), after the unlock.
CloseConn(actor) ==
    /\ Busy(actor)
    /\ sock' = [sock EXCEPT ![closing[actor]].open = FALSE]
    /\ closing' = [closing EXCEPT ![actor] = None]
    /\ UNCHANGED <<up, down, flows, age, main, pump, stale, asked, reaper>>

-----------------------------------------------------------------------------
(* The main loop *)

\* What Open rejects is dropped: it is corrupt, not ours, or was garbled in the scratch
\* buffers of a cipher that two stacks share.
Discard ==
    /\ main.pc = "read" /\ ~Busy("main")
    /\ \E d \in up : up' = up \ {d}
    /\ UNCHANGED <<down, flows, sock, age, main, pump, stale, closing, asked, reaper>>

\* A keepalive is answered; for anything else flowFor looks the flow up.
Recv ==
    /\ main.pc = "read" /\ ~Busy("main")
    /\ \E d \in up :
        /\ up' \in Taken(up, d)
        /\ \/ /\ d.id = KeepAliveFlow
              /\ down' \in Carry(down, [to |-> d.from, id |-> KeepAliveFlow, asker |-> Nobody])
              /\ UNCHANGED main
           \/ /\ d.id # KeepAliveFlow
              /\ LET key == <<d.from, d.id>> IN
                 main' = [pc |-> IF flows[key] = None THEN "dial" ELSE "touch",
                          key |-> key, asker |-> d.asker, sock |-> flows[key]]
              /\ UNCHANGED down
    /\ UNCHANGED <<flows, sock, age, pump, stale, closing, asked, reaper>>

\* ReadFrom fails: RunServer returns and closes die.  The flows stay.
TransportFails ==
    /\ main.pc = "read" /\ ~Busy("main")
    /\ main' = [AtRead EXCEPT !.pc = "over"]
    /\ UNCHANGED <<up, down, flows, sock, age, pump, stale, closing, asked, reaper>>

Free(s) ==
    /\ pump[s].pc = "none" /\ ~sock[s].open
    /\ s \notin stale /\ main.sock # s /\ \A a \in Actors : closing[a] # s

\* Mutant: the key forgets the client.
Register_AnyClient(s) ==
    /\ flows' = [k \in Keys |-> IF k[2] = main.key[2] THEN s ELSE flows[k]]
    /\ sock' = [sock EXCEPT ![s] = [key |-> main.key, open |-> TRUE]]
    /\ age' = [age EXCEPT ![s] = 0]
    /\ pump' = [pump EXCEPT ![s] = Reading]
    /\ asked' = [asked EXCEPT ![s] = {}]

\* Mutant: the key forgets the id.
Register_AnyId(s) ==
    /\ flows' = [k \in Keys |-> IF k[1] = main.key[1] THEN s ELSE flows[k]]
    /\ sock' = [sock EXCEPT ![s] = [key |-> main.key, open |-> TRUE]]
    /\ age' = [age EXCEPT ![s] = 0]
    /\ pump' = [pump EXCEPT ![s] = Reading]
    /\ asked' = [asked EXCEPT ![s] = {}]

\* The rest of flowFor: the new flow, and its pump.
Register(s) ==
    /\ flows' = [flows EXCEPT ![main.key] = s]
    /\ sock' = [sock EXCEPT ![s] = [key |-> main.key, open |-> TRUE]]
    /\ age' = [age EXCEPT ![s] = 0]
    /\ pump' = [pump EXCEPT ![s] = Reading]
    /\ asked' = [asked EXCEPT ![s] = {}]

Dial ==
    /\ main.pc = "dial"
    /\ \E s \in Socks : /\ Free(s)
                        /\ Register(s)
                        /\ main' = [main EXCEPT !.pc = "touch", !.sock = s]
    /\ UNCHANGED <<up, down, stale, closing, reaper>>

DialFails ==
    /\ main.pc = "dial"
    /\ main' = AtRead
    /\ UNCHANGED <<up, down, flows, sock, age, pump, stale, closing, asked, reaper>>

Touch ==
    /\ main.pc = "touch"
    /\ age' = [age EXCEPT ![main.sock] = 0]
    /\ main' = [main EXCEPT !.pc = "write"]
    /\ UNCHANGED <<up, down, flows, sock, pump, stale, closing, asked, reaper>>

\* The flow may have been closed since it was looked up; a connected UDP
\* socket also reports refusals.  Both end the flow and lose the datagram.
Write ==
    /\ main.pc = "write"
    /\ \/ /\ sock[main.sock].open
          /\ asked' = [asked EXCEPT ![main.sock] = @ \cup {main.asker}]
          /\ UNCHANGED <<flows, closing>>
       \/ /\ CloseFlow("main", main.sock)
          /\ UNCHANGED asked
    /\ main' = AtRead
    /\ UNCHANGED <<up, down, sock, age, pump, stale, reaper>>

-----------------------------------------------------------------------------
(* The pumps *)

PumpRead(s) ==
    /\ pump[s].pc = "read" /\ sock[s].open
    /\ \E a \in asked[s] : pump' = [pump EXCEPT ![s] = [pc |-> "send", asker |-> a]]
    /\ age' = [age EXCEPT ![s] = 0]
    /\ UNCHANGED <<up, down, flows, sock, main, stale, closing, asked, reaper>>

PumpSend(s) ==
    /\ pump[s].pc = "send"
    /\ LET k == sock[s].key IN
       down' \in Carry(down, [to |-> k[1], id |-> k[2], asker |-> pump[s].asker])
    /\ pump' = [pump EXCEPT ![s] = Reading]
    /\ UNCHANGED <<up, flows, sock, age, main, stale, closing, asked, reaper>>

\* Read fails on a closed or refused socket, or WriteTo on the transport.
PumpFails(s) ==
    /\ pump[s].pc \in {"read", "send"}
    /\ CloseFlow(s, s)
    /\ pump' = [pump EXCEPT ![s] = [pc |-> "end", asker |-> Nobody]]
    /\ UNCHANGED <<up, down, sock, age, main, stale, asked, reaper>>

\* The goroutine is over, and with it the last reference to the flow.
PumpEnds(s) ==
    /\ pump[s].pc = "end" /\ ~Busy(s)
    /\ pump' = [pump EXCEPT ![s] = NoPump]
    /\ sock' = [sock EXCEPT ![s].key = NoKey]
    /\ asked' = [asked EXCEPT ![s] = {}]
    /\ UNCHANGED <<up, down, flows, age, main, stale, closing, reaper>>

-----------------------------------------------------------------------------
(* The reaper *)

IsIdle(s) == age[s] > IdleTTL

\* Mutant: the age is compared for equality; a scan that comes late misses it.
Scan_Exactly ==
    /\ reaper /\ stale = {} /\ ~Busy("reaper")
    /\ stale' = {s \in Socks : Registered(s) /\ age[s] = IdleTTL}
    /\ UNCHANGED <<up, down, flows, sock, age, main, pump, closing, asked, reaper>>

\* The section under s.mu collects; the flows are closed after it.
Scan ==
    /\ reaper /\ stale = {} /\ ~Busy("reaper")
    /\ stale' = {s \in Socks : Registered(s) /\ IsIdle(s)}
    /\ UNCHANGED <<up, down, flows, sock, age, main, pump, closing, asked, reaper>>

ReapOne ==
    /\ ~Busy("reaper")
    /\ \E s \in stale : /\ CloseFlow("reaper", s)
                        /\ stale' = stale \ {s}
    /\ UNCHANGED <<up, down, sock, age, main, pump, asked, reaper>>

\* The select finds die closed.
ReaperEnds ==
    /\ main.pc = "over"
    /\ reaper /\ stale = {} /\ ~Busy("reaper")
    /\ reaper' = FALSE
    /\ UNCHANGED <<up, down, flows, sock, age, main, pump, stale, closing, asked>>

-----------------------------------------------------------------------------

\* The age of a flow that is no longer in the table is not looked at.
Aged == [s \in Socks |-> IF Registered(s) /\ ~IsIdle(s) THEN age[s] + 1 ELSE age[s]]

Tick ==
    /\ age' = Aged
    /\ UNCHANGED <<up, down, flows, sock, main, pump, stale, closing, asked, reaper>>

\* Any client may send anything.
Arrive ==
    /\ \E d \in Up : up' \in Carry(up, d)
    /\ UNCHANGED <<down, flows, sock, age, main, pump, stale, closing, asked, reaper>>

\* What the clients make of the answers does not concern the server.
Depart ==
    /\ down # {} /\ down' = {}
    /\ UNCHANGED <<up, flows, sock, age, main, pump, stale, closing, asked, reaper>>

ServerStep ==
    \/ Discard \/ Recv \/ Dial \/ DialFails \/ Touch \/ Write
    \/ \E s \in Socks : PumpRead(s) \/ PumpSend(s) \/ PumpFails(s) \/ PumpEnds(s)
    \/ Scan \/ ReapOne
    \/ \E a \in Actors : CloseConn(a)

Next == ServerStep \/ TransportFails \/ ReaperEnds \/ Tick \/ Arrive \/ Depart

Spec == Init /\ [][Next]_vars

\* Goroutines are scheduled, the ticker of the reaper among them.
Fairness ==
    /\ WF_vars(Scan) /\ WF_vars(ReapOne)
    /\ \A a \in Actors : WF_vars(CloseConn(a))

FairSpec == Spec /\ Fairness

-----------------------------------------------------------------------------
(* Properties *)

\* The table and the sockets agree through every race of closeFlow: what is
\* registered is open and has a running pump, and an open socket is registered
\* or about to be closed, so none is leaked.
FlowTable ==
    /\ \A k \in Keys : flows[k] # None =>
          LET s == flows[k] IN
          sock[s].key = k /\ sock[s].open /\ pump[s].pc \in {"read", "send"}
    /\ \A s \in Socks : sock[s].open => Registered(s) \/ \E a \in Actors : closing[a] = s

\* No two actors close the same socket, and nobody closes one that is in the table.
ClosedOnce ==
    \A a, b \in Actors : closing[a] # None =>
        /\ ~Registered(closing[a]) /\ sock[closing[a]].open
        /\ closing[b] = closing[a] => a = b

\* A flow that stays unused is closed, while RunServer runs.
IdleFlowsClosed ==
    \A s \in Socks :
        (Registered(s) /\ IsIdle(s)) ~> (~sock[s].open \/ age[s] = 0 \/ main.pc = "over")

\* The state of the flows through every race of the main loop, the pumps and the
\* reaper: typed, the table and the sockets agree, and nobody closes twice.
FlowInv == TypeOK /\ FlowTable /\ ClosedOnce

=============================================================================
