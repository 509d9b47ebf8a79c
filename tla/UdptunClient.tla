---------------------------- MODULE UdptunClient ----------------------------
(***************************************************************************)
(* The flow tables of the UDP relay's clients (udptun/client.go): localLoop*)
(* gives each of ss-local's sockets a flow id, transportLoop hands replies *)
(* back by id, and maintain forgets flows that have not been used.         *)
(*                                                                         *)
(* Abstractions.                                                           *)
(*  - A payload is the identity of the socket that asked.                  *)
(*  - lastActive is the age of the last touch in seconds, kept up to the   *)
(*    first age that counts as idle.                                       *)
(*  - A clientFlow is its id and its addr: a loop that still holds a flow  *)
(*    that was forgotten touches nothing unless the same id has meanwhile  *)
(*    been given to the same address, after all ids were used in between.  *)
(*  - Of the transport (UdptunTransport.tla) only its address is kept: the *)
(*    server knows a client by it, and it changes at a redial.             *)
(*  - The other side and the clock are in Udptun.tla.                      *)
(***************************************************************************)
EXTENDS Integers, FiniteSets

CONSTANTS
    Clients,    \* relays
    TAddrs,     \* addresses of their transports
    HomeAddr,   \* the address of each client's first transport
    Addrs,      \* sockets of ss-local, at each client
    MaxId,      \* largest id, 2^32 - 1
    IdleTTL,    \* ClientConfig.Idle; -1 makes every flow idle at once
    NetCap      \* bound: datagrams in flight each way

KeepAliveFlow == 0
None == "none"
Ids == 1..MaxId
Askers == Clients \X Addrs
Nobody == <<None, None>>

ASSUME ConstantsAssumption ==
    /\ MaxId \in Nat \ {0} /\ IdleTTL \in Nat \cup {-1} /\ NetCap \in Nat \ {0}
    /\ HomeAddr \in [Clients -> TAddrs]
    /\ \A c, d \in Clients : HomeAddr[c] = HomeAddr[d] => c = d
    /\ None \notin Addrs

VARIABLES
    up,         \* datagrams on their way to the server
    down,       \* datagrams on their way to clients
    byAddr,     \* addr -> id of its flow
    byID,       \* id -> addr of its flow
    nextID,     \* the id given last
    idle,       \* seconds since the flow with this id was touched
    local,      \* the flow localLoop holds
    reply,      \* the flow and payload transportLoop holds
    at,         \* address of the transport
    used        \* addresses transports have had

tables == <<byAddr, byID, nextID>>

NoFlow == [id |-> 0, addr |-> None]
Nothing == [id |-> 0, addr |-> None, asker |-> Nobody]

\* The tables hold ids and sockets' addresses; the loops hold a flow or none.
TypeOK ==
    /\ byAddr \in [Clients -> [Addrs -> 0..MaxId]]
    /\ byID \in [Clients -> [Ids -> Addrs \cup {None}]]
    /\ nextID \in [Clients -> 0..MaxId]
    /\ idle \in [Clients -> [Ids -> 0..(IdleTTL + 1)]]
    /\ local \in [Clients -> {NoFlow} \cup [id : Ids, addr : Addrs]]
    /\ reply \in [Clients -> {Nothing} \cup [id : Ids, addr : Addrs, asker : Askers]]
    /\ at \in [Clients -> TAddrs] /\ used \subseteq TAddrs

\* 0, KeepAliveFlow, stands for no flow in byAddr.
Init ==
    /\ up = {} /\ down = {}
    /\ byAddr = [c \in Clients |-> [a \in Addrs |-> 0]]
    /\ byID = [c \in Clients |-> [i \in Ids |-> None]]
    /\ nextID = [c \in Clients |-> 0]
    /\ idle = [c \in Clients |-> [i \in Ids |-> 0]]
    /\ local = [c \in Clients |-> NoFlow]
    /\ reply = [c \in Clients |-> Nothing]
    /\ at = HomeAddr
    /\ used = {HomeAddr[c] : c \in Clients}

-----------------------------------------------------------------------------

Carry(net, d) == {net} \cup (IF Cardinality(net) < NetCap THEN {net \cup {d}} ELSE {})
Taken(net, d) == {net, net \ {d}}

Registered(c, id, a) == id # 0 /\ byID[c][id] = a /\ byAddr[c][a] = id

\* nextID++ modulo 2^32.
After(id, n) == (id + n) % (MaxId + 1)

\* Mutant: the first id after nextID, live or not.
Fresh_MayBeLive(c, id) ==
    \E n \in 1..2 : id = After(nextID[c], n) /\ \A k \in 1..(n - 1) : After(nextID[c], k) = KeepAliveFlow

\* "skip KeepAliveFlow, and any id still live after a wrap": id is the first of the
\* ids after nextID that is neither.
Fresh(c, id) ==
    LET ok(n) == LET i == After(nextID[c], n) IN i # KeepAliveFlow /\ byID[c][i] = None
    IN  \E n \in 1..(MaxId + 1) : id = After(nextID[c], n) /\ ok(n) /\ \A k \in 1..(n - 1) : ~ok(k)

Touched(c, f) ==
    IF Registered(c, f.id, f.addr) THEN [idle EXCEPT ![c][f.id] = 0] ELSE idle

\* flowFor registers a flow for an address that has none.
NewFlow(c, a, id) ==
    /\ byAddr' = [byAddr EXCEPT ![c][a] = id]
    /\ byID' = [byID EXCEPT ![c][id] = a]
    /\ nextID' = [nextID EXCEPT ![c] = id]
    /\ idle' = [idle EXCEPT ![c][id] = 0]

\* localLoop reads a datagram of socket a, and flowFor.
LocalRecv(c, a) ==
    /\ local[c].addr = None
    /\ \/ /\ byAddr[c][a] # 0
          /\ local' = [local EXCEPT ![c] = [id |-> byAddr[c][a], addr |-> a]]
          /\ UNCHANGED <<tables, idle>>
       \/ /\ byAddr[c][a] = 0
          /\ \E id \in Ids :                       \* without one the loop of flowFor spins
                /\ Fresh(c, id)
                /\ NewFlow(c, a, id)
                /\ local' = [local EXCEPT ![c] = [id |-> id, addr |-> a]]
    /\ UNCHANGED <<up, down, reply, at, used>>

\* The rest of localLoop, outside c.mu: touch, Seal and WriteTo.  Without a
\* transport, or with one that fails, the datagram is dropped.
LocalSend(c) ==
    /\ local[c].addr # None
    /\ idle' = Touched(c, local[c])
    /\ up' \in Carry(up, [from |-> at[c], id |-> local[c].id, asker |-> <<c, local[c].addr>>])
    /\ local' = [local EXCEPT ![c] = NoFlow]
    /\ UNCHANGED <<down, tables, reply, at, used>>

\* transportLoop reads a datagram: a keepalive is dropped, and so is a reply
\* whose flow has been forgotten.
TransportRecv(c) ==
    /\ reply[c] = Nothing
    /\ \E d \in down :
        /\ d.to = at[c]
        /\ down' \in Taken(down, d)
        /\ reply' = IF d.id # KeepAliveFlow /\ byID[c][d.id] # None
                    THEN [reply EXCEPT ![c] = [id |-> d.id, addr |-> byID[c][d.id],
                                               asker |-> d.asker]]
                    ELSE reply
    /\ UNCHANGED <<up, tables, idle, local, at, used>>

\* ... and hands it to reply[c].addr, outside c.mu.
TransportDeliver(c) ==
    /\ reply[c] # Nothing
    /\ idle' = Touched(c, reply[c])
    /\ reply' = [reply EXCEPT ![c] = Nothing]
    /\ UNCHANGED <<up, down, tables, local, at, used>>

Stale(c) == {i \in Ids : byID[c][i] # None /\ idle[c][i] > IdleTTL}

\* maintain, the section under c.mu: every idle flow goes from both tables.
Forget(c) ==
    /\ byAddr' = [byAddr EXCEPT ![c] =
                     [a \in Addrs |-> IF byAddr[c][a] \in Stale(c) THEN 0 ELSE byAddr[c][a]]]
    /\ byID' = [byID EXCEPT ![c] =
                   [i \in Ids |-> IF i \in Stale(c) THEN None ELSE byID[c][i]]]
    /\ UNCHANGED nextID

Reap(c) ==
    /\ Stale(c) # {}
    /\ Forget(c)
    /\ UNCHANGED <<up, down, idle, local, reply, at, used>>

\* maintain: the keepalive.
Ping(c) ==
    /\ up' \in Carry(up, [from |-> at[c], id |-> KeepAliveFlow, asker |-> Nobody])
    /\ UNCHANGED <<down, tables, idle, local, reply, at, used>>

\* supervise has another transport, from a port not used before.
Redial(c) ==
    /\ reply[c] = Nothing
    /\ \E t \in TAddrs \ used : /\ at' = [at EXCEPT ![c] = t]
                                /\ used' = used \cup {t}
    /\ UNCHANGED <<up, down, tables, idle, local, reply>>

\* A second later.
Aged == [c \in Clients |->
            [i \in Ids |-> IF byID[c][i] # None /\ idle[c][i] <= IdleTTL
                           THEN idle[c][i] + 1 ELSE idle[c][i]]]

ClientStep ==
    \E c \in Clients :
        \/ \E a \in Addrs : LocalRecv(c, a)
        \/ LocalSend(c) \/ TransportRecv(c) \/ TransportDeliver(c)
        \/ Reap(c) \/ Ping(c) \/ Redial(c)

-----------------------------------------------------------------------------
(* Properties *)

\* The two tables are each other's inverse, whatever is forgotten or wraps
\* round, and no flow has the id of keepalives.
TablesAgree ==
    \A c \in Clients :
        /\ \A a \in Addrs : byAddr[c][a] # 0 => byID[c][byAddr[c][a]] = a
        /\ \A i \in Ids : byID[c][i] # None => byAddr[c][byID[c][i]] = i

\* The tables at every step of localLoop, transportLoop and maintain: typed, and
\* each other's inverse.
TablesInv == TypeOK /\ TablesAgree

=============================================================================
