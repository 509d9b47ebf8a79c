------------------------------- MODULE Udptun -------------------------------
(***************************************************************************)
(* The UDP relay end to end (udptun/): clients, their server and the       *)
(* datagram service between them.  What a socket of ss-local asked goes up *)
(* under the id its client gave it, over a transport that may be replaced, *)
(* and out of the server's socket for that flow; the answers must find the *)
(* way back to whoever asked, although each side forgets idle flows on its *)
(* own and datagrams are lost, repeated and late.  Neither process ends.   *)
(***************************************************************************)
EXTENDS UdptunClient

CONSTANTS
    ServerIdle, \* ServerConfig.Idle
    Socks       \* the server's sockets towards the target

VARIABLES flows, sock, age, main, pump, stale, closing, asked, reaper

serverVars == <<flows, sock, age, main, pump, stale, closing, asked, reaper>>
clientVars == <<tables, idle, local, reply, at, used>>
relayVars == <<up, down, clientVars, serverVars>>

S == INSTANCE UdptunServer WITH IdleTTL <- ServerIdle

ASSUME ServerAssumption == S!ConstantsAssumption

RelayInit == Init /\ S!Init

\* One clock for all.
Tick ==
    /\ idle' = Aged
    /\ age' = S!Aged
    /\ UNCHANGED <<up, down, tables, local, reply, at, used,
                   flows, sock, main, pump, stale, closing, asked, reaper>>

\* Nothing of an earlier flow with id i is left on the client's transport.
Over(c, i) ==
    LET key == <<at[c], i>> IN
    /\ \A d \in up : <<d.from, d.id>> # key
    /\ \A d \in down : <<d.to, d.id>> # key
    /\ main.pc # "read" => main.key # key
    /\ \A s \in Socks : S!Registered(s) \/ pump[s].pc # "none" => sock[s].key # key

\* There are 2^32 ids: one comes round only when its last use is over.
NoneTooSoon ==
    \A c \in Clients, i \in Ids : byID[c][i] = None /\ byID'[c][i] # None => Over(c, i)

RelayNext ==
    \/ ClientStep /\ NoneTooSoon /\ UNCHANGED serverVars
    \/ S!ServerStep /\ UNCHANGED clientVars
    \/ Tick

RelaySpec == RelayInit /\ [][RelayNext]_relayVars

-----------------------------------------------------------------------------
(* Properties *)

\* serverFlow: "the target answers whichever source port asked, so this is
\* what attributes replies".  A socket towards the target only ever carries
\* what one socket of one client asked.
OneAskerPerSocket == \A s \in Socks : Cardinality(asked[s]) <= 1

\* What reaches a socket of ss-local is an answer to what it asked, never to
\* another socket or another client.
RepliesToAsker ==
    \A c \in Clients : reply[c] # Nothing => reply[c].asker = <<c, reply[c].addr>>

=============================================================================
