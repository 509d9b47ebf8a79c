--------------------------- MODULE UdptunTransport ---------------------------
(***************************************************************************)
(* How the UDP relay's client keeps a transport up (udptun/client.go):     *)
(* supervise dials, runs transportLoop and dials again; each transport has *)
(* a watchdog that closes it after 3 * KeepAlive seconds of silence; and   *)
(* maintain sends the keepalives whose answers break the silence.          *)
(*                                                                         *)
(* Abstractions.                                                           *)
(*  - A transport is one of a few identities, used again once neither      *)
(*    supervise nor a watchdog refers to it.                               *)
(*  - lastRecv is the number of maintain's ticks since, kept up to the     *)
(*    first that surely counts as dead; so is the age of the last ping.    *)
(*    The code compares times: two ticks that are n apart differ by about  *)
(*    n seconds, a little more or less, and a transport heard from n ticks *)
(*    ago has been silent for more than n - 1 and less than n + 1 seconds. *)
(*    So at the very limit either answer may be given.                     *)
(*  - Whatever arrives is an answer to a ping, the sparsest traffic there  *)
(*    is; replies only come on top.                                        *)
(*  - maintain handles each tick of its ticker before the next second is   *)
(*    over; watchdogs and everything else may lag.                         *)
(***************************************************************************)
EXTENDS Integers, FiniteSets

CONSTANTS
    Conns,      \* transports
    KeepAlive,  \* ClientConfig.KeepAlive
    PingCap     \* bound: unanswered pings that are counted

ASSUME TransportAssumption ==
    KeepAlive \in Nat \ {0} /\ PingCap \in Nat /\ PingCap >= 2 /\ "none" \notin Conns

VARIABLES
    conn,       \* c.conn
    lastRecv,   \* seconds since c.lastRecv
    supervisor, \* where supervise is, and the transport it holds
    watchdog,   \* where the watchdog of each transport is
    closed,     \* transports that have been closed
    broken,     \* transports whose far end is gone
    tick,       \* the ticker of maintain: "waiting", "fired", or "ended" with maintain
    lastPing,   \* seconds since maintain's lastPing
    pong,       \* an answer is on its way on the current transport
    die,        \* the local listener has failed: RunClient is over, and c.die closed
    quiet,      \* history, until die: ticks since the transport held was dialled or heard from
    pings       \* history: pings sent on it since

vars == <<conn, lastRecv, supervisor, watchdog, closed, broken, tick, lastPing,
          pong, die, quiet, pings>>

NoConn == "none"
Dead == 3 * KeepAlive
Seconds == 0..(Dead + 1)
Later(n) == IF n > Dead THEN n ELSE n + 1

\* supervise and the watchdogs are where their code can be; ages stop at the first
\* that surely counts as dead.
TransportTypeOK ==
    /\ conn \in Conns \cup {NoConn}
    /\ lastRecv \in Seconds /\ lastPing \in Seconds
    /\ supervisor \in [pc : {"dial", "dialled", "received", "loop", "lost", "ended"},
                       conn : Conns \cup {NoConn}]
    /\ (supervisor.pc \in {"dial", "ended"}) = (supervisor.conn = NoConn)
    /\ watchdog \in [Conns -> {"off", "on", "current"}]
    /\ closed \subseteq Conns /\ broken \subseteq Conns
    /\ tick \in {"waiting", "fired", "ended"} /\ pong \in BOOLEAN /\ die \in BOOLEAN
    /\ quiet \in [Conns -> Seconds] /\ pings \in [Conns -> 0..PingCap]

AtDial == [pc |-> "dial", conn |-> NoConn]

TransportInit ==
    /\ conn = NoConn /\ lastRecv = Dead + 1
    /\ supervisor = AtDial
    /\ watchdog = [g \in Conns |-> "off"]
    /\ closed = {} /\ broken = {}
    /\ tick = "waiting" /\ lastPing = Dead + 1 /\ pong = FALSE /\ die = FALSE
    /\ quiet = [g \in Conns |-> 0] /\ pings = [g \in Conns |-> 0]

-----------------------------------------------------------------------------
(* supervise *)

Free(g) == g # conn /\ g # supervisor.conn /\ watchdog[g] = "off"

\* Dial succeeds and the transport is handed out.
Dial ==
    /\ supervisor.pc = "dial"
    /\ \E g \in Conns :
        /\ Free(g)
        /\ conn' = g
        /\ supervisor' = [pc |-> "dialled", conn |-> g]
        /\ closed' = closed \ {g} /\ broken' = broken \ {g}
        /\ quiet' = [quiet EXCEPT ![g] = 0] /\ pings' = [pings EXCEPT ![g] = 0]
    /\ pong' = FALSE
    /\ UNCHANGED <<lastRecv, watchdog, tick, lastPing, die>>

\* Dial fails: it is tried again a second later, unless c.die is closed.
DialFails ==
    /\ supervisor.pc = "dial" /\ die
    /\ supervisor' = [pc |-> "ended", conn |-> NoConn]
    /\ UNCHANGED <<conn, lastRecv, watchdog, closed, broken, tick, lastPing, pong, quiet, pings, die>>

\* Mutant: a new transport inherits the silence of the last.
Dialled_NoTouch ==
    /\ supervisor.pc = "dialled"
    /\ supervisor' = [supervisor EXCEPT !.pc = "received"]
    /\ UNCHANGED <<conn, lastRecv, watchdog, closed, broken, tick, lastPing, pong, quiet, pings, die>>

\* touchRecv, before the watchdog looks ...
Dialled ==
    /\ supervisor.pc = "dialled"
    /\ lastRecv' = 0
    /\ supervisor' = [supervisor EXCEPT !.pc = "received"]
    /\ UNCHANGED <<conn, watchdog, closed, broken, tick, lastPing, pong, quiet, pings, die>>

\* ... and then the watchdog, and transportLoop.
StartWatchdog ==
    /\ supervisor.pc = "received"
    /\ watchdog' = [watchdog EXCEPT ![supervisor.conn] = "on"]
    /\ supervisor' = [supervisor EXCEPT !.pc = "loop"]
    /\ UNCHANGED <<conn, lastRecv, closed, broken, tick, lastPing, pong, quiet, pings, die>>

\* transportLoop reads a datagram: touchRecv comes before it is opened.
Receive ==
    /\ supervisor.pc = "loop" /\ pong
    /\ supervisor.conn \notin closed \cup broken
    /\ lastRecv' = 0
    /\ quiet' = [quiet EXCEPT ![supervisor.conn] = 0]
    /\ pings' = [pings EXCEPT ![supervisor.conn] = 0]
    /\ pong' = FALSE
    /\ UNCHANGED <<conn, supervisor, watchdog, closed, broken, tick, lastPing, die>>

\* ReadFrom fails, because the watchdog closed the transport or by itself;
\* the transport is closed (again).
LoopEnds ==
    /\ supervisor.pc = "loop"
    /\ closed' = closed \cup {supervisor.conn}
    /\ supervisor' = [supervisor EXCEPT !.pc = "lost"]
    /\ UNCHANGED <<conn, lastRecv, watchdog, broken, tick, lastPing, pong, quiet, pings, die>>

\* Mutant: the dead transport stays handed out until the next dial.
Withdraw_Not ==
    /\ supervisor.pc = "lost"
    /\ supervisor' = AtDial
    /\ UNCHANGED <<conn, lastRecv, watchdog, closed, broken, tick, lastPing, pong, quiet, pings, die>>

\* "Stop handing this one out before redialing"; supervise ends if c.die is closed.
Withdraw ==
    /\ supervisor.pc = "lost"
    /\ conn' = NoConn
    /\ supervisor' = [pc |-> IF die THEN "ended" ELSE "dial", conn |-> NoConn]
    /\ quiet' = [quiet EXCEPT ![supervisor.conn] = 0]
    /\ pings' = [pings EXCEPT ![supervisor.conn] = 0]
    /\ UNCHANGED <<lastRecv, watchdog, closed, broken, tick, lastPing, pong, die>>

-----------------------------------------------------------------------------
(* The watchdog of transport g, at a tick of its own *)

WatchdogLooks(g) ==
    /\ watchdog[g] = "on"
    /\ watchdog' = [watchdog EXCEPT ![g] = IF conn = g THEN "current" ELSE "off"]
    /\ UNCHANGED <<conn, lastRecv, supervisor, closed, broken, tick, lastPing, pong, quiet, pings, die>>

\* The watchdog's select finds c.die closed.
WatchdogEnds(g) ==
    /\ watchdog[g] = "on" /\ die
    /\ watchdog' = [watchdog EXCEPT ![g] = "off"]
    /\ UNCHANGED <<conn, lastRecv, supervisor, closed, broken, tick, lastPing, pong, quiet, pings, die>>

\* Mutant: two intervals may be taken for dead.
MayBeDead_Early == lastRecv >= 2 * KeepAlive

\* The time since lastRecv is more than "dead", as far as ticks can tell ...
MayBeDead == lastRecv >= Dead

\* ... and beyond doubt.
SurelyDead == lastRecv > Dead

Drop(g) == MayBeDead /\ closed' = closed \cup {g}
KeepOn == ~SurelyDead /\ UNCHANGED closed

\* Mutant: one look at a live transport is enough.
WatchdogDecides_Once(g) ==
    /\ watchdog[g] = "current"
    /\ Drop(g) \/ KeepOn
    /\ watchdog' = [watchdog EXCEPT ![g] = "off"]
    /\ UNCHANGED <<conn, lastRecv, supervisor, broken, tick, lastPing, pong, quiet, pings, die>>

\* It drops the transport and ends, or waits for its next tick.
WatchdogDecides(g) ==
    /\ watchdog[g] = "current"
    /\ \/ Drop(g) /\ watchdog' = [watchdog EXCEPT ![g] = "off"]
       \/ KeepOn /\ watchdog' = [watchdog EXCEPT ![g] = "on"]
    /\ UNCHANGED <<conn, lastRecv, supervisor, broken, tick, lastPing, pong, quiet, pings, die>>

-----------------------------------------------------------------------------
(* maintain, localLoop, and the world *)

\* A ping is due: lastPing moves on even if there is nothing to write to.  The
\* server answers a ping at once, unless either is lost.
PingDue ==
    /\ lastPing >= KeepAlive /\ lastPing' = 0
    /\ IF conn = NoConn THEN UNCHANGED <<pings, pong>>
       ELSE /\ pings' = IF die THEN pings ELSE [pings EXCEPT ![conn] = IF @ < PingCap THEN @ + 1 ELSE @]
            /\ pong' \in {pong, conn \notin broken \cup closed}

\* Between ticks that are KeepAlive apart a little less may have passed, and the
\* ping has to wait for the next.
NoPing == lastPing <= KeepAlive /\ UNCHANGED <<lastPing, pings, pong>>

\* A tick of maintain.
Maintain ==
    /\ tick = "fired" /\ tick' = "waiting"
    /\ PingDue \/ NoPing
    /\ UNCHANGED <<conn, lastRecv, supervisor, watchdog, closed, broken, quiet, die>>

\* maintain's select finds c.die closed: it pings no more.
MaintainEnds ==
    /\ tick # "ended" /\ die /\ tick' = "ended"
    /\ UNCHANGED <<conn, lastRecv, supervisor, watchdog, closed, broken, lastPing, pong, quiet, pings, die>>

\* localLoop ends, and RunClient with it.
LocalFails ==
    /\ ~die /\ die' = TRUE
    /\ quiet' = [g \in Conns |-> 0] /\ pings' = [g \in Conns |-> 0]
    /\ UNCHANGED <<conn, lastRecv, supervisor, watchdog, closed, broken, tick, lastPing, pong>>

\* A second passes.
Second ==
    /\ tick # "fired" /\ tick' = IF tick = "ended" THEN "ended" ELSE "fired"
    /\ lastRecv' = Later(lastRecv) /\ lastPing' = Later(lastPing)
    /\ quiet' = [g \in Conns |-> IF g = supervisor.conn /\ ~die THEN Later(quiet[g]) ELSE quiet[g]]
    /\ UNCHANGED <<conn, supervisor, watchdog, closed, broken, pong, pings, die>>

\* The far end of the transport goes for good: its server restarts.
Break ==
    /\ conn # NoConn /\ conn \notin broken
    /\ broken' = broken \cup {conn} /\ pong' = FALSE
    /\ UNCHANGED <<conn, lastRecv, supervisor, watchdog, closed, tick, lastPing, quiet, pings, die>>

Next ==
    \/ Dial \/ DialFails \/ Dialled \/ StartWatchdog \/ Receive \/ LoopEnds \/ Withdraw
    \/ \E g \in Conns : WatchdogLooks(g) \/ WatchdogDecides(g) \/ WatchdogEnds(g)
    \/ Maintain \/ MaintainEnds \/ LocalFails \/ Second \/ Break

Spec == TransportInit /\ [][Next]_vars

\* Goroutines and tickers run, a read of a closed transport fails, and Dial
\* succeeds in the end.
Fairness ==
    /\ WF_vars(Dial) /\ WF_vars(Dialled) /\ WF_vars(StartWatchdog) /\ WF_vars(Withdraw)
    /\ WF_vars(supervisor.conn \in closed /\ LoopEnds)
    /\ \A g \in Conns : WF_vars(WatchdogLooks(g) \/ WatchdogEnds(g)) /\ WF_vars(WatchdogDecides(g))
    /\ WF_vars(Maintain \/ MaintainEnds) /\ WF_vars(Second)

FairSpec == Spec /\ Fairness

-----------------------------------------------------------------------------
(* Properties *)

\* The step is the watchdog's, and it is what ends the transport.
DropsBy(g) == watchdog[g] = "current" /\ watchdog'[g] = "off" /\ g \notin closed

\* The heartbeats that go out in three intervals however the ticks fall.
Heartbeats == IF KeepAlive >= 3 THEN 2 ELSE 1

\* The watchdog drops a transport for its own silence, never for what was heard, or
\* not heard, on the one before, and not for a single heartbeat, or its answer, lost:
\* pings put off by a tick may leave two in three intervals, but not fewer.
DroppedForItsSilence ==
    [][\A g \in Conns : DropsBy(g) /\ ~die => quiet[g] >= Dead /\ pings[g] >= Heartbeats]_vars

\* While supervise dials, nothing is written to the transport it gave up.
NoneHandedOut == supervisor.pc \in {"dial", "ended"} => conn = NoConn

\* "a dead transport is replaced, not fatal": one whose far end is gone is
\* given up, and another one found.
DeadReplaced ==
    \A g \in Conns : (conn = g /\ g \in broken) ~> ((conn # NoConn /\ conn \notin broken) \/ die)

\* supervise and its transports at every step: typed, and none handed out that
\* was given up.
WatchInv == TransportTypeOK /\ NoneHandedOut

=============================================================================
