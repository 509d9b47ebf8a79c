------------------------------- MODULE Server -------------------------------
(***************************************************************************)
(* The server process with its sessions (server/main.go over kcp-go): the  *)
(* function loop takes sessions from a listener and starts a handleMux for *)
(* each, which closes the session when its streams can no longer be        *)
(* accepted.  A session enters the updater when monitor makes it and       *)
(* leaves it when its Close begins.  Listener and Updater meet at the two  *)
(* kinds of mutex that all goroutines wait for: h.mu of the updater, which *)
(* updateTask holds while it waits for the s.mu of a session.              *)
(*                                                                         *)
(* Abstractions.                                                           *)
(*  - smux is external: its session dies at any time, and then closes the  *)
(*    connection below it, once; the streams are in Tunnel.                *)
(*  - The second stack, which -tcp adds, is another such listener.         *)
(***************************************************************************)
EXTENDS Updater

CONSTANTS
    Addrs, Fec, Backlog, MaxSess    \* of Listener

Waiting == 0

ASSUME ServerAssumption ==
    /\ Fec \in BOOLEAN
    /\ Backlog \in Nat \ {0}
    /\ MaxSess \in Nat /\ Sessions = 1..MaxSess

VARIABLES
    sessions, chAccepts, sess, monitor, accepted, begun, closing, isClosed,  \* of Listener
    loop,       \* the session that loop sets up, or Waiting in AcceptKCP
    muxes       \* sessions with a handleMux

L == INSTANCE Listener WITH Closers <- Sessions,
                            updating <- {s \in Sessions : updaterIdx[s] # 0}

tables == <<sessions, chAccepts, sess, monitor, accepted, begun, closing, isClosed>>
main == <<loop, muxes>>
serverVars == <<vars, tables, main>>

\* loop and the handlers have sessions that AcceptKCP returned.
ServerTypeOK == loop \in accepted \cup {Waiting} /\ muxes \subseteq accepted

ServerInit ==
    /\ Init /\ L!Init
    /\ loop = Waiting /\ muxes = {}

-----------------------------------------------------------------------------
(* kcp-go's goroutines *)

\* newUDPSession adds the session to the updater under h.mu.
New == monitor.at = "new" /\ Add(Len(sess) + 1) /\ L!New /\ UNCHANGED main

\* addSession has called wakeup before the rest of packetInput goes on.
Register == monitor.at \in {"register", "offer"} /\ waking = {} /\ UNCHANGED <<vars, main>> /\ L!RegisterThenOffer

\* kcpInput takes s.mu, also that of a session that was closed meanwhile.
Input == monitor.at = "input" /\ monitor.s \notin busy /\ UNCHANGED <<vars, main>> /\ L!Input

Monitor ==
    \/ New \/ Register \/ Input
    \/ monitor.at = "new" /\ UNCHANGED <<vars, main>> /\ L!Refuse

Network ==
    /\ UNCHANGED <<vars, main>>
    /\ \E d \in L!Datagram : L!Read(d)

UpdaterStep(A) == A /\ UNCHANGED <<tables, main>>

\* A goroutine that uses a session takes its s.mu, whether or not it was closed.
Use(s) == s <= Len(sess) /\ UpdaterStep(Lock(s))

\* The two sections of Close that come after removeSession.
CloseGoesOn(s) ==
    \/ closing[s].at = "unmap" /\ UNCHANGED <<vars, main>> /\ L!CloseSession(s)
    \/ closing[s].at = "mark" /\ Mark(s) /\ L!Mark(s) /\ UNCHANGED main

-----------------------------------------------------------------------------
(* server/main.go *)

\* AcceptKCP returns a session.
Accept ==
    /\ loop = Waiting /\ UNCHANGED <<vars, muxes>>
    /\ L!AcceptKCP /\ loop' = Head(chAccepts)

\* The settings, each under s.mu, and go handleMux.
Handle ==
    /\ loop \in Sessions \ busy
    /\ loop' = Waiting /\ muxes' = muxes \cup {loop}
    /\ UNCHANGED <<vars, tables>>

\* AcceptStream fails: mux.Close, which calls the session's Close.
MuxEnds(s) ==
    /\ s \in muxes
    /\ Remove(s) /\ L!Close(s, s) /\ UNCHANGED main

ServerNext ==
    \/ Monitor \/ Network
    \/ \E s \in Sessions : \/ UpdaterStep(Wakeup(s)) \/ Use(s) \/ UpdaterStep(Unlock(s))
                           \/ MuxEnds(s) \/ CloseGoesOn(s)
    \/ UpdaterStep(Task) \/ UpdaterStep(Fire) \/ UpdaterStep(Tick)
    \/ Accept \/ Handle

ServerSpec == ServerInit /\ [][ServerNext]_serverVars

\* The fairness of the two parts.  The waiters for h.mu and s.mu get them in the
\* end, as sync.Mutex sees to: strong fairness.  Nobody has to call Close.
ServerFairness ==
    /\ WF_serverVars(UpdaterStep(Select \/ TakeMu \/ HeadIsDue \/ Done)) /\ SF_serverVars(UpdaterStep(Update))
    /\ WF_serverVars(UpdaterStep(Fire)) /\ WF_serverVars(UpdaterStep(Tick))
    /\ \A s \in Sessions : /\ WF_serverVars(UpdaterStep(Wakeup(s))) /\ WF_serverVars(UpdaterStep(Unlock(s)))
                           /\ SF_serverVars(CloseGoesOn(s))
    /\ SF_serverVars(Monitor)

FairServerSpec == ServerSpec /\ ServerFairness

-----------------------------------------------------------------------------
(* Properties *)

\* The table, the backlog, the updater and the sessions agree through every race of
\* monitor, loop, the handlers' Close and updateTask.
ServerInv == ServerTypeOK /\ L!ListenerInv

\* monitor, which serves every session, does not wait for AcceptKCP, and gets h.mu and
\* s.mu; a Close that has begun ends, although updateTask holds h.mu while it waits for
\* some session's s.mu.
NobodyStuck ==
    /\ L!MonitorReturns
    /\ \A s \in Sessions : (s \in begun) ~> (s \in isClosed)

=============================================================================
