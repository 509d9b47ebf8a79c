------------------------------ MODULE Listener ------------------------------
(***************************************************************************)
(* The listener (third_party/kcp-go/sess.go): the goroutine monitor hands  *)
(* each datagram to the session of its source address and makes a session  *)
(* for an address that has none; AcceptKCP takes new sessions from the     *)
(* backlog; a session's Close takes it out of the table by its address.    *)
(* It runs as a part of Server, which keeps the sessions' updater.         *)
(*                                                                         *)
(* Abstractions.                                                           *)
(*  - Of a datagram: its source, and whether it is FEC parity, which has   *)
(*    no conversation in the clear.                                        *)
(*  - Of a session: its address; what Input does is KCP.tla.  The updater  *)
(*    is a set (Updater.tla).                                              *)
(*  - Decryption, checksum and the length tests pass; the listener, which  *)
(*    nothing in the program closes, and AcceptKCP do not fail.            *)
(***************************************************************************)
EXTENDS Integers, Sequences, FiniteSets

CONSTANTS
    Addrs,      \* addresses of peers
    Fec,        \* l.fecDecoder # nil
    Backlog,    \* acceptBacklog
    MaxSess,    \* bound: sessions made in all
    Closers     \* goroutines that close sessions

None == 0

Ids == 1..MaxSess

VARIABLES
    sessions,   \* the table: the session of an address
    chAccepts,  \* the backlog
    sess,       \* the addresses of the sessions made so far, by number
    monitor,    \* where monitor is, with the datagram and the session it holds
    accepted,   \* sessions that AcceptKCP returned
    updating,   \* sessions in the updater
    begun,      \* sessions a Close has been called for
    closing,    \* where each closer is, with its session
    isClosed    \* sessions with isClosed set

vars == <<sessions, chAccepts, sess, monitor, accepted, updating, begun, closing, isClosed>>

Datagram == [addr : Addrs, parity : {FALSE, Fec}]
AtRead == [at |-> "read"]
Idle == [at |-> "idle"]

\* The table and the backlog hold sessions that monitor made; monitor and the closers
\* are at one of their statements.
TypeOK ==
    /\ sessions \in [Addrs -> Ids \cup {None}]
    /\ sess \in Seq(Addrs) /\ Len(sess) <= MaxSess
    /\ chAccepts \in Seq(1..Len(sess)) /\ Len(chAccepts) <= Backlog
    /\ monitor \in {AtRead}
                   \cup [at : {"new"}, d : Datagram]
                   \cup [at : {"input", "register", "offer"}, s : 1..Len(sess)]
    /\ {accepted, updating, begun, isClosed} \subseteq SUBSET (1..Len(sess))
    /\ closing \in [Closers -> {Idle} \cup [at : {"unmap", "mark"}, s : 1..Len(sess)]]

Init ==
    /\ sessions = [a \in Addrs |-> None] /\ chAccepts = <<>> /\ sess = <<>>
    /\ monitor = AtRead
    /\ accepted = {} /\ updating = {} /\ begun = {} /\ isClosed = {}
    /\ closing = [c \in Closers |-> Idle]

-----------------------------------------------------------------------------
(* monitor *)

\* conn.ReadFrom returns a datagram; packetInput looks its session up under sessionLock.
Read(d) ==
    /\ monitor = AtRead /\ (sessions[d.addr] = None => Len(sess) < MaxSess)
    /\ LET s == sessions[d.addr]
       IN  monitor' = IF s = None THEN [at |-> "new", d |-> d] ELSE [at |-> "input", s |-> s]
    /\ UNCHANGED <<sessions, chAccepts, sess, accepted, updating, begun, closing, isClosed>>

\* kcpInput of the session that was found, which may have been closed since.
Input ==
    /\ monitor.at = "input"
    /\ monitor' = AtRead
    /\ UNCHANGED <<sessions, chAccepts, sess, accepted, updating, begun, closing, isClosed>>

\* convValid: "only if the 'conv' field in kcp is accessible".
convValid(d) == ~d.parity

\* Mutant: one session too many.
Room_Full == Len(chAccepts) <= Backlog

\* "do not let the new sessions overwhelm accept queue".
Room == Len(chAccepts) < Backlog

\* newUDPSession, which joins the updater, and the first kcpInput.
New ==
    /\ monitor.at = "new" /\ Room /\ convValid(monitor.d)
    /\ LET s == Len(sess) + 1
       IN  /\ sess' = Append(sess, monitor.d.addr)
           /\ updating' = updating \cup {s}
           /\ monitor' = [at |-> "register", s |-> s]
    /\ UNCHANGED <<sessions, chAccepts, accepted, begun, closing, isClosed>>

\* The backlog is full, or there is no conversation: the datagram is dropped.
Refuse ==
    /\ monitor.at = "new" /\ (~Room \/ ~convValid(monitor.d))
    /\ monitor' = AtRead
    /\ UNCHANGED <<sessions, chAccepts, sess, accepted, updating, begun, closing, isClosed>>

\* Mutant: the session is offered before it is in the table.
RegisterThenOffer_Reversed ==
    /\ monitor.at \in {"register", "offer"}
    /\ IF monitor.at = "register"
       THEN /\ Len(chAccepts) < Backlog
            /\ chAccepts' = Append(chAccepts, monitor.s)
            /\ monitor' = [monitor EXCEPT !.at = "offer"]
            /\ UNCHANGED sessions
       ELSE /\ sessions' = [sessions EXCEPT ![sess[monitor.s]] = monitor.s]
            /\ monitor' = AtRead
            /\ UNCHANGED chAccepts
    /\ UNCHANGED <<sess, accepted, updating, begun, closing, isClosed>>

\* The session goes into the table and then into the backlog, a send that
\* blocks while the backlog is full.
RegisterThenOffer ==
    /\ monitor.at \in {"register", "offer"}
    /\ IF monitor.at = "register"
       THEN /\ sessions' = [sessions EXCEPT ![sess[monitor.s]] = monitor.s]
            /\ monitor' = [monitor EXCEPT !.at = "offer"]
            /\ UNCHANGED chAccepts
       ELSE /\ Len(chAccepts) < Backlog
            /\ chAccepts' = Append(chAccepts, monitor.s)
            /\ monitor' = AtRead
            /\ UNCHANGED sessions
    /\ UNCHANGED <<sess, accepted, updating, begun, closing, isClosed>>

Monitor == Input \/ New \/ Refuse \/ RegisterThenOffer

-----------------------------------------------------------------------------
(* The application *)

AcceptKCP ==
    /\ chAccepts # <<>>
    /\ chAccepts' = Tail(chAccepts) /\ accepted' = accepted \cup {Head(chAccepts)}
    /\ UNCHANGED <<sessions, sess, monitor, updating, begun, closing, isClosed>>

\* UDPSession.Close, once for each session: removeSession ...
Close(c, s) ==
    /\ closing[c] = Idle
    /\ s \in accepted /\ s \notin begun
    /\ updating' = updating \ {s} /\ begun' = begun \cup {s}
    /\ closing' = [closing EXCEPT ![c] = [at |-> "unmap", s |-> s]]
    /\ UNCHANGED <<sessions, chAccepts, sess, monitor, accepted, isClosed>>

\* closeSession: what the table has for the address goes.
Unmapped(s) == [sessions EXCEPT ![sess[s]] = None]

CloseSession(c) ==
    /\ closing[c].at = "unmap"
    /\ sessions' = Unmapped(closing[c].s)
    /\ closing' = [closing EXCEPT ![c].at = "mark"]
    /\ UNCHANGED <<chAccepts, sess, monitor, accepted, updating, begun, isClosed>>

\* ... and isClosed under s.mu; only here a second Close is found out.
Mark(c) ==
    /\ closing[c].at = "mark"
    /\ isClosed' = isClosed \cup {closing[c].s}
    /\ closing' = [closing EXCEPT ![c] = Idle]
    /\ UNCHANGED <<sessions, chAccepts, sess, monitor, accepted, updating, begun>>

Next ==
    \/ \E d \in Datagram : Read(d)
    \/ Monitor \/ AcceptKCP
    \/ \E c \in Closers : (\E s \in accepted : Close(c, s)) \/ CloseSession(c) \/ Mark(c)

Spec == Init /\ [][Next]_vars

-----------------------------------------------------------------------------
(* Properties *)

\* A session that AcceptKCP may return or has returned is the one its peer's
\* datagrams go to, until it is closed; so an address has one such session.
OpenReachable ==
    \A s \in (accepted \cup {chAccepts[i] : i \in DOMAIN chAccepts}) \ begun :
        sessions[sess[s]] = s /\ s \in updating

\* Nothing of a closed session stays: neither its entry in the table, where it
\* would swallow a new connection's datagrams, nor its place in the updater.
ClosedGone == \A s \in isClosed : sessions[sess[s]] # s /\ s \notin updating

\* The goroutine that serves every session does not wait for AcceptKCP.
MonitorReturns == (monitor.at # "read") ~> (monitor.at = "read")

\* The table, the backlog and the sessions through every race of monitor,
\* AcceptKCP and Close.
ListenerInv == TypeOK /\ OpenReachable /\ ClosedGone

=============================================================================
