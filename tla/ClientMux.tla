----------------------------- MODULE ClientMux -----------------------------
(***************************************************************************)
(* The client's multiplexing (client/main.go): the main goroutine deals    *)
(* accepted TCP connections out to its slots in turn, each with a session  *)
(* to the server; a session that has died or expired is handed to the      *)
(* scavenger and replaced; handleClient opens a stream in the session it   *)
(* was given; the scavenger closes retired sessions.                       *)
(*                                                                         *)
(* Abstractions.                                                           *)
(*  - A session is a number and whether it is closed.  smux closes one by  *)
(*    itself when its keepalives fail (Die); its streams end with it.      *)
(*  - The copying of a connection is one step that ends it.                *)
(*  - sessionList is a set: its order decides nothing, and no session is   *)
(*    retired twice.                                                       *)
(***************************************************************************)
EXTENDS Integers, Sequences, FiniteSetsExt

CONSTANTS
    numconn,      \* sessions to the server
    Conns,        \* TCP connections
    AutoExpire,   \* seconds until a session is replaced, 0 for never
    ScavengeTTL,  \* seconds a retired session may live, -1 for any time
    Cap,          \* capacity of chScavenger
    RRSpace,      \* 2^16, the range of rr
    MaxSess       \* bound: sessions made in all

None == "none"
Slots == 0..(numconn - 1)
Ids == 1..MaxSess

ASSUME ConstantsAssumption ==
    /\ numconn \in Nat \ {0} /\ AutoExpire \in Nat /\ ScavengeTTL \in Nat \cup {-1}
    /\ Cap \in Nat \ {0} /\ RRSpace \in Nat \ {0} /\ MaxSess \in Nat /\ MaxSess >= numconn
    /\ None \notin Conns

VARIABLES
    muxes,        \* session of each slot and its age, up to the first that has expired
    made,         \* sessions made so far
    closed,       \* sessions that are closed
    rr,           \* connections dealt out
    main,         \* where the main goroutine is: "accept", "check", "wait" or "spawn"
    p1,           \* the connection it holds
    handler,      \* where handleClient of each connection is: "none", "start", "copy" or "done"
    given,        \* the session it was given
    chScavenger,  \* sessions on their way to the scavenger
    sessionList,  \* sessions the scavenger holds, with their age
    ticked        \* its ticker has a value

vars == <<muxes, made, closed, rr, main, p1, handler, given, chScavenger, sessionList, ticked>>

Busy(s) == {c \in Conns : handler[c] = "copy" /\ given[c] = s}
SlotSessions == {muxes[k].session : k \in Slots}
OnTheirWay == {chScavenger[i] : i \in DOMAIN chScavenger}
Retired == OnTheirWay \cup {x.session : x \in sessionList}

\* Slots, channel and list hold sessions that were made; the main goroutine and the
\* handlers are at one of their statements.
TypeOK ==
    /\ muxes \in [Slots -> [session : Ids, age : 0..(AutoExpire + 1)]]
    /\ made \in Ids /\ closed \subseteq 1..made /\ rr \in 0..(RRSpace - 1)
    /\ main \in {"accept", "check", "wait", "spawn"} /\ p1 \in Conns \cup {None}
    /\ handler \in [Conns -> {"none", "start", "copy", "done"}]
    /\ given \in [Conns -> 0..made]
    /\ chScavenger \in Seq(1..made) /\ Len(chScavenger) <= Cap
    /\ sessionList \subseteq [session : 1..made, age : Nat]
    /\ ticked \in BOOLEAN

\* The slots have been filled.
Init ==
    /\ muxes = [k \in Slots |-> [session |-> k + 1, age |-> 0]]
    /\ made = numconn /\ closed = {} /\ rr = 0 /\ main = "accept" /\ p1 = None
    /\ handler = [c \in Conns |-> "none"] /\ given = [c \in Conns |-> 0]
    /\ chScavenger = <<>> /\ sessionList = {} /\ ticked = FALSE

-----------------------------------------------------------------------------
(* The main goroutine *)

idx == rr % numconn

Accept(c) ==
    /\ main = "accept" /\ handler[c] = "none" /\ p1' = c /\ main' = "check"
    /\ UNCHANGED <<muxes, made, closed, rr, handler, given, chScavenger, sessionList, ticked>>

\* "auto expiration && reconnection".
Expired(k) ==
    \/ muxes[k].session \in closed
    \/ AutoExpire > 0 /\ muxes[k].age > AutoExpire

\* Mutant: the retired session is dealt out once more.
AfterRetire_Spawn == "spawn"

\* A retired session is replaced before anything else.
AfterRetire == "wait"

Check ==
    /\ main = "check"
    /\ IF Expired(idx)
       THEN /\ Len(chScavenger) < Cap
            /\ chScavenger' = Append(chScavenger, muxes[idx].session)
            /\ main' = AfterRetire
       ELSE main' = "spawn" /\ UNCHANGED chScavenger
    /\ UNCHANGED <<muxes, made, closed, rr, p1, handler, given, sessionList, ticked>>

\* waitConn, once createConn succeeds.
Connect ==
    /\ main = "wait" /\ made < MaxSess
    /\ made' = made + 1
    /\ muxes' = [muxes EXCEPT ![idx] = [session |-> made + 1, age |-> 0]]
    /\ main' = "spawn"
    /\ UNCHANGED <<closed, rr, p1, handler, given, chScavenger, sessionList, ticked>>

\* rr++ of a uint16.
NextRR(n) == (n + 1) % RRSpace

\* go handleClient.
Spawn ==
    /\ main = "spawn"
    /\ handler' = [handler EXCEPT ![p1] = "start"]
    /\ given' = [given EXCEPT ![p1] = muxes[idx].session]
    /\ rr' = NextRR(rr)
    /\ main' = "accept" /\ p1' = None
    /\ UNCHANGED <<muxes, made, closed, chScavenger, sessionList, ticked>>

-----------------------------------------------------------------------------
(* handleClient *)

\* OpenStream, which fails if the session is closed: the connection is closed.
OpenStream(c) ==
    /\ handler[c] = "start"
    /\ IF given[c] \in closed
       THEN handler' = [handler EXCEPT ![c] = "done"]
       ELSE handler' = [handler EXCEPT ![c] = "copy"]
    /\ UNCHANGED <<muxes, made, closed, rr, main, p1, given, chScavenger, sessionList, ticked>>

\* One direction of the copying has ended; both ends are closed.
Finish(c) ==
    /\ handler[c] = "copy"
    /\ handler' = [handler EXCEPT ![c] = "done"]
    /\ UNCHANGED <<muxes, made, closed, rr, main, p1, given, chScavenger, sessionList, ticked>>

-----------------------------------------------------------------------------
(* The scavenger *)

Receive ==
    /\ chScavenger # <<>>
    /\ chScavenger' = Tail(chScavenger)
    /\ sessionList' = sessionList \cup {[session |-> Head(chScavenger), age |-> 0]}
    /\ UNCHANGED <<muxes, made, closed, rr, main, p1, handler, given, ticked>>

\* Whether the scavenger closes entry x at a tick.
Closes(x) ==
    \/ Busy(x.session) = {} \/ x.session \in closed
    \/ ScavengeTTL >= 0 /\ x.age >= ScavengeTTL

\* Mutant: what is closed and what is dropped are not the same.
Kept_Idle(x) == ~Closes(x) /\ Cardinality(Busy(x.session)) > 1

\* An entry that goes into newList.
Kept(x) == ~Closes(x)

Scan ==
    /\ ticked /\ ticked' = FALSE
    /\ closed' = closed \cup {x.session : x \in {y \in sessionList : Closes(y)}}
    /\ sessionList' = {x \in sessionList : Kept(x)}
    /\ handler' = [c \in Conns |-> IF handler[c] = "copy" /\ given[c] \in closed' THEN "done" ELSE handler[c]]
    /\ UNCHANGED <<muxes, made, rr, main, p1, given, chScavenger>>

-----------------------------------------------------------------------------
(* smux and the clock *)

\* A session's keepalives fail or the server closes it.
Die(s) ==
    /\ s \in (1..made) \ closed
    /\ closed' = closed \cup {s}
    /\ handler' = [c \in Conns |-> IF handler[c] = "copy" /\ given[c] = s THEN "done" ELSE handler[c]]
    /\ UNCHANGED <<muxes, made, rr, main, p1, given, chScavenger, sessionList, ticked>>

\* A second passes, and the ticker has a value, which it keeps if it has one.
Second ==
    /\ ticked' = TRUE
    /\ muxes' = [k \in Slots |-> [muxes[k] EXCEPT !.age = Min({@ + 1, AutoExpire + 1})]]
    /\ sessionList' = {[session |-> x.session, age |-> Min({x.age + 1, ScavengeTTL + 1})] : x \in sessionList}
    /\ UNCHANGED <<made, closed, rr, main, p1, handler, given, chScavenger>>

Next ==
    \/ \E c \in Conns : Accept(c) \/ OpenStream(c) \/ Finish(c)
    \/ Check \/ Connect \/ Spawn
    \/ Receive \/ Scan
    \/ \E s \in Ids : Die(s)
    \/ Second

\* The goroutines are scheduled, time passes and the server can be reached.
\* Nothing makes a stream end.
Fairness ==
    /\ WF_vars(Check) /\ WF_vars(Connect) /\ WF_vars(Spawn)
    /\ \A c \in Conns : WF_vars(OpenStream(c))
    /\ WF_vars(Receive) /\ WF_vars(Scan) /\ WF_vars(Second)

Spec == Init /\ [][Next]_vars

FairSpec == Spec /\ Fairness

-----------------------------------------------------------------------------
(* Properties *)

\* Every session that is not closed is in a slot or in the scavenger's hands:
\* none is forgotten with its socket and its goroutines.
OpenTracked ==
    \A s \in (1..made) \ closed : s \in SlotSessions \cup Retired

\* A session in a slot is not in the scavenger's hands, unless the main
\* goroutine is about to replace it: the scavenger closes none that is dealt out.
SlotsNotRetired ==
    \A k \in Slots : muxes[k].session \in Retired => main = "wait" /\ k = idx

\* A retired session is closed, by its time limit if not before.
RetiredClosed == \A s \in Ids : (s \in Retired) ~> (s \in closed)

\* The slots and the scavenger's list share out the sessions that are open:
\* typed, none forgotten, none in both.
MuxInv == TypeOK /\ OpenTracked /\ SlotsNotRetired

=============================================================================
