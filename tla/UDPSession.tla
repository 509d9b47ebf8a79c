----------------------------- MODULE UDPSession -----------------------------
(***************************************************************************)
(* The blocking interface of one kcp-go session (third_party/kcp-go/       *)
(* sess.go): the application's goroutines in Read and WriteBuffers against *)
(* the goroutine that feeds datagrams (readLoop, or the listener's monitor *)
(* for an accepted session), the updater, SetDeadline and Close.           *)
(*                                                                         *)
(* Every section under s.mu is one step.  Read and WriteBuffers release    *)
(* the mutex before their select, so a goroutine that found nothing to do  *)
(* acts on what it saw although the session may have changed meanwhile:    *)
(* only a token in chReadEvent / chWriteEvent, the timer it started, an    *)
(* error or the closed die channel brings it back.                         *)
(*                                                                         *)
(* Abstractions.                                                           *)
(*  - Of the KCP block (modelled in KCP.tla) only rcv_queue, the segments  *)
(*    ready to Recv, and WaitSnd() are kept.  Input delivers any number of *)
(*    segments and releases any number of unacknowledged ones.             *)
(*  - A byte is its position in the stream that arrived.                   *)
(*  - die is closed and isClosed set in one section: one variable.         *)
(***************************************************************************)
EXTENDS Integers, Sequences

CONSTANTS
    Readers,      \* goroutines that call Read
    Writers,      \* goroutines that call WriteBuffers
    Accepted,     \* s.l # nil: a session of a listener
    SndWnd,       \* kcp.snd_wnd
    SegLen,       \* bytes in a received segment
    MaxInput,     \* bound: segments one kcpInput makes ready
    MaxWrite,     \* bound: segments one WriteBuffers adds
    MaxArrived,   \* bound: bytes received in all
    MaxWritten,   \* bound: no Write is called after that many segments
    MaxTime,      \* bound: instants of the clock
    MaxSets       \* bound: calls of SetDeadline

ASSUME ConstantsAssumption ==
    /\ Accepted \in BOOLEAN
    /\ SndWnd \in Nat \ {0} /\ SegLen \in Nat \ {0}
    /\ MaxInput \in Nat \ {0} /\ MaxWrite \in Nat \ {0}
    /\ MaxArrived \in Nat /\ MaxWritten \in Nat
    /\ MaxTime \in Nat /\ MaxSets \in Nat
    /\ Readers \cap Writers = {}

VARIABLES
    pc,           \* where each goroutine is: "idle", "check" or "select"
    timer,        \* instant at which the timer it started fires
    now,          \* the clock
    rd,           \* read deadline
    wd,           \* write deadline
    sets,         \* calls of SetDeadline so far
    closed,       \* isClosed, and die is closed
    readEvent,    \* chReadEvent holds its token
    writeEvent,   \* chWriteEvent holds its token
    readError,    \* chReadError holds the error of the read loop
    writeError,   \* chWriteError holds an error
    looping,      \* readLoop has not ended
    rcv_queue,    \* segments ready to Recv
    bufptr,       \* rest of a segment that Read's buffer could not take
    arrived,      \* bytes that have become ready so far
    returned,     \* history: the bytes Read returned, in order
    waitsnd,      \* kcp.WaitSnd()
    accepted      \* segments accepted by WriteBuffers so far

rcvVars == <<rcv_queue, bufptr, arrived, returned>>
sndVars == <<waitsnd, accepted>>
timeVars == <<now, rd, wd, sets>>
vars == <<pc, timer, now, rd, wd, sets, closed, readEvent, writeEvent,
          readError, writeError, looping, rcv_queue, bufptr, arrived, returned,
          waitsnd, accepted>>

Threads == Readers \cup Writers
Never == MaxTime + 1   \* the zero time.Time of an unset deadline, and no timer
Deadline == 0..Never

\* Calls are idle, about to look or asleep; channels, deadlines and queues have their
\* types.
TypeOK ==
    /\ pc \in [Threads -> {"idle", "check", "select"}]
    /\ timer \in [Threads -> Deadline]
    /\ now \in 0..MaxTime /\ rd \in Deadline /\ wd \in Deadline /\ sets \in 0..MaxSets
    /\ {closed, readEvent, writeEvent, readError, writeError, looping} \subseteq BOOLEAN
    /\ rcv_queue \in Seq(Seq(Nat)) /\ bufptr \in Seq(Nat)
    /\ arrived \in 0..MaxArrived /\ returned \in Seq(Nat)
    /\ waitsnd \in Nat /\ accepted \in Nat

Init ==
    /\ pc = [t \in Threads |-> "idle"]
    /\ timer = [t \in Threads |-> Never]
    /\ now = 0 /\ rd = Never /\ wd = Never /\ sets = 0
    /\ closed = FALSE
    /\ readEvent = FALSE /\ writeEvent = FALSE
    /\ readError = FALSE /\ writeError = FALSE
    /\ looping = ~Accepted
    /\ rcv_queue = <<>> /\ bufptr = <<>> /\ arrived = 0 /\ returned = <<>>
    /\ waitsnd = 0 /\ accepted = 0

-----------------------------------------------------------------------------
(* Read *)

PeekSize(queue) == IF queue = <<>> THEN 0 ELSE Len(Head(queue))

Call(t) ==
    /\ pc[t] = "idle"
    /\ t \in Writers => accepted < MaxWritten
    /\ pc' = [pc EXCEPT ![t] = "check"]
    /\ UNCHANGED <<timer, closed, readEvent, writeEvent, readError, writeError,
                   looping, rcvVars, sndVars, timeVars>>

\* copy(b, from): the first n bytes go to the caller, the rest stays.
Hand(r, n, from, queue) ==
    LET k == IF n <= Len(from) THEN n ELSE Len(from) IN
    /\ returned' = returned \o SubSeq(from, 1, k)
    /\ bufptr' = SubSeq(from, k + 1, Len(from))
    /\ rcv_queue' = queue
    /\ pc' = [pc EXCEPT ![r] = "idle"]
    /\ UNCHANGED <<timer, arrived>>

\* Mutant: a short read that does not look at bufptr first.
TakeData_OverwritesRest(r, n) ==
    /\ bufptr # <<>> \/ ~closed
    /\ IF PeekSize(rcv_queue) > 0
       THEN Hand(r, n, Head(rcv_queue), Tail(rcv_queue))
       ELSE bufptr # <<>> /\ Hand(r, n, bufptr, rcv_queue)

\* The rest of an earlier segment comes first, whatever has happened since,
\* then, unless the session is closed, the next segment.
TakeData(r, n) ==
    IF bufptr # <<>>
    THEN Hand(r, n, bufptr, rcv_queue)
    ELSE /\ ~closed
         /\ PeekSize(rcv_queue) > 0
         /\ Hand(r, n, Head(rcv_queue), Tail(rcv_queue))

\* Mutant: the deadline is left to the timer alone.
GiveUpOrWait_NeverTimesOut(t, deadline) ==
    /\ pc' = [pc EXCEPT ![t] = IF closed THEN "idle" ELSE "select"]
    /\ timer' = [timer EXCEPT ![t] = IF closed THEN Never ELSE deadline]

\* Nothing can be returned: a closed session and a deadline that has passed
\* end the call, otherwise it goes to its select with a timer for the deadline.
GiveUpOrWait(t, deadline) ==
    LET over == closed \/ now > deadline IN
    /\ pc' = [pc EXCEPT ![t] = IF over THEN "idle" ELSE "select"]
    /\ timer' = [timer EXCEPT ![t] = IF over THEN Never ELSE deadline]

\* The section of Read under s.mu.
ReadCheck(r) ==
    /\ pc[r] = "check"
    /\ \/ \E n \in 1..SegLen : TakeData(r, n)
       \/ /\ bufptr = <<>>
          /\ closed \/ PeekSize(rcv_queue) = 0
          /\ GiveUpOrWait(r, rd)
          /\ UNCHANGED rcvVars
    /\ UNCHANGED <<closed, readEvent, writeEvent, readError, writeError, looping,
                   sndVars, timeVars>>

\* The select of Read and of WriteBuffers: any alternative that is ready.
Wake(t, pc1) ==
    /\ pc[t] = "select"
    /\ pc' = [pc EXCEPT ![t] = pc1]
    /\ timer' = [timer EXCEPT ![t] = Never]

ReadSelect(r) ==
    /\ \/ readEvent /\ readEvent' = FALSE /\ Wake(r, "check") /\ UNCHANGED readError
       \/ (closed \/ now >= timer[r]) /\ Wake(r, "check") /\ UNCHANGED <<readEvent, readError>>
       \/ readError /\ readError' = FALSE /\ Wake(r, "idle") /\ UNCHANGED readEvent
    /\ UNCHANGED <<closed, writeEvent, writeError, looping, rcvVars, sndVars, timeVars>>

-----------------------------------------------------------------------------
(* WriteBuffers *)

\* output: each datagram that the socket refuses leaves its error, unless
\* one is already waiting in chWriteError.
Output == writeError' \in {writeError, TRUE}

\* The bytes may all fit into the last segment of snd_queue.
Added == (IF waitsnd = 0 THEN 1 ELSE 0)..MaxWrite

\* The section of WriteBuffers under s.mu: with room for one segment the
\* whole buffer is queued and, by default, flushed.
WriteCheck(w) ==
    /\ pc[w] = "check"
    /\ \/ /\ ~closed
          /\ waitsnd < SndWnd
          /\ \E k \in Added :
                /\ waitsnd' = waitsnd + k
                /\ accepted' = accepted + k
          /\ Output
          /\ pc' = [pc EXCEPT ![w] = "idle"]
          /\ UNCHANGED timer
       \/ /\ closed \/ waitsnd >= SndWnd
          /\ GiveUpOrWait(w, wd)
          /\ UNCHANGED <<sndVars, writeError>>
    /\ UNCHANGED <<closed, readEvent, writeEvent, readError, looping, rcvVars, timeVars>>

WriteSelect(w) ==
    /\ \/ writeEvent /\ writeEvent' = FALSE /\ Wake(w, "check") /\ UNCHANGED writeError
       \/ (closed \/ now >= timer[w]) /\ Wake(w, "check") /\ UNCHANGED <<writeEvent, writeError>>
       \/ writeError /\ writeError' = FALSE /\ Wake(w, "idle") /\ UNCHANGED writeEvent
    /\ UNCHANGED <<closed, readEvent, readError, looping, rcvVars, sndVars, timeVars>>

-----------------------------------------------------------------------------
(* The goroutines behind the session *)

\* The next k segments of the stream.
Segments(k) == [i \in 1..k |-> [j \in 1..SegLen |-> arrived + (i - 1) * SegLen + j]]

\* Mutant: a segment released by its ack and by una is counted twice.
KcpInputOf_CountsTwice(released) ==
    \E k \in 0..MaxInput, a \in released :
        /\ arrived + k * SegLen <= MaxArrived
        /\ rcv_queue' = rcv_queue \o Segments(k)
        /\ arrived' = arrived + k * SegLen
        /\ waitsnd' = waitsnd - 2 * a

\* Input: k more segments are ready and a are no longer waited for.
KcpInputOf(released) ==
    \E k \in 0..MaxInput, a \in released :
        /\ arrived + k * SegLen <= MaxArrived
        /\ rcv_queue' = rcv_queue \o Segments(k)
        /\ arrived' = arrived + k * SegLen
        /\ waitsnd' = waitsnd - a

\* Mutant: PeekSize is asked before Input.
KcpInput_PeeksFirst ==
    /\ Accepted \/ looping
    /\ KcpInputOf(0..waitsnd)
    /\ readEvent' = (readEvent \/ PeekSize(rcv_queue) > 0)
    /\ writeEvent' = (writeEvent \/ waitsnd' < waitsnd)
    /\ Output
    /\ UNCHANGED <<pc, timer, closed, readError, looping, bufptr, returned, accepted, timeVars>>

\* Mutant: the writer is told only once everything is acknowledged.
KcpInput_WaitsForAll ==
    /\ Accepted \/ looping
    /\ KcpInputOf(0..waitsnd)
    /\ readEvent' = (readEvent \/ PeekSize(rcv_queue') > 0)
    /\ writeEvent' = (writeEvent \/ (waitsnd > 0 /\ waitsnd' = 0))
    /\ Output
    /\ UNCHANGED <<pc, timer, closed, readError, looping, bufptr, returned, accepted, timeVars>>

\* kcpInput for one datagram and what FEC recovered with it.  isClosed is not
\* looked at: a datagram in hand when Close runs is still put in.
KcpInput ==
    /\ Accepted \/ looping
    /\ KcpInputOf(0..waitsnd)
    /\ readEvent' = (readEvent \/ PeekSize(rcv_queue') > 0)
    /\ writeEvent' = (writeEvent \/ waitsnd' < waitsnd)
    /\ Output
    /\ UNCHANGED <<pc, timer, closed, readError, looping, bufptr, returned, accepted, timeVars>>

\* update: flush sends, and never shortens what WaitSnd counts.  Close takes
\* the session off the updater before it sets isClosed.
Update ==
    /\ ~closed
    /\ Output
    /\ UNCHANGED <<pc, timer, closed, readEvent, writeEvent, readError, looping,
                   rcvVars, sndVars, timeVars>>

\* readLoop of a dialled session: ReadFrom fails, of itself or because Close
\* closed the socket.
ReadLoopError ==
    /\ looping
    /\ looping' = FALSE
    /\ readError' = TRUE
    /\ UNCHANGED <<pc, timer, closed, readEvent, writeEvent, writeError,
                   rcvVars, sndVars, timeVars>>

\* Mutant: the new deadline is only for later calls.
SetReadDeadline_Silent(d) ==
    /\ sets < MaxSets /\ sets' = sets + 1
    /\ rd' = d
    /\ UNCHANGED <<pc, timer, now, wd, closed, readEvent, writeEvent, readError,
                   writeError, looping, rcvVars, sndVars>>

\* SetDeadline, SetReadDeadline and SetWriteDeadline: the waiting call is
\* woken to look at its new deadline.
SetReadDeadline(d) ==
    /\ sets < MaxSets /\ sets' = sets + 1
    /\ rd' = d
    /\ readEvent' = TRUE
    /\ UNCHANGED <<pc, timer, now, wd, closed, writeEvent, readError,
                   writeError, looping, rcvVars, sndVars>>

SetWriteDeadline(d) ==
    /\ sets < MaxSets /\ sets' = sets + 1
    /\ wd' = d
    /\ writeEvent' = TRUE
    /\ UNCHANGED <<pc, timer, now, rd, closed, readEvent, readError,
                   writeError, looping, rcvVars, sndVars>>

SetDeadline(d) ==
    /\ sets < MaxSets /\ sets' = sets + 1
    /\ rd' = d /\ wd' = d
    /\ readEvent' = TRUE /\ writeEvent' = TRUE
    /\ UNCHANGED <<pc, timer, now, closed, readError, writeError, looping,
                   rcvVars, sndVars>>

\* The section of Close under s.mu; a second Close only reports an error.
Close ==
    /\ ~closed
    /\ closed' = TRUE
    /\ UNCHANGED <<pc, timer, readEvent, writeEvent, readError, writeError,
                   looping, rcvVars, sndVars, timeVars>>

Tick ==
    /\ now < MaxTime
    /\ now' = now + 1
    /\ UNCHANGED <<pc, timer, rd, wd, sets, closed, readEvent, writeEvent,
                   readError, writeError, looping, rcvVars, sndVars>>

Next ==
    \/ \E t \in Threads : Call(t)
    \/ \E r \in Readers : ReadCheck(r) \/ ReadSelect(r)
    \/ \E w \in Writers : WriteCheck(w) \/ WriteSelect(w)
    \/ KcpInput \/ Update \/ ReadLoopError \/ Close \/ Tick
    \/ \E d \in 0..(MaxTime - 1) \cup {Never} :
          SetReadDeadline(d) \/ SetWriteDeadline(d) \/ SetDeadline(d)

Spec == Init /\ [][Next]_vars

\* A goroutine inside a call is scheduled, and the clock runs.
Fairness ==
    /\ \A r \in Readers : WF_vars(ReadCheck(r)) /\ WF_vars(ReadSelect(r))
    /\ \A w \in Writers : WF_vars(WriteCheck(w)) /\ WF_vars(WriteSelect(w))
    /\ WF_vars(Tick)

FairSpec == Spec /\ Fairness

-----------------------------------------------------------------------------
(* Properties *)

Flatten(segs) ==
    LET upTo[i \in 0..Len(segs)] == IF i = 0 THEN <<>> ELSE upTo[i - 1] \o segs[i]
    IN  upTo[Len(segs)]

\* Between them the readers get every byte that arrived, once and in order:
\* what was returned, the rest in bufptr and the queue make up the stream.
BytesConserved ==
    returned \o bufptr \o Flatten(rcv_queue) = [i \in 1..arrived |-> i]

\* chReadEvent: "notify Read() can be called without blocking".  A reader that
\* sleeps in its select although there are bytes for it has something to wake
\* it, however the mutex was passed on since it looked.
ReadWakeup ==
    \A r \in Readers :
        pc[r] = "select" /\ (bufptr # <<>> \/ rcv_queue # <<>>)
        => readEvent \/ closed \/ \E q \in Readers : pc[q] = "check"

\* chWriteEvent: "notify Write() can be called without blocking".  The same
\* of a writer that sleeps although the window has room.
WriteWakeup ==
    \A w \in Writers :
        pc[w] = "select" /\ waitsnd < SndWnd
        => writeEvent \/ closed \/ \E q \in Writers : pc[q] = "check"

\* A sleeping call has the timer of the deadline now in force, or is about to
\* be woken to start it.
DeadlineInForce ==
    /\ \A r \in Readers : pc[r] = "select" => timer[r] = rd \/ readEvent \/ closed
    /\ \A w \in Writers : pc[w] = "select" => timer[w] = wd \/ writeEvent \/ closed

\* A call in progress ends when the session is closed ...
CloseEndsCalls ==
    \A t \in Threads : (closed /\ pc[t] # "idle") ~> (pc[t] = "idle")

\* ... when its deadline passes, unless the deadline is moved ...
DeadlineOf(t) == IF t \in Readers THEN rd ELSE wd

DeadlineEndsCalls ==
    \A t \in Threads : \A d \in 0..(MaxTime - 1) :
        (DeadlineOf(t) = d /\ pc[t] # "idle") ~> (pc[t] = "idle" \/ DeadlineOf(t) # d)

\* ... and when there is something to return, or room to write.
ReadyEndsCalls ==
    /\ \A r \in Readers :
          (pc[r] # "idle" /\ rcv_queue # <<>>) ~> (pc[r] = "idle")
    /\ \A w \in Writers :
          (pc[w] # "idle" /\ waitsnd < SndWnd) ~> (pc[w] = "idle")

\* Read and WriteBuffers return: no select is slept in for good that a Close, a
\* deadline, arriving bytes or a window with room should end.
CallsEnd == CloseEndsCalls /\ DeadlineEndsCalls /\ ReadyEndsCalls

=============================================================================
