-------------------------- MODULE UDPSessionProofs --------------------------
(***************************************************************************)
(* A session read by one goroutine and written by one, as smux does, loses *)
(* no wakeup and follows its deadlines, whatever the constants.            *)
(***************************************************************************)
EXTENDS UDPSession, SequenceTheorems, WellFoundedInduction, TLAPS

One(S) == \A p, q \in S : p = q

NonEmpty(queue) == \A i \in 1..Len(queue) : queue[i] # <<>>

\* What the wakeups rest on: the goroutines are where they can be, a segment
\* in the queue holds a byte (so PeekSize sees it), and a reader only sleeps
\* with bufptr empty.
Typed ==
    /\ pc \in [Threads -> {"idle", "check", "select"}]
    /\ timer \in [Threads -> Deadline]
    /\ readEvent \in BOOLEAN /\ writeEvent \in BOOLEAN /\ closed \in BOOLEAN
    /\ rcv_queue \in Seq(Seq(Nat)) /\ bufptr \in Seq(Nat)
    /\ arrived \in Nat /\ waitsnd \in Int
    /\ rd \in Deadline /\ wd \in Deadline

Asleep(t) == pc[t] = "select"

ReaderInv ==
    \A r \in Readers : Asleep(r) =>
        /\ bufptr = <<>>
        /\ rcv_queue # <<>> => readEvent \/ closed
        /\ timer[r] = rd \/ readEvent \/ closed

WriterInv ==
    \A w \in Writers : Asleep(w) =>
        /\ waitsnd < SndWnd => writeEvent \/ closed
        /\ timer[w] = wd \/ writeEvent \/ closed

WakeInv == Typed /\ NonEmpty(rcv_queue) /\ ReaderInv /\ WriterInv

-----------------------------------------------------------------------------

\* Handing bytes over keeps the types and lets the caller return.
LEMMA HandKeeps ==
    ASSUME NEW r \in Readers, NEW n \in Nat, NEW from \in Seq(Nat), NEW queue,
           Hand(r, n, from, queue)
    PROVE  /\ bufptr' \in Seq(Nat) /\ rcv_queue' = queue /\ arrived' = arrived
           /\ pc' = [pc EXCEPT ![r] = "idle"] /\ timer' = timer
<1>1. ASSUME NEW k \in Nat PROVE SubSeq(from, k + 1, Len(from)) \in Seq(Nat)
  OBVIOUS
<1>2. Len(from) \in Nat
  OBVIOUS
<1> QED
  BY <1>1, <1>2 DEF Hand

\* Taking the head of a queue of non-empty segments leaves one.
LEMMA TailNonEmpty ==
    ASSUME NEW queue \in Seq(Seq(Nat)), queue # <<>>, NonEmpty(queue)
    PROVE  /\ Head(queue) \in Seq(Nat) /\ Tail(queue) \in Seq(Seq(Nat))
           /\ NonEmpty(Tail(queue))
BY DEF NonEmpty

\* So does appending what Input makes ready.
LEMMA SegmentsNonEmpty ==
    ASSUME ConstantsAssumption, arrived \in Nat, NEW k \in Nat
    PROVE  Segments(k) \in Seq(Seq(Nat)) /\ NonEmpty(Segments(k))
<1> DEFINE one(i) == [j \in 1..SegLen |-> arrived + (i - 1) * SegLen + j]
<1>1. SegLen \in Nat /\ SegLen > 0
  BY DEF ConstantsAssumption
<1>2. ASSUME NEW i \in 1..k PROVE one(i) \in Seq(Nat) /\ one(i) # <<>>
  <2>1. ASSUME NEW j \in 1..SegLen PROVE arrived + (i - 1) * SegLen + j \in Nat
    <3>1. i - 1 \in Nat
      OBVIOUS
    <3>2. (i - 1) * SegLen \in Nat
      BY <3>1, <1>1
    <3> QED
      BY <3>2
  <2>2. one(i) \in [1..SegLen -> Nat]
    BY <2>1
  <2>3. one(i) \in Seq(Nat)
    BY <2>2, <1>1
  <2>4. DOMAIN one(i) = 1..SegLen /\ 1 \in 1..SegLen
    BY <1>1
  <2>5. DOMAIN <<>> = {}
    OBVIOUS
  <2> QED
    BY <2>3, <2>4, <2>5
<1>3. Segments(k) = [i \in 1..k |-> one(i)]
  BY DEF Segments
<1> HIDE DEF one
<1>4. Segments(k) \in [1..k -> Seq(Nat)]
  BY <1>2, <1>3
<1>5. Segments(k) \in Seq(Seq(Nat)) /\ Len(Segments(k)) = k
  BY <1>4
<1>6. ASSUME NEW i \in 1..k PROVE Segments(k)[i] # <<>>
  <2>1. Segments(k)[i] = one(i)
    BY <1>3
  <2> QED
    BY <2>1, <1>2
<1> QED
  BY <1>5, <1>6 DEF NonEmpty

\* So does joining two queues.
LEMMA ConcatNonEmpty ==
    ASSUME NEW a \in Seq(Seq(Nat)), NEW b \in Seq(Seq(Nat)), NonEmpty(a), NonEmpty(b)
    PROVE  a \o b \in Seq(Seq(Nat)) /\ NonEmpty(a \o b)
BY DEF NonEmpty

\* A queue that holds anything is one PeekSize sees.
LEMMA Peeked ==
    ASSUME NEW queue \in Seq(Seq(Nat)), NonEmpty(queue), queue # <<>>
    PROVE  PeekSize(queue) > 0
<1>1. queue[1] # <<>> /\ queue[1] \in Seq(Nat)
  BY DEF NonEmpty
<1>2. Len(queue[1]) > 0
  BY <1>1
<1> QED
  BY <1>2 DEF PeekSize

\* Initially nobody sleeps and there is nothing to read.
LEMMA WakeInit ==
    ASSUME ConstantsAssumption, Init PROVE WakeInv
<1>1. Typed
  <2>1. Never \in Deadline
    BY DEF Never, Deadline, ConstantsAssumption
  <2>2. rcv_queue \in Seq(Seq(Nat)) /\ bufptr \in Seq(Nat)
    BY DEF Init
  <2>3. /\ pc \in [Threads -> {"idle", "check", "select"}]
        /\ timer \in [Threads -> Deadline] /\ rd \in Deadline /\ wd \in Deadline
    BY <2>1 DEF Init
  <2>4. arrived \in Nat /\ waitsnd \in Int
    BY DEF Init
  <2>5. readEvent \in BOOLEAN /\ writeEvent \in BOOLEAN /\ closed \in BOOLEAN
    BY DEF Init
  <2> QED
    BY <2>2, <2>3, <2>4, <2>5 DEF Typed
<1>2. NonEmpty(rcv_queue)
  BY DEF Init, NonEmpty
<1>3. ASSUME NEW t \in Threads PROVE ~Asleep(t)
  BY DEF Init, Asleep
<1> QED
  BY <1>1, <1>2, <1>3 DEF WakeInv, ReaderInv, WriterInv, Threads

\* A step that moves only goroutine t, which belongs to S, leaves every other
\* goroutine as it was.
LEMMA OthersStay ==
    ASSUME Typed, NEW t \in Threads, NEW v, NEW q \in Threads, q # t,
           pc' = [pc EXCEPT ![t] = v]
    PROVE  Asleep(q)' <=> Asleep(q)
BY DEF Typed, Asleep

\* Read either takes bytes and returns or, with nothing to take, sleeps with the
\* timer of the deadline.
LEMMA ReadCheckWakes ==
    ASSUME ConstantsAssumption, WakeInv, One(Readers), NEW r \in Readers, ReadCheck(r)
    PROVE  WakeInv'
<1> USE DEF WakeInv
<1>0. r \in Threads /\ r \notin Writers
  BY DEF Threads, ConstantsAssumption
<1>1. UNCHANGED <<closed, readEvent, writeEvent, waitsnd, rd, wd>>
  BY DEF ReadCheck, sndVars, timeVars
<1>a. \A w \in Writers : w \in Threads /\ w # r
  BY <1>0 DEF Threads
<1>2. CASE \E n \in 1..SegLen : TakeData(r, n)
  <2>1. PICK n \in 1..SegLen : TakeData(r, n)
    BY <1>2
  <2>2. n \in Nat
    BY ConstantsAssumption DEF ConstantsAssumption
  <2>3. CASE bufptr # <<>>
    <3>1. Hand(r, n, bufptr, rcv_queue)
      BY <2>1, <2>3 DEF TakeData
    <3>2. /\ bufptr' \in Seq(Nat) /\ rcv_queue' = rcv_queue /\ arrived' = arrived
          /\ pc' = [pc EXCEPT ![r] = "idle"] /\ timer' = timer
      BY <3>1, <2>2, HandKeeps DEF Typed
    <3>3. \A q \in Readers : ~Asleep(q)'
      BY <3>2, <1>0 DEF One, Asleep, Typed
    <3>4. \A w \in Writers : Asleep(w)' <=> Asleep(w)
      BY <3>2, <1>a, <1>0, OthersStay
    <3>5. Typed'
      BY <3>2, <1>1, <1>0 DEF Typed
    <3> QED
      BY <3>2, <3>3, <3>4, <3>5, <1>1 DEF ReaderInv, WriterInv, NonEmpty
  <2>4. CASE bufptr = <<>>
    <3>0. rcv_queue # <<>> /\ Hand(r, n, Head(rcv_queue), Tail(rcv_queue))
      BY <2>1, <2>4 DEF TakeData, PeekSize
    <3>1. /\ Head(rcv_queue) \in Seq(Nat) /\ Tail(rcv_queue) \in Seq(Seq(Nat))
          /\ NonEmpty(Tail(rcv_queue))
      BY <3>0, TailNonEmpty DEF Typed
    <3>2. /\ bufptr' \in Seq(Nat) /\ rcv_queue' = Tail(rcv_queue) /\ arrived' = arrived
          /\ pc' = [pc EXCEPT ![r] = "idle"] /\ timer' = timer
      BY <3>0, <3>1, <2>2, HandKeeps
    <3>3. \A q \in Readers : ~Asleep(q)'
      BY <3>2, <1>0 DEF One, Asleep, Typed
    <3>4. \A w \in Writers : Asleep(w)' <=> Asleep(w)
      BY <3>2, <1>a, <1>0, OthersStay
    <3>5. Typed'
      BY <3>1, <3>2, <1>1, <1>0 DEF Typed
    <3>6. NonEmpty(rcv_queue)'
      BY <3>1, <3>2 DEF NonEmpty
    <3> QED
      BY <3>2, <3>3, <3>4, <3>5, <3>6, <1>1 DEF ReaderInv, WriterInv
  <2> QED
    BY <2>3, <2>4
<1>3. CASE /\ bufptr = <<>> /\ (closed \/ PeekSize(rcv_queue) = 0)
           /\ GiveUpOrWait(r, rd) /\ UNCHANGED rcvVars
  <2>1. UNCHANGED <<rcv_queue, bufptr, arrived>>
    BY <1>3 DEF rcvVars
  <2>2. PICK v \in {"idle", "select"}, d \in {Never, rd} :
           /\ pc' = [pc EXCEPT ![r] = v] /\ timer' = [timer EXCEPT ![r] = d]
           /\ v = "select" => d = rd
    BY <1>3 DEF GiveUpOrWait
  <2>3. Never \in Deadline
    BY ConstantsAssumption DEF Never, Deadline, ConstantsAssumption
  <2>4. Typed'
    BY <2>1, <2>2, <2>3, <1>1, <1>0 DEF Typed
  <2>5. rcv_queue # <<>> => closed
    <3>1. rcv_queue # <<>> => PeekSize(rcv_queue) > 0
      BY Peeked DEF Typed
    <3> QED
      BY <3>1, <1>3
  <2>6. \A w \in Writers : (Asleep(w)' <=> Asleep(w)) /\ timer'[w] = timer[w]
    BY <2>2, <1>a, <1>0, OthersStay DEF Typed
  <2>7. Asleep(r)' => timer'[r] = rd
    BY <2>2, <1>0 DEF Asleep, Typed
  <2>8. ReaderInv'
    <3>1. \A q \in Readers : q = r
      BY DEF One
    <3>2. Asleep(r)' => /\ bufptr' = <<>>
                        /\ rcv_queue' # <<>> => closed'
                        /\ timer'[r] = rd'
      BY <2>1, <2>5, <2>7, <1>1, <1>3
    <3> QED
      BY <3>1, <3>2 DEF ReaderInv
  <2> QED
    BY <2>1, <2>4, <2>6, <2>8, <1>1 DEF WriterInv, NonEmpty
<1> QED
  BY <1>2, <1>3 DEF ReadCheck

\* A write sleeps only with a full window, with the timer of the deadline.
LEMMA WriteCheckWakes ==
    ASSUME ConstantsAssumption, WakeInv, One(Writers), NEW w \in Writers, WriteCheck(w)
    PROVE  WakeInv'
<1> USE DEF WakeInv
<1>0. w \in Threads /\ w \notin Readers
  BY DEF Threads, ConstantsAssumption
<1>1. UNCHANGED <<closed, readEvent, writeEvent, rcv_queue, bufptr, arrived, rd, wd>>
  BY DEF WriteCheck, rcvVars, timeVars
<1>2. \A r \in Readers : r \in Threads /\ r # w
  BY <1>0 DEF Threads
<1>3. PICK v \in {"idle", "select"}, d \in {Never, timer[w], wd} :
           /\ pc' = [pc EXCEPT ![w] = v] /\ timer' = [timer EXCEPT ![w] = d]
           /\ v = "select" => (d = wd /\ (closed \/ waitsnd >= SndWnd) /\ waitsnd' = waitsnd)
           /\ waitsnd' \in Int
  <2>1. CASE ~closed /\ waitsnd < SndWnd /\ pc' = [pc EXCEPT ![w] = "idle"]
             /\ UNCHANGED timer /\ \E k \in Added : waitsnd' = waitsnd + k
    <3>1. waitsnd' \in Int
      BY <2>1, ConstantsAssumption DEF Added, Typed, ConstantsAssumption
    <3>2. timer' = [timer EXCEPT ![w] = timer[w]]
      BY <2>1, <1>0 DEF Typed
    <3> QED
      BY <2>1, <3>1, <3>2
  <2>2. CASE (closed \/ waitsnd >= SndWnd) /\ GiveUpOrWait(w, wd) /\ UNCHANGED waitsnd
    BY <2>2 DEF GiveUpOrWait, Typed
  <2> QED
    BY <2>1, <2>2 DEF WriteCheck, sndVars
<1>4. Typed'
  <2>1. Never \in Deadline
    BY ConstantsAssumption DEF Never, Deadline, ConstantsAssumption
  <2> QED
    BY <2>1, <1>0, <1>1, <1>3 DEF Typed
<1>5. ReaderInv'
  <2>1. \A r \in Readers : (Asleep(r)' <=> Asleep(r)) /\ timer'[r] = timer[r]
    BY <1>0, <1>2, <1>3, OthersStay DEF Typed
  <2> QED
    BY <2>1, <1>1 DEF ReaderInv
<1>6. WriterInv'
  <2>1. \A q \in Writers : q = w
    BY DEF One
  <2>2. Asleep(w)' => timer'[w] = wd' /\ (waitsnd' < SndWnd => closed')
    BY <1>0, <1>1, <1>3, ConstantsAssumption DEF Asleep, Typed, ConstantsAssumption
  <2> QED
    BY <2>1, <2>2 DEF WriterInv
<1> QED
  BY <1>1, <1>4, <1>5, <1>6 DEF NonEmpty

\* A goroutine that leaves its select no longer sleeps; a token is only taken
\* by the reader it is for.
LEMMA SelectWakes ==
    ASSUME ConstantsAssumption, WakeInv, One(Readers), One(Writers),
           NEW t \in Threads,
           (t \in Readers /\ ReadSelect(t)) \/ (t \in Writers /\ WriteSelect(t))
    PROVE  WakeInv'
<1> USE DEF WakeInv
<1>1. UNCHANGED <<closed, rcv_queue, bufptr, arrived, waitsnd, rd, wd>>
  BY DEF ReadSelect, WriteSelect, rcvVars, sndVars, timeVars
<1>2. PICK v \in {"idle", "check"} :
          pc' = [pc EXCEPT ![t] = v] /\ timer' = [timer EXCEPT ![t] = Never]
  BY DEF ReadSelect, WriteSelect, Wake
<1>3. /\ readEvent' \in BOOLEAN /\ writeEvent' \in BOOLEAN
      /\ t \notin Readers => readEvent' = readEvent
      /\ t \notin Writers => writeEvent' = writeEvent
  BY DEF ReadSelect, WriteSelect, Typed
<1>4. Typed'
  <2>1. Never \in Deadline
    BY ConstantsAssumption DEF Never, Deadline, ConstantsAssumption
  <2> QED
    BY <2>1, <1>1, <1>2, <1>3 DEF Typed
<1>5. ~Asleep(t)'
  BY <1>2 DEF Asleep, Typed
<1>6. \A q \in Threads : q # t => (Asleep(q)' <=> Asleep(q)) /\ timer'[q] = timer[q]
  BY <1>2, OthersStay DEF Typed
<1>7. ReaderInv'
  <2>1. CASE t \in Readers
    BY <2>1, <1>5 DEF One, ReaderInv
  <2>2. CASE t \notin Readers
    BY <2>2, <1>1, <1>3, <1>6 DEF ReaderInv, Threads
  <2> QED
    BY <2>1, <2>2
<1>8. WriterInv'
  <2>1. CASE t \in Writers
    BY <2>1, <1>5 DEF One, WriterInv
  <2>2. CASE t \notin Writers
    BY <2>2, <1>1, <1>3, <1>6 DEF WriterInv, Threads
  <2> QED
    BY <2>1, <2>2
<1> QED
  BY <1>1, <1>4, <1>7, <1>8 DEF NonEmpty

\* kcpInput leaves a token whenever there is something to read and whenever
\* the window got room.
LEMMA KcpInputWakes ==
    ASSUME ConstantsAssumption, WakeInv, KcpInput
    PROVE  WakeInv'
<1> USE DEF WakeInv
<1>1. UNCHANGED <<pc, timer, closed, bufptr, rd, wd>>
  BY DEF KcpInput, timeVars
<1>2. PICK k \in 0..MaxInput, a \in 0..waitsnd :
          /\ rcv_queue' = rcv_queue \o Segments(k)
          /\ arrived' = arrived + k * SegLen
          /\ waitsnd' = waitsnd - a
  BY DEF KcpInput, KcpInputOf
<1>3. k \in Nat /\ k * SegLen \in Nat
  BY ConstantsAssumption DEF ConstantsAssumption
<1>4. Segments(k) \in Seq(Seq(Nat)) /\ NonEmpty(Segments(k))
  BY <1>3, SegmentsNonEmpty DEF Typed
<1>5. rcv_queue' \in Seq(Seq(Nat)) /\ NonEmpty(rcv_queue')
  BY <1>2, <1>4, ConcatNonEmpty DEF Typed
<1>6. arrived' \in Nat /\ waitsnd' \in Int
  <2> DEFINE bytes == k * SegLen
  <2>1. bytes \in Nat /\ arrived' = arrived + bytes
    BY <1>2, <1>3
  <2> HIDE DEF bytes
  <2>2. arrived' \in Nat
    BY <2>1 DEF Typed
  <2>3. waitsnd \in Int /\ a \in Int /\ waitsnd' = waitsnd - a
    BY <1>2 DEF Typed
  <2> QED
    BY <2>2, <2>3
<1>7. readEvent' = (readEvent \/ PeekSize(rcv_queue') > 0)
      /\ writeEvent' = (writeEvent \/ waitsnd' < waitsnd)
  BY DEF KcpInput
<1>8. readEvent' \in BOOLEAN /\ writeEvent' \in BOOLEAN
  BY <1>7 DEF Typed
<1>9. Typed'
  BY <1>1, <1>5, <1>6, <1>8 DEF Typed
<1>10. ReaderInv'
  <2>1. rcv_queue' # <<>> => readEvent'
    BY <1>5, <1>7, Peeked
  <2>2. readEvent => readEvent'
    BY <1>7
  <2> QED
    BY <2>1, <2>2, <1>1 DEF ReaderInv, Asleep
<1>11. WriterInv'
  <2>1. waitsnd' < SndWnd => waitsnd < SndWnd \/ writeEvent'
    <3>1. waitsnd \in Int /\ a \in Int /\ a >= 0 /\ waitsnd' = waitsnd - a
      BY <1>2 DEF Typed
    <3>2. waitsnd' = waitsnd \/ waitsnd' < waitsnd
      BY <3>1
    <3> QED
      BY <3>2, <1>7
  <2>2. writeEvent => writeEvent'
    BY <1>7
  <2> QED
    BY <2>1, <2>2, <1>1 DEF WriterInv, Asleep
<1> QED
  BY <1>5, <1>9, <1>10, <1>11 DEF NonEmpty

\* A deadline that moves leaves a token for whoever sleeps on the old one.
LEMMA SetDeadlineWakes ==
    ASSUME ConstantsAssumption, WakeInv, NEW d \in Deadline,
           SetReadDeadline(d) \/ SetWriteDeadline(d) \/ SetDeadline(d)
    PROVE  WakeInv'
<1>1. UNCHANGED <<pc, timer, closed, rcv_queue, bufptr, arrived, waitsnd>>
  BY DEF SetReadDeadline, SetWriteDeadline, SetDeadline, rcvVars, sndVars
<1>2. /\ (rd' = rd /\ readEvent' = readEvent) \/ (rd' = d /\ readEvent' = TRUE)
      /\ (wd' = wd /\ writeEvent' = writeEvent) \/ (wd' = d /\ writeEvent' = TRUE)
  <2>1. CASE SetReadDeadline(d)
    BY <2>1 DEF SetReadDeadline
  <2>2. CASE SetWriteDeadline(d)
    BY <2>2 DEF SetWriteDeadline
  <2>3. CASE SetDeadline(d)
    BY <2>3 DEF SetDeadline
  <2> QED
    BY <2>1, <2>2, <2>3
<1>3. \A t \in Threads : Asleep(t)' <=> Asleep(t)
  BY <1>1 DEF Asleep
<1>4. (readEvent' \/ rd' = rd) /\ (readEvent => readEvent')
  BY <1>2
<1>5. (writeEvent' \/ wd' = wd) /\ (writeEvent => writeEvent')
  BY <1>2
<1>6. Typed'
  BY <1>1, <1>2 DEF WakeInv, Typed
<1>7. ReaderInv'
  BY <1>1, <1>3, <1>4 DEF WakeInv, ReaderInv, Threads
<1>8. WriterInv'
  BY <1>1, <1>3, <1>5 DEF WakeInv, WriterInv, Threads
<1> QED
  BY <1>1, <1>6, <1>7, <1>8 DEF WakeInv, NonEmpty

\* The remaining steps start a call, or touch nothing a sleeper waits for.
LEMMA OtherWakes ==
    ASSUME ConstantsAssumption, WakeInv,
           \/ \E t \in Threads : Call(t)
           \/ Update \/ ReadLoopError \/ Close \/ Tick \/ UNCHANGED vars
    PROVE  WakeInv'
<1> USE DEF WakeInv
<1>1. /\ UNCHANGED <<timer, readEvent, writeEvent, rcv_queue, bufptr, arrived, waitsnd, rd, wd>>
      /\ closed' = closed \/ closed' = TRUE
  BY DEF Call, Update, ReadLoopError, Close, Tick, vars, rcvVars, sndVars, timeVars
<1>2. CASE UNCHANGED pc
  BY <1>1, <1>2 DEF Typed, NonEmpty, ReaderInv, WriterInv, Asleep
<1>3. CASE \E t \in Threads : Call(t)
  <2>1. PICK t \in Threads : pc' = [pc EXCEPT ![t] = "check"]
    BY <1>3 DEF Call
  <2>2. \A q \in Threads : Asleep(q)' => Asleep(q)
    BY <2>1 DEF Asleep, Typed
  <2>3. Typed'
    BY <2>1, <1>1 DEF Typed
  <2> QED
    BY <2>2, <2>3, <1>1 DEF NonEmpty, ReaderInv, WriterInv, Threads
<1> QED
  BY <1>2, <1>3 DEF Update, ReadLoopError, Close, Tick, vars

\* One reader and one writer: no wakeup is lost and no deadline outdated.
THEOREM WakeupsHold ==
    ASSUME One(Readers), One(Writers)
    PROVE  Spec => []WakeInv
<1>1. Init => WakeInv
  BY ConstantsAssumption, WakeInit
<1>2. WakeInv /\ [Next]_vars => WakeInv'
  <2> SUFFICES ASSUME WakeInv, [Next]_vars PROVE WakeInv'
    OBVIOUS
  <2> USE ConstantsAssumption
  <2>1. ASSUME NEW r \in Readers, ReadCheck(r) PROVE WakeInv'
    BY <2>1, ReadCheckWakes
  <2>2. ASSUME NEW r \in Readers, ReadSelect(r) PROVE WakeInv'
    <3>1. r \in Threads
      BY DEF Threads
    <3> QED
      BY <2>2, <3>1, SelectWakes
  <2>3. ASSUME NEW w \in Writers, WriteCheck(w) PROVE WakeInv'
    BY <2>3, WriteCheckWakes
  <2>4. ASSUME NEW w \in Writers, WriteSelect(w) PROVE WakeInv'
    <3>1. w \in Threads
      BY DEF Threads
    <3> QED
      BY <2>4, <3>1, SelectWakes
  <2>5. CASE KcpInput
    BY <2>5, KcpInputWakes
  <2>6. ASSUME NEW d \in 0..(MaxTime - 1) \cup {Never},
               SetReadDeadline(d) \/ SetWriteDeadline(d) \/ SetDeadline(d)
        PROVE WakeInv'
    <3>1. d \in Deadline
      BY DEF Deadline, Never, ConstantsAssumption
    <3> QED
      BY <2>6, <3>1, SetDeadlineWakes
  <2>7. CASE (\E t \in Threads : Call(t)) \/ Update \/ ReadLoopError \/ Close \/ Tick
             \/ UNCHANGED vars
    BY <2>7, OtherWakes
  <2> QED
    BY <2>1, <2>2, <2>3, <2>4, <2>5, <2>6, <2>7 DEF Next
<1> QED
  BY <1>1, <1>2, PTL DEF Spec

\* A reader that sleeps over bytes has something to wake it (sess.go:93).
THEOREM ReaderWoken ==
    ASSUME One(Readers), One(Writers)
    PROVE  Spec => []ReadWakeup
<1>1. WakeInv => ReadWakeup
  BY DEF WakeInv, ReaderInv, ReadWakeup, Asleep
<1> QED
  BY <1>1, WakeupsHold, PTL

\* A writer that sleeps with room in the window has something to wake it.
THEOREM WriterWoken ==
    ASSUME One(Readers), One(Writers)
    PROVE  Spec => []WriteWakeup
<1>1. WakeInv => WriteWakeup
  BY DEF WakeInv, WriterInv, WriteWakeup, Asleep
<1> QED
  BY <1>1, WakeupsHold, PTL

\* A sleeping call follows the deadline now in force, or is being woken to.
THEOREM DeadlinesFollowed ==
    ASSUME One(Readers), One(Writers)
    PROVE  Spec => []DeadlineInForce
<1>1. WakeInv => DeadlineInForce
  BY DEF WakeInv, ReaderInv, WriterInv, DeadlineInForce, Asleep
<1> QED
  BY <1>1, WakeupsHold, PTL

-----------------------------------------------------------------------------

\* Handing over bytes of a segment keeps the types of the receiving side.
LEMMA HandTyped ==
    ASSUME TypeOK, NEW r \in Readers, NEW n \in Nat, NEW from \in Seq(Nat),
           NEW queue \in Seq(Seq(Nat)), Hand(r, n, from, queue)
    PROVE  /\ pc' = [pc EXCEPT ![r] = "idle"] /\ timer' = timer /\ arrived' = arrived
           /\ rcv_queue' \in Seq(Seq(Nat)) /\ bufptr' \in Seq(Nat) /\ returned' \in Seq(Nat)
<1>1. PICK k \in Nat : /\ k <= Len(from)
                       /\ returned' = returned \o SubSeq(from, 1, k)
                       /\ bufptr' = SubSeq(from, k + 1, Len(from))
  <2>1. Len(from) \in Nat
    OBVIOUS
  <2> DEFINE k == IF n <= Len(from) THEN n ELSE Len(from)
  <2>2. k \in Nat /\ k <= Len(from)
    BY <2>1
  <2>3. returned' = returned \o SubSeq(from, 1, k) /\ bufptr' = SubSeq(from, k + 1, Len(from))
    BY DEF Hand
  <2> HIDE DEF k
  <2> QED
    BY <2>2, <2>3
<1>2. SubSeq(from, 1, k) \in Seq(Nat) /\ SubSeq(from, k + 1, Len(from)) \in Seq(Nat)
  BY <1>1
<1>3. returned \in Seq(Nat)
  BY DEF TypeOK
<1> QED
  BY <1>1, <1>2, <1>3 DEF Hand

\* Read keeps the types.
LEMMA ReadCheckTyped ==
    ASSUME ConstantsAssumption, TypeOK, NEW r \in Readers, ReadCheck(r)
    PROVE  TypeOK'
<1>0. r \in Threads /\ Never \in Deadline
  BY DEF Threads, Never, Deadline, ConstantsAssumption
<1>1. UNCHANGED <<closed, readEvent, writeEvent, readError, writeError, looping,
                  waitsnd, accepted, now, rd, wd, sets>>
  BY DEF ReadCheck, sndVars, timeVars
<1>2. CASE \E n \in 1..SegLen : TakeData(r, n)
  <2>1. PICK n \in 1..SegLen : TakeData(r, n)
    BY <1>2
  <2>2. n \in Nat
    BY DEF ConstantsAssumption
  <2>3. rcv_queue \in Seq(Seq(Nat)) /\ bufptr \in Seq(Nat)
    BY DEF TypeOK
  <2>4. PICK from \in Seq(Nat), queue \in Seq(Seq(Nat)) : Hand(r, n, from, queue)
    <3>1. CASE bufptr # <<>>
      BY <2>1, <2>3, <3>1 DEF TakeData
    <3>2. CASE bufptr = <<>>
      <4>1. rcv_queue # <<>> /\ Hand(r, n, Head(rcv_queue), Tail(rcv_queue))
        BY <2>1, <3>2 DEF TakeData, PeekSize
      <4>2. Head(rcv_queue) \in Seq(Nat) /\ Tail(rcv_queue) \in Seq(Seq(Nat))
        BY <2>3, <4>1
      <4> QED
        BY <4>1, <4>2
    <3> QED
      BY <3>1, <3>2
  <2>5. /\ pc' = [pc EXCEPT ![r] = "idle"] /\ timer' = timer /\ arrived' = arrived
        /\ rcv_queue' \in Seq(Seq(Nat)) /\ bufptr' \in Seq(Nat) /\ returned' \in Seq(Nat)
    BY <2>2, <2>4, HandTyped
  <2> QED
    BY <2>5, <1>0, <1>1 DEF TypeOK
<1>3. CASE GiveUpOrWait(r, rd) /\ UNCHANGED rcvVars
  <2>1. PICK v \in {"idle", "select"}, d \in Deadline :
           pc' = [pc EXCEPT ![r] = v] /\ timer' = [timer EXCEPT ![r] = d]
    BY <1>3, <1>0 DEF GiveUpOrWait, TypeOK
  <2> QED
    BY <2>1, <1>0, <1>1, <1>3 DEF TypeOK, rcvVars
<1> QED
  BY <1>2, <1>3 DEF ReadCheck

\* So does WriteBuffers.
LEMMA WriteCheckTyped ==
    ASSUME ConstantsAssumption, TypeOK, NEW w \in Writers, WriteCheck(w)
    PROVE  TypeOK'
<1>0. w \in Threads /\ Never \in Deadline
  BY DEF Threads, Never, Deadline, ConstantsAssumption
<1>1. UNCHANGED <<closed, readEvent, writeEvent, readError, looping, rcv_queue, bufptr,
                  arrived, returned, now, rd, wd, sets>>
  BY DEF WriteCheck, rcvVars, timeVars
<1>2. PICK v \in {"idle", "select"} : pc' = [pc EXCEPT ![w] = v]
  BY DEF WriteCheck, GiveUpOrWait
<1>3. timer' \in [Threads -> Deadline]
  BY <1>0 DEF WriteCheck, GiveUpOrWait, TypeOK
<1>4. waitsnd' \in Nat /\ accepted' \in Nat
  <2>1. CASE \E k \in Added : waitsnd' = waitsnd + k /\ accepted' = accepted + k
    <3>1. PICK k \in Nat : waitsnd' = waitsnd + k /\ accepted' = accepted + k
      BY <2>1 DEF Added, ConstantsAssumption
    <3> QED
      BY <3>1 DEF TypeOK
  <2>2. CASE UNCHANGED sndVars
    BY <2>2 DEF sndVars, TypeOK
  <2> QED
    BY <2>1, <2>2 DEF WriteCheck
<1>5. writeError' \in BOOLEAN
  BY DEF WriteCheck, Output, TypeOK
<1> QED
  BY <1>0, <1>1, <1>2, <1>3, <1>4, <1>5 DEF TypeOK

\* So do the selects ...
LEMMA SelectTyped ==
    ASSUME ConstantsAssumption, TypeOK, NEW t \in Threads, ReadSelect(t) \/ WriteSelect(t)
    PROVE  TypeOK'
<1>0. Never \in Deadline
  BY DEF Never, Deadline, ConstantsAssumption
<1>1. UNCHANGED <<closed, looping, rcv_queue, bufptr, arrived, returned, waitsnd, accepted,
                  now, rd, wd, sets>>
  BY DEF ReadSelect, WriteSelect, rcvVars, sndVars, timeVars
<1>2. PICK v \in {"idle", "check"} :
          pc' = [pc EXCEPT ![t] = v] /\ timer' = [timer EXCEPT ![t] = Never]
  BY DEF ReadSelect, WriteSelect, Wake
<1>3. {readEvent', writeEvent', readError', writeError'} \subseteq BOOLEAN
  BY DEF ReadSelect, WriteSelect, TypeOK
<1> QED
  BY <1>0, <1>1, <1>2, <1>3 DEF TypeOK

\* ... and kcpInput.
LEMMA KcpInputTyped ==
    ASSUME ConstantsAssumption, TypeOK, KcpInput
    PROVE  TypeOK'
<1>1. UNCHANGED <<pc, timer, closed, readError, looping, bufptr, returned, accepted,
                  now, rd, wd, sets>>
  BY DEF KcpInput, timeVars
<1>2. PICK k \in 0..MaxInput, a \in 0..waitsnd :
          /\ arrived + k * SegLen <= MaxArrived
          /\ rcv_queue' = rcv_queue \o Segments(k)
          /\ arrived' = arrived + k * SegLen
          /\ waitsnd' = waitsnd - a
  BY DEF KcpInput, KcpInputOf
<1>3. k \in Nat /\ k * SegLen \in Nat
  BY DEF ConstantsAssumption
<1>4. arrived \in Nat /\ waitsnd \in Nat /\ rcv_queue \in Seq(Seq(Nat))
  BY DEF TypeOK, ConstantsAssumption
<1>5. Segments(k) \in Seq(Seq(Nat))
  BY <1>3, <1>4, SegmentsNonEmpty
<1>6. rcv_queue' \in Seq(Seq(Nat))
  BY <1>2, <1>4, <1>5
<1>7. arrived' \in 0..MaxArrived
  <2> DEFINE bytes == k * SegLen
  <2>1. bytes \in Nat /\ arrived' = arrived + bytes /\ arrived + bytes <= MaxArrived
    BY <1>2, <1>3
  <2> HIDE DEF bytes
  <2> QED
    BY <2>1, <1>4 DEF ConstantsAssumption
<1>8. waitsnd' \in Nat
  <2>1. a \in Nat /\ a <= waitsnd /\ waitsnd' = waitsnd - a
    BY <1>2, <1>4
  <2> QED
    BY <2>1, <1>4
<1>9. {readEvent', writeEvent', writeError'} \subseteq BOOLEAN
  BY DEF KcpInput, Output, TypeOK
<1> QED
  BY <1>1, <1>6, <1>7, <1>8, <1>9 DEF TypeOK

\* The variables of a session keep their types, with any number of goroutines.
THEOREM TypeCorrect == Spec => []TypeOK
<1>1. Init => TypeOK
  <2> SUFFICES ASSUME Init PROVE TypeOK
    OBVIOUS
  <2>1. Never \in Deadline
    BY ConstantsAssumption DEF ConstantsAssumption, Never, Deadline
  <2>2. /\ pc \in [Threads -> {"idle", "check", "select"}]
        /\ timer \in [Threads -> Deadline]
    BY <2>1 DEF Init
  <2>3. now \in 0..MaxTime /\ rd \in Deadline /\ wd \in Deadline /\ sets \in 0..MaxSets
    BY <2>1, ConstantsAssumption DEF Init, ConstantsAssumption
  <2>4. looping \in BOOLEAN
    BY ConstantsAssumption DEF Init, ConstantsAssumption
  <2>5. {closed, readEvent, writeEvent, readError, writeError, looping} \subseteq BOOLEAN
    BY <2>4 DEF Init
  <2>6. /\ rcv_queue \in Seq(Seq(Nat)) /\ bufptr \in Seq(Nat)
        /\ arrived \in 0..MaxArrived /\ returned \in Seq(Nat)
        /\ waitsnd \in Nat /\ accepted \in Nat
    BY ConstantsAssumption DEF Init, ConstantsAssumption
  <2> QED
    BY <2>2, <2>3, <2>5, <2>6 DEF TypeOK
<1>2. TypeOK /\ [Next]_vars => TypeOK'
  <2> SUFFICES ASSUME TypeOK, [Next]_vars PROVE TypeOK'
    OBVIOUS
  <2> USE ConstantsAssumption
  <2>1. ASSUME NEW t \in Threads, Call(t) PROVE TypeOK'
    BY <2>1 DEF Call, TypeOK, rcvVars, sndVars, timeVars
  <2>2. ASSUME NEW r \in Readers, ReadCheck(r) \/ ReadSelect(r) PROVE TypeOK'
    BY <2>2, ReadCheckTyped, SelectTyped DEF Threads
  <2>3. ASSUME NEW w \in Writers, WriteCheck(w) \/ WriteSelect(w) PROVE TypeOK'
    BY <2>3, WriteCheckTyped, SelectTyped DEF Threads
  <2>4. CASE KcpInput
    BY <2>4, KcpInputTyped
  <2>5. CASE Update
    BY <2>5 DEF Update, Output, TypeOK, rcvVars, sndVars, timeVars
  <2>6. CASE ReadLoopError \/ Close
    BY <2>6 DEF ReadLoopError, Close, TypeOK, rcvVars, sndVars, timeVars
  <2>7. CASE Tick
    BY <2>7 DEF Tick, TypeOK, rcvVars, sndVars, ConstantsAssumption
  <2>8. ASSUME NEW d \in 0..(MaxTime - 1) \cup {Never},
               SetReadDeadline(d) \/ SetWriteDeadline(d) \/ SetDeadline(d)
        PROVE TypeOK'
    <3>1. d \in Deadline
      BY DEF Deadline, Never, ConstantsAssumption
    <3>2. sets' \in 0..MaxSets
      BY <2>8 DEF SetReadDeadline, SetWriteDeadline, SetDeadline, TypeOK, ConstantsAssumption
    <3> QED
      BY <2>8, <3>1, <3>2 DEF SetReadDeadline, SetWriteDeadline, SetDeadline, TypeOK,
                              rcvVars, sndVars
  <2>9. CASE UNCHANGED vars
    BY <2>9 DEF vars, TypeOK
  <2> QED
    BY <2>1, <2>2, <2>3, <2>4, <2>5, <2>6, <2>7, <2>8, <2>9 DEF Next
<1> QED
  BY <1>1, <1>2, PTL DEF Spec

-----------------------------------------------------------------------------
(* The stream of bytes *)

\* n consecutive bytes of the stream, the first after base, and q segments of them.
Run(base, n) == [m \in 1..n |-> base + m]
Row(base, i) == Run(base + (i - 1) * SegLen, SegLen)
Rows(base, q) == [i \in 1..q |-> Row(base, i)]

\* What was returned, the rest in bufptr and the queue are cut from the stream in this order.
StreamInv ==
    \E a, b, q \in Nat :
        /\ returned = Run(0, a) /\ bufptr = Run(a, b)
        /\ rcv_queue = Rows(a + b, q) /\ arrived = (a + b) + q * SegLen

\* A set of numbers that is not empty has a least one.
LEMMA LeastNumber ==
    ASSUME NEW S, S \subseteq Nat, S # {}
    PROVE  \E n \in S : \A m \in S : n <= m
<1>1. IsWellFoundedOn(OpToRel(<, Nat), Nat)
  BY NatLessThanWellFounded
<1>2. PICK n \in S : \A m \in S : <<m, n>> \notin OpToRel(<, Nat)
  BY <1>1, WFMin
<1>3. \A m \in S : ~(m < n)
  BY <1>2 DEF OpToRel
<1> QED
  BY <1>3

\* The bytes of so many segments.
LEMMA Bytes ==
    /\ SegLen \in Nat /\ SegLen > 0
    /\ \A q \in Nat : q * SegLen \in Nat
    /\ \A q, k \in Nat : (q + k) * SegLen = q * SegLen + k * SegLen
    /\ 0 * SegLen = 0 /\ 1 * SegLen = SegLen
<1>1. SegLen \in Nat /\ SegLen > 0
  BY ConstantsAssumption DEF ConstantsAssumption
<1>2. \A q \in Nat : q * SegLen \in Nat
  BY <1>1
<1>3. \A q, k \in Nat : (q + k) * SegLen = q * SegLen + k * SegLen
  BY <1>1
<1>4. 0 * SegLen = 0 /\ 1 * SegLen = SegLen
  BY <1>1
<1> QED
  BY <1>1, <1>2, <1>3, <1>4

\* A run is a sequence of bytes.
LEMMA RunIsSeq ==
    ASSUME NEW base \in Nat, NEW n \in Nat
    PROVE  /\ Run(base, n) \in Seq(Nat) /\ Len(Run(base, n)) = n
           /\ \A m \in 1..n : Run(base, n)[m] = base + m
<1>1. Run(base, n) \in [1..n -> Nat]
  BY DEF Run
<1>2. \A m \in 1..n : Run(base, n)[m] = base + m
  BY DEF Run
<1> QED
  BY <1>1, <1>2

\* Runs that follow each other make up a run.
LEMMA RunsJoined ==
    ASSUME NEW base \in Nat, NEW n \in Nat, NEW k \in Nat
    PROVE  Run(base, n) \o Run(base + n, k) = Run(base, n + k)
<1> DEFINE s == Run(base, n)
           t == Run(base + n, k)
           u == Run(base, n + k)
<1>1. /\ s \in Seq(Nat) /\ Len(s) = n /\ \A m \in 1..n : s[m] = base + m
      /\ t \in Seq(Nat) /\ Len(t) = k /\ \A m \in 1..k : t[m] = base + n + m
      /\ u \in Seq(Nat) /\ Len(u) = n + k /\ \A m \in 1..(n + k) : u[m] = base + m
  <2>1. base + n \in Nat /\ n + k \in Nat
    OBVIOUS
  <2>2. s \in Seq(Nat) /\ Len(s) = n /\ \A m \in 1..n : s[m] = base + m
    BY RunIsSeq
  <2>3. t \in Seq(Nat) /\ Len(t) = k /\ \A m \in 1..k : t[m] = (base + n) + m
    BY <2>1, RunIsSeq
  <2>4. u \in Seq(Nat) /\ Len(u) = n + k /\ \A m \in 1..(n + k) : u[m] = base + m
    BY <2>1, RunIsSeq
  <2> HIDE DEF s, t, u
  <2> QED
    BY <2>2, <2>3, <2>4
<1> HIDE DEF s, t, u
<1>2. /\ s \o t \in Seq(Nat) /\ Len(s \o t) = n + k
      /\ \A m \in 1..(n + k) : (s \o t)[m] = IF m <= n THEN s[m] ELSE t[m - n]
  <2>1. s \in Seq(Nat) /\ t \in Seq(Nat) /\ Len(s) = n /\ Len(t) = k
    BY <1>1
  <2> QED
    BY <2>1, ConcatProperties
<1>3. ASSUME NEW m \in 1..(n + k) PROVE (s \o t)[m] = u[m]
  <2>1. CASE m <= n
    BY <1>1, <1>2, <2>1
  <2>2. CASE ~(m <= n)
    <3>1. m - n \in 1..k /\ base + n + (m - n) = base + m
      BY <2>2
    <3>2. (s \o t)[m] = t[m - n]
      BY <1>2, <2>2
    <3> QED
      BY <1>1, <3>1, <3>2
  <2> QED
    BY <2>1, <2>2
<1>4. s \o t = u
  BY <1>1, <1>2, <1>3, SeqEqual
<1> QED
  BY <1>4 DEF s, t, u

\* A run that is cut gives two.
LEMMA RunCut ==
    ASSUME NEW base \in Nat, NEW n \in Nat, NEW k \in 0..n
    PROVE  /\ SubSeq(Run(base, n), 1, k) = Run(base, k)
           /\ SubSeq(Run(base, n), k + 1, n) = Run(base + k, n - k)
<1> DEFINE s == Run(base, n)
           t == Run(base, k)
           u == Run(base + k, n - k)
<1>1. /\ s \in Seq(Nat) /\ Len(s) = n /\ \A m \in 1..n : s[m] = base + m
      /\ t \in Seq(Nat) /\ Len(t) = k /\ \A m \in 1..k : t[m] = base + m
  <2>1. k \in Nat
    OBVIOUS
  <2> QED
    BY <2>1, RunIsSeq
<1>2. u \in Seq(Nat) /\ Len(u) = n - k /\ \A m \in 1..(n - k) : u[m] = base + k + m
  <2>1. base + k \in Nat /\ n - k \in Nat
    OBVIOUS
  <2>2. u \in Seq(Nat) /\ Len(u) = n - k /\ \A m \in 1..(n - k) : u[m] = (base + k) + m
    BY <2>1, RunIsSeq
  <2> HIDE DEF u
  <2> QED
    BY <2>1, <2>2
<1> HIDE DEF s, t, u
<1>3. \A m \in 1..n : s[m] \in Nat
  BY <1>1
<1>4. SubSeq(s, 1, k) = t
  <2>1. \A m \in 1..k : s[m] \in Nat /\ m \in 1..n
    BY <1>3
  <2>2. /\ SubSeq(s, 1, k) \in Seq(Nat) /\ Len(SubSeq(s, 1, k)) = k
        /\ \A m \in 1..k : SubSeq(s, 1, k)[m] = s[m]
    BY <2>1, SubSeqProperties
  <2> QED
    BY <1>1, <2>1, <2>2, SeqEqual
<1>5. SubSeq(s, k + 1, n) = u
  <2>1. \A m \in (k + 1)..n : s[m] \in Nat
    BY <1>3
  <2>2. k + 1 \in Int /\ n \in Int /\ (IF k + 1 <= n THEN n - (k + 1) + 1 ELSE 0) = n - k /\ n - (k + 1) + 1 = n - k
    OBVIOUS
  <2>3. /\ SubSeq(s, k + 1, n) \in Seq(Nat) /\ Len(SubSeq(s, k + 1, n)) = n - k
        /\ \A m \in 1..(n - k) : SubSeq(s, k + 1, n)[m] = s[k + 1 + m - 1]
    BY <2>1, <2>2, SubSeqProperties
  <2>4. ASSUME NEW m \in 1..(n - k) PROVE s[k + 1 + m - 1] = u[m]
    <3>1. k + 1 + m - 1 = k + m /\ k + m \in 1..n
      OBVIOUS
    <3> QED
      BY <1>1, <1>2, <3>1
  <2> QED
    BY <1>2, <2>3, <2>4, SeqEqual
<1> QED
  BY <1>4, <1>5 DEF s, t, u

\* Segments are sequences of bytes, and a queue is a sequence of segments.
LEMMA RowsAreSeq ==
    ASSUME NEW base \in Nat, NEW q \in Nat
    PROVE  /\ \A i \in 1..q : Rows(base, q)[i] = Row(base, i) /\ Row(base, i) \in Seq(Nat)
                              /\ Len(Row(base, i)) = SegLen
           /\ Rows(base, q) \in Seq(Seq(Nat)) /\ Len(Rows(base, q)) = q
<1>1. ASSUME NEW i \in 1..q
      PROVE  Rows(base, q)[i] = Row(base, i) /\ Row(base, i) \in Seq(Nat) /\ Len(Row(base, i)) = SegLen
  <2>1. i - 1 \in Nat
    OBVIOUS
  <2>2. base + (i - 1) * SegLen \in Nat
    <3>1. (i - 1) * SegLen \in Nat
      BY <2>1, Bytes
    <3> QED
      BY <3>1
  <2> QED
    BY <2>2, Bytes, RunIsSeq DEF Rows, Row
<1>2. Rows(base, q) \in [1..q -> Seq(Nat)]
  BY <1>1 DEF Rows
<1>3. Rows(base, q) \in Seq(Seq(Nat)) /\ Len(Rows(base, q)) = q
  BY <1>2
<1> QED
  BY <1>1, <1>3

\* Where a segment of the queue starts.
LEMMA RowAt ==
    ASSUME NEW base \in Nat, NEW q \in Nat, NEW i \in Nat
    PROVE  /\ base + q * SegLen \in Nat
           /\ Row(base + q * SegLen, i) = Row(base, q + i)
<1>1. base + q * SegLen \in Nat
  <2>1. q * SegLen \in Nat
    BY Bytes
  <2> QED
    BY <2>1
<1>2. (base + q * SegLen) + (i - 1) * SegLen = base + ((q + i) - 1) * SegLen
  <2>1. SegLen \in Nat
    BY Bytes
  <2>2. ((q + i) - 1) * SegLen = q * SegLen + (i - 1) * SegLen
    BY <2>1
  <2>3. q * SegLen \in Int /\ (i - 1) * SegLen \in Int
    BY <2>1
  <2> QED
    BY <2>2, <2>3
<1> QED
  BY <1>1, <1>2 DEF Row

\* Two sequences of segments that agree at every place are the same.
LEMMA SegmentsEqual ==
    ASSUME NEW s \in Seq(Seq(Nat)), NEW t \in Seq(Seq(Nat)), Len(s) = Len(t),
           \A i \in 1..Len(s) : s[i] = t[i]
    PROVE  s = t
BY SeqEqual

\* The first segment of a queue and the rest of it.
LEMMA FirstRow ==
    ASSUME NEW base \in Nat, NEW q \in Nat, q > 0
    PROVE  /\ Rows(base, q) # <<>> /\ Head(Rows(base, q)) = Run(base, SegLen)
           /\ Tail(Rows(base, q)) = Rows(base + SegLen, q - 1)
<1> DEFINE s == Rows(base, q)
           t == Rows(base + SegLen, q - 1)
<1>1. q - 1 \in Nat /\ base + SegLen \in Nat
  BY Bytes
<1>2. /\ s \in Seq(Seq(Nat)) /\ Len(s) = q
      /\ \A i \in 1..q : s[i] = Row(base, i)
  BY RowsAreSeq
<1>3. /\ t \in Seq(Seq(Nat)) /\ Len(t) = q - 1
      /\ \A i \in 1..(q - 1) : t[i] = Row(base + SegLen, i)
  BY <1>1, RowsAreSeq
<1> HIDE DEF s, t
<1>4. s # <<>> /\ Head(s) = s[1]
  BY <1>2
<1>5. s[1] = Run(base, SegLen)
  <2>1. s[1] = Row(base, 1)
    BY <1>2
  <2>2. base + (1 - 1) * SegLen = base
    BY Bytes
  <2> QED
    BY <2>1, <2>2 DEF Row
<1>6. Tail(s) \in Seq(Seq(Nat)) /\ Len(Tail(s)) = q - 1 /\ \A i \in 1..(q - 1) : Tail(s)[i] = s[i + 1]
  BY <1>2, <1>4, HeadTailProperties
<1>7. ASSUME NEW i \in 1..(q - 1) PROVE Tail(s)[i] = t[i]
  <2>1. Tail(s)[i] = s[i + 1] /\ i + 1 \in 1..q
    BY <1>6
  <2>2. s[i + 1] = Row(base, 1 + i)
    BY <1>2, <2>1
  <2>3. base + 1 * SegLen = base + SegLen
    BY Bytes
  <2>4. Row(base + 1 * SegLen, i) = Row(base, 1 + i)
    BY RowAt
  <2> QED
    BY <1>3, <2>1, <2>2, <2>3, <2>4
<1>8. Tail(s) = t
  BY <1>3, <1>6, <1>7, SegmentsEqual
<1> QED
  BY <1>4, <1>5, <1>8 DEF s, t

\* A queue that is extended by the segments that follow it.
LEMMA RowsJoined ==
    ASSUME NEW base \in Nat, NEW q \in Nat, NEW k \in Nat
    PROVE  Rows(base, q) \o Rows(base + q * SegLen, k) = Rows(base, q + k)
<1> DEFINE s == Rows(base, q)
           t == Rows(base + q * SegLen, k)
           u == Rows(base, q + k)
<1>1. s \in Seq(Seq(Nat)) /\ Len(s) = q /\ \A i \in 1..q : s[i] = Row(base, i)
  BY RowsAreSeq
<1>2. t \in Seq(Seq(Nat)) /\ Len(t) = k /\ \A i \in 1..k : t[i] = Row(base, q + i)
  <2>1. base + q * SegLen \in Nat
    BY RowAt
  <2>2. /\ t \in Seq(Seq(Nat)) /\ Len(t) = k
        /\ \A i \in 1..k : t[i] = Row(base + q * SegLen, i)
    BY <2>1, RowsAreSeq
  <2>3. \A i \in 1..k : Row(base + q * SegLen, i) = Row(base, q + i)
    BY RowAt
  <2> QED
    BY <2>2, <2>3
<1>3. u \in Seq(Seq(Nat)) /\ Len(u) = q + k /\ \A i \in 1..(q + k) : u[i] = Row(base, i)
  <2>1. q + k \in Nat
    OBVIOUS
  <2> QED
    BY <2>1, RowsAreSeq
<1> HIDE DEF s, t, u
<1>4. /\ s \o t \in Seq(Seq(Nat)) /\ Len(s \o t) = q + k
      /\ \A i \in 1..(q + k) : (s \o t)[i] = IF i <= q THEN s[i] ELSE t[i - q]
  BY <1>1, <1>2, ConcatProperties
<1>5. ASSUME NEW i \in 1..(q + k) PROVE (s \o t)[i] = u[i]
  <2>1. CASE i <= q
    BY <1>1, <1>3, <1>4, <2>1
  <2>2. CASE ~(i <= q)
    <3>1. i - q \in 1..k /\ q + (i - q) = i
      BY <2>2
    <3> QED
      BY <1>2, <1>3, <1>4, <2>2, <3>1
  <2> QED
    BY <2>1, <2>2
<1>6. s \o t = u
  BY <1>3, <1>4, <1>5, SegmentsEqual
<1> QED
  BY <1>6 DEF s, t, u

\* The bytes of a queue are those of a run.
LEMMA RowsFlat ==
    ASSUME NEW base \in Nat, NEW q \in Nat
    PROVE  Flatten(Rows(base, q)) = Run(base, q * SegLen)
<1> DEFINE segs == Rows(base, q)
           Is(f) == f = [i \in 0..Len(segs) |-> IF i = 0 THEN <<>> ELSE f[i - 1] \o segs[i]]
           w == [i \in 0..q |-> Run(base, i * SegLen)]
<1>1. Len(segs) = q /\ \A i \in 1..q : segs[i] = Row(base, i)
  BY RowsAreSeq
<1>2. Run(base, 0 * SegLen) = <<>>
  BY Bytes DEF Run
<1>3. \A i \in 1..q : Run(base, (i - 1) * SegLen) \o Row(base, i) = Run(base, i * SegLen)
  <2>1. TAKE i \in 1..q
  <2>2. i - 1 \in Nat /\ (i - 1) * SegLen \in Nat /\ SegLen \in Nat
    BY Bytes
  <2>3. Run(base, (i - 1) * SegLen) \o Run(base + (i - 1) * SegLen, SegLen)
          = Run(base, (i - 1) * SegLen + SegLen)
    BY <2>2, RunsJoined
  <2>4. (i - 1) * SegLen + SegLen = i * SegLen
    BY Bytes
  <2> QED
    BY <2>3, <2>4 DEF Row
<1> HIDE DEF segs
<1>4. Is(w)
  <2>1. ASSUME NEW i \in 0..q
        PROVE  w[i] = IF i = 0 THEN <<>> ELSE w[i - 1] \o segs[i]
    <3>1. CASE i = 0
      BY <1>2, <3>1
    <3>2. CASE i # 0
      <4>1. i \in 1..q /\ i - 1 \in 0..q
        BY <3>2
      <4>2. w[i] = Run(base, i * SegLen) /\ w[i - 1] = Run(base, (i - 1) * SegLen)
        BY <4>1
      <4> QED
        BY <1>1, <1>3, <3>2, <4>1, <4>2
    <3> QED
      BY <3>1, <3>2
  <2>2. w = [i \in 0..q |-> w[i]]
    OBVIOUS
  <2> HIDE DEF w
  <2>3. w = [i \in 0..q |-> IF i = 0 THEN <<>> ELSE w[i - 1] \o segs[i]]
    BY <2>1, <2>2
  <2> QED
    BY <1>1, <2>3
<1> DEFINE g == CHOOSE f : Is(f)
<1>5. Is(g)
  BY <1>4
<1>6. Flatten(segs) = g[q]
  BY <1>1 DEF Flatten
<1>7. /\ g[0] = <<>>
      /\ \A i \in 1..q : g[i] = g[i - 1] \o segs[i]
  <2>1. \A i \in 0..q : g[i] = IF i = 0 THEN <<>> ELSE g[i - 1] \o segs[i]
    <3> HIDE DEF g
    <3> QED
      BY <1>1, <1>5
  <2> HIDE DEF g
  <2>2. 0 \in 0..q /\ \A i \in 1..q : i \in 0..q /\ i # 0
    OBVIOUS
  <2> QED
    BY <2>1, <2>2
<1> HIDE DEF g, w, Is
<1> DEFINE Bad == {i \in 0..q : g[i] # Run(base, i * SegLen)}
<1>8. Bad = {}
  <2>1. SUFFICES ASSUME Bad # {} PROVE FALSE
    OBVIOUS
  <2>2. PICK n \in Bad : \A m \in Bad : n <= m
    <3>1. Bad \subseteq Nat
      OBVIOUS
    <3> HIDE DEF Bad
    <3> QED
      BY <2>1, <3>1, LeastNumber
  <2>3. n \in 1..q /\ n - 1 \in 0..q
    BY <1>2, <1>7, <2>2
  <2>4. g[n - 1] = Run(base, (n - 1) * SegLen)
    <3>1. ~(n <= n - 1)
      BY <2>3
    <3>2. n - 1 \notin Bad
      <4> HIDE DEF Bad
      <4> QED
        BY <2>2, <3>1
    <3> QED
      BY <2>3, <3>2
  <2>5. g[n] = Run(base, n * SegLen)
    BY <1>1, <1>3, <1>7, <2>3, <2>4
  <2> QED
    BY <2>2, <2>5
<1>9. g[q] = Run(base, q * SegLen)
  BY <1>8
<1> QED
  BY <1>6, <1>9 DEF segs

\* What Hand leaves of a run it cuts.
LEMMA HandCuts ==
    ASSUME NEW r, NEW n \in 1..SegLen, NEW queue,
           NEW a \in Nat, NEW b \in Nat, returned = Run(0, a),
           Hand(r, n, Run(a, b), queue)
    PROVE  \E k \in 0..b :
              /\ a + k \in Nat /\ b - k \in Nat
              /\ returned' = Run(0, a + k) /\ bufptr' = Run(a + k, b - k)
              /\ rcv_queue' = queue /\ arrived' = arrived
<1> DEFINE k == IF n <= b THEN n ELSE b
<1>1. Len(Run(a, b)) = b
  BY RunIsSeq
<1>2. /\ returned' = returned \o SubSeq(Run(a, b), 1, k)
      /\ bufptr' = SubSeq(Run(a, b), k + 1, b)
      /\ rcv_queue' = queue /\ arrived' = arrived
  BY <1>1 DEF Hand
<1>3. k \in 0..b /\ k \in Nat /\ a + k \in Nat /\ b - k \in Nat
  BY Bytes
<1> HIDE DEF k
<1>4. SubSeq(Run(a, b), 1, k) = Run(a, k) /\ SubSeq(Run(a, b), k + 1, b) = Run(a + k, b - k)
  BY <1>3, RunCut
<1>5. Run(0, a) \o Run(a, k) = Run(0, a + k)
  <2>1. Run(0, a) \o Run(0 + a, k) = Run(0, a + k)
    BY <1>3, RunsJoined
  <2> QED
    BY <2>1
<1> QED
  BY <1>2, <1>3, <1>4, <1>5

\* Read takes the stream in order, whichever goroutine comes first.
LEMMA TakeDataKeepsOrder ==
    ASSUME NEW r, NEW n \in 1..SegLen, StreamInv, TakeData(r, n)
    PROVE  StreamInv'
<1>1. PICK a \in Nat, b \in Nat, q \in Nat :
         /\ returned = Run(0, a) /\ bufptr = Run(a, b)
         /\ rcv_queue = Rows(a + b, q) /\ arrived = (a + b) + q * SegLen
  BY DEF StreamInv
<1>2. CASE bufptr # <<>>
  <2>1. PICK k \in 0..b :
              /\ a + k \in Nat /\ b - k \in Nat
              /\ returned' = Run(0, a + k) /\ bufptr' = Run(a + k, b - k)
              /\ rcv_queue' = rcv_queue /\ arrived' = arrived
    BY <1>1, <1>2, HandCuts DEF TakeData
  <2>2. (a + k) + (b - k) = a + b
    OBVIOUS
  <2>3. /\ rcv_queue' = Rows((a + k) + (b - k), q)
        /\ arrived' = ((a + k) + (b - k)) + q * SegLen
    BY <1>1, <2>1, <2>2
  <2> QED
    BY <2>1, <2>3 DEF StreamInv
<1>3. CASE bufptr = <<>>
  <2>1. b = 0 /\ a + b = a
    <3>1. Len(bufptr) = b
      BY <1>1, RunIsSeq
    <3> QED
      BY <1>3, <3>1
  <2>2. q > 0
    <3>1. rcv_queue # <<>>
      BY <1>3 DEF TakeData, PeekSize
    <3>2. Len(rcv_queue) = q /\ rcv_queue \in Seq(Seq(Nat))
      BY <1>1, <2>1, RowsAreSeq
    <3> QED
      BY <3>1, <3>2
  <2>3. /\ Head(rcv_queue) = Run(a, SegLen)
        /\ Tail(rcv_queue) = Rows(a + SegLen, q - 1)
    BY <1>1, <2>1, <2>2, FirstRow
  <2>4. Hand(r, n, Run(a, SegLen), Rows(a + SegLen, q - 1))
    BY <1>3, <2>3 DEF TakeData
  <2>5. PICK k \in 0..SegLen :
              /\ a + k \in Nat /\ SegLen - k \in Nat
              /\ returned' = Run(0, a + k) /\ bufptr' = Run(a + k, SegLen - k)
              /\ rcv_queue' = Rows(a + SegLen, q - 1) /\ arrived' = arrived
    BY <1>1, <2>4, Bytes, HandCuts
  <2>6. q - 1 \in Nat /\ (a + k) + (SegLen - k) = a + SegLen
    BY <2>2, Bytes
  <2>7. arrived = (a + SegLen) + (q - 1) * SegLen
    <3>1. ((q - 1) + 1) * SegLen = (q - 1) * SegLen + 1 * SegLen
      BY <2>6, Bytes
    <3>2. (q - 1) + 1 = q
      OBVIOUS
    <3>3. q * SegLen = (q - 1) * SegLen + SegLen
      BY <3>1, <3>2, Bytes
    <3>4. (q - 1) * SegLen \in Nat /\ SegLen \in Nat
      BY <2>6, Bytes
    <3> QED
      BY <1>1, <2>1, <3>3, <3>4
  <2>8. /\ rcv_queue' = Rows((a + k) + (SegLen - k), q - 1)
        /\ arrived' = ((a + k) + (SegLen - k)) + (q - 1) * SegLen
    BY <2>5, <2>6, <2>7
  <2> QED
    BY <2>5, <2>6, <2>8 DEF StreamInv
<1> QED
  BY <1>2, <1>3

\* Input puts the next segments at the end of the queue.
LEMMA KcpInputKeepsOrder ==
    ASSUME StreamInv, KcpInput
    PROVE  StreamInv'
<1>1. PICK a \in Nat, b \in Nat, q \in Nat :
         /\ returned = Run(0, a) /\ bufptr = Run(a, b)
         /\ rcv_queue = Rows(a + b, q) /\ arrived = (a + b) + q * SegLen
  BY DEF StreamInv
<1>2. PICK k \in 0..MaxInput :
         /\ rcv_queue' = rcv_queue \o Segments(k)
         /\ arrived' = arrived + k * SegLen
         /\ returned' = returned /\ bufptr' = bufptr
  BY DEF KcpInput, KcpInputOf
<1>3. k \in Nat /\ a + b \in Nat /\ q + k \in Nat
  BY ConstantsAssumption DEF ConstantsAssumption
<1>4. Segments(k) = Rows((a + b) + q * SegLen, k)
  BY <1>1 DEF Segments, Rows, Row, Run
<1>5. Rows(a + b, q) \o Rows((a + b) + q * SegLen, k) = Rows(a + b, q + k)
  BY <1>3, RowsJoined
<1>6. arrived' = (a + b) + (q + k) * SegLen
  <2>1. (q + k) * SegLen = q * SegLen + k * SegLen /\ q * SegLen \in Nat /\ k * SegLen \in Nat
    BY <1>3, Bytes
  <2> QED
    BY <1>1, <1>2, <1>3, <2>1
<1> QED
  BY <1>1, <1>2, <1>3, <1>4, <1>5, <1>6 DEF StreamInv

\* However reads, short reads, input and a Close are interleaved, and with any number
\* of goroutines in Read, what was returned, what is left in bufptr and what is queued
\* are consecutive pieces of the stream that arrived.
THEOREM StreamInOrder == Spec => []StreamInv
<1>1. ASSUME Init PROVE StreamInv
  <2>1. Run(0, 0) = <<>> /\ Rows(0 + 0, 0) = <<>> /\ (0 + 0) + 0 * SegLen = 0
    BY Bytes DEF Run, Rows
  <2> QED
    BY <1>1, <2>1 DEF Init, StreamInv
<1>2. ASSUME StreamInv, [Next]_vars PROVE StreamInv'
  <2>1. CASE UNCHANGED rcvVars
    BY <1>2, <2>1 DEF rcvVars, StreamInv
  <2>2. ASSUME NEW t \in Threads, Call(t) PROVE UNCHANGED rcvVars
    BY <2>2 DEF Call
  <2>3. ASSUME NEW r \in Readers, ReadCheck(r) PROVE StreamInv'
    <3>1. CASE \E n \in 1..SegLen : TakeData(r, n)
      BY <1>2, <3>1, TakeDataKeepsOrder
    <3> QED
      BY <2>1, <2>3, <3>1 DEF ReadCheck
  <2>4. ASSUME NEW r \in Readers, ReadSelect(r) PROVE UNCHANGED rcvVars
    BY <2>4 DEF ReadSelect
  <2>5. ASSUME NEW w \in Writers, WriteCheck(w) \/ WriteSelect(w) PROVE UNCHANGED rcvVars
    BY <2>5 DEF WriteCheck, WriteSelect
  <2>6. CASE KcpInput
    BY <1>2, <2>6, KcpInputKeepsOrder
  <2>7. CASE Update \/ ReadLoopError \/ Close \/ Tick
    BY <2>1, <2>7 DEF Update, ReadLoopError, Close, Tick
  <2>8. ASSUME NEW d, SetReadDeadline(d) \/ SetWriteDeadline(d) \/ SetDeadline(d)
        PROVE  UNCHANGED rcvVars
    BY <2>8 DEF SetReadDeadline, SetWriteDeadline, SetDeadline
  <2>9. CASE UNCHANGED vars
    BY <2>1, <2>9 DEF vars, rcvVars
  <2> QED
    BY <1>2, <2>1, <2>2, <2>3, <2>4, <2>5, <2>6, <2>7, <2>8, <2>9 DEF Next
<1> QED
  BY <1>1, <1>2, PTL DEF Spec

\* Between them the readers get every byte that arrived, once and in order, whatever
\* the sizes of their buffers and however many of them there are.
THEOREM StreamWhole == Spec => []BytesConserved
<1>1. ASSUME StreamInv PROVE BytesConserved
  <2>1. PICK a \in Nat, b \in Nat, q \in Nat :
           /\ returned = Run(0, a) /\ bufptr = Run(a, b)
           /\ rcv_queue = Rows(a + b, q) /\ arrived = (a + b) + q * SegLen
    BY <1>1 DEF StreamInv
  <2>2. a + b \in Nat /\ q * SegLen \in Nat
    BY Bytes
  <2>3. Run(0, a) \o Run(a, b) = Run(0, a + b)
    <3>1. Run(0, a) \o Run(0 + a, b) = Run(0, a + b)
      BY RunsJoined
    <3> QED
      BY <3>1
  <2>4. Flatten(rcv_queue) = Run(a + b, q * SegLen)
    BY <2>1, <2>2, RowsFlat
  <2>5. Run(0, a + b) \o Run(a + b, q * SegLen) = Run(0, arrived)
    <3>1. Run(0, a + b) \o Run(0 + (a + b), q * SegLen) = Run(0, (a + b) + q * SegLen)
      BY <2>2, RunsJoined
    <3>2. 0 + (a + b) = a + b
      BY <2>2
    <3> QED
      BY <2>1, <3>1, <3>2
  <2>6. arrived \in Nat
    BY <2>1, <2>2
  <2>7. Run(0, arrived) = [i \in 1..arrived |-> i]
    <3>1. \A i \in 1..arrived : 0 + i = i
      BY <2>6
    <3> QED
      BY <3>1 DEF Run
  <2> QED
    BY <2>1, <2>3, <2>4, <2>5, <2>7 DEF BytesConserved
<1> QED
  BY <1>1, StreamInOrder, PTL

=============================================================================
