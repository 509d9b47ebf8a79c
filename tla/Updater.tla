------------------------------ MODULE Updater ------------------------------
(***************************************************************************)
(* The updater (third_party/kcp-go/updater.go): one goroutine, updateTask, *)
(* flushes every open session of the process when its time has come.  The  *)
(* sessions are in a heap ordered by that time; each knows its place in it *)
(* (updaterIdx), so that Close can take it out.  It runs as a part of      *)
(* Server.                                                                 *)
(*                                                                         *)
(* Abstractions.                                                           *)
(*  - Instants are relative to the clock: an entry is due when ts <= 0.    *)
(*  - Of a session only its mutex is kept; what update flushes is KCP.tla. *)
(*  - Places of the heap are counted from 1; updaterIdx is 0 instead of -1 *)
(*    when a session is not in it.                                         *)
(***************************************************************************)
EXTENDS Integers, Sequences, FiniteSetsExt

CONSTANTS
    Sessions,
    Intervals,  \* what flush may return, in instants; there is a longest
    MaxLate     \* bound: how late updateTask may be

ASSUME ConstantsAssumption ==
    /\ Intervals \subseteq Nat \ {0}
    /\ \E m \in Intervals : \A i \in Intervals : i <= m
    /\ MaxLate \in Nat

VARIABLES
    entries,    \* the heap: records of ts and s
    updaterIdx, \* place of each session in the heap
    holdsMu,    \* updateTask holds h.mu
    task,       \* where updateTask is: "select", "lock", "loop" or "update"
    left,       \* iterations of its loop left
    chWakeUp,   \* chWakeUp holds a token
    timer,      \* instant at which the timer fires, Off when it has
    timerC,     \* timer.C holds a value
    waking,     \* sessions whose addSession has yet to call wakeup
    open,       \* sessions in use
    busy        \* sessions whose mutex another goroutine holds

vars == <<entries, updaterIdx, holdsMu, task, left, chWakeUp, timer, timerC, waking, open, busy>>
heap == <<entries, updaterIdx>>

Instant == (-MaxLate)..Max(Intervals)
Off == Max(Intervals) + 1

\* The heap holds sessions and the instants they are due, no further off than the
\* longest interval; updateTask is at one of its statements.
TypeOK ==
    /\ entries \in Seq([ts : Instant, s : Sessions])
    /\ updaterIdx \in [Sessions -> Nat]
    /\ task \in {"select", "lock", "loop", "update"} /\ left \in Nat
    /\ {holdsMu, chWakeUp, timerC} \subseteq BOOLEAN
    /\ timer \in Instant \cup {Off}
    /\ waking \subseteq Sessions /\ open \subseteq Sessions /\ busy \subseteq Sessions

\* time.NewTimer(0): the first time round there may be nothing to do.
Init ==
    /\ entries = <<>> /\ updaterIdx = [s \in Sessions |-> 0]
    /\ holdsMu = FALSE /\ task = "select" /\ left = 0
    /\ chWakeUp = FALSE /\ timer = 0 /\ timerC = FALSE
    /\ waking = {} /\ open = {} /\ busy = {}

-----------------------------------------------------------------------------
(* The heap: container/heap over Less, Swap, Push and Pop.  h is a record   *)
(* of the entries q and of the sessions' places idx.                        *)

Heap == [q |-> entries, idx |-> updaterIdx]

Less(h, i, j) == h.q[i].ts < h.q[j].ts

\* Mutant: only one of the two sessions learns its place.
Swap_OneIndex(h, i, j) ==
    [q |-> [h.q EXCEPT ![i] = h.q[j], ![j] = h.q[i]],
     idx |-> [h.idx EXCEPT ![h.q[j].s] = i]]

Swap(h, i, j) ==
    [q |-> [h.q EXCEPT ![i] = h.q[j], ![j] = h.q[i]],
     idx |-> [h.idx EXCEPT ![h.q[j].s] = i, ![h.q[i].s] = j]]

\* One turn of heap.up: the entry at r.at changes places with a later parent.
RiseOnce(r) ==
    LET parent == r.at \div 2
    IN  IF r.at > 1 /\ Less(r.h, r.at, parent)
        THEN [h |-> Swap(r.h, r.at, parent), at |-> parent] ELSE r

Up(h, i) ==
    LET rise[k \in 0..Len(h.q)] == IF k = 0 THEN [h |-> h, at |-> i] ELSE RiseOnce(rise[k - 1])
    IN  rise[Len(h.q)].h

\* One turn of heap.down: the entry at r.at changes places with the earlier of its
\* children among the first n, if that is earlier than itself.
Child(h, at, n) == IF 2 * at < n /\ Less(h, 2 * at + 1, 2 * at) THEN 2 * at + 1 ELSE 2 * at

SinkOnce(r, n) ==
    LET child == Child(r.h, r.at, n)
    IN  IF child <= n /\ Less(r.h, child, r.at)
        THEN [h |-> Swap(r.h, r.at, child), at |-> child] ELSE r

Down(h, i, n) ==
    LET sink[k \in 0..n] == IF k = 0 THEN [h |-> h, at |-> i] ELSE SinkOnce(sink[k - 1], n)
    IN  sink[n].h

Push(h, e) ==
    LET n == Len(h.q) + 1
    IN  Up([q |-> Append(h.q, e), idx |-> [h.idx EXCEPT ![e.s] = n]], n)

Pop(h) ==
    LET n == Len(h.q)
    IN  [q |-> SubSeq(h.q, 1, n - 1), idx |-> [h.idx EXCEPT ![h.q[n].s] = 0]]

\* heap.Remove: the last entry takes the place and sinks, or else rises.
Removed(h, i) ==
    LET n == Len(h.q)
        swapped == Swap(h, i, n)
        sunk == Down(swapped, i, n - 1)
    IN  IF i = n THEN Pop(h)
        ELSE Pop(IF sunk # swapped THEN sunk
                 ELSE [Up([swapped EXCEPT !.q = SubSeq(@, 1, n - 1)], i)
                       EXCEPT !.q = Append(@, swapped.q[n])])

\* heap.Fix(h, 0).
Fixed(h) == Down(h, 1, Len(h.q))

SetHeap(h) == entries' = h.q /\ updaterIdx' = h.idx

-----------------------------------------------------------------------------
(* The sessions *)

\* newUDPSession: addSession pushes with the current time under h.mu...
Add(s) ==
    /\ s \notin open /\ s \notin waking /\ ~holdsMu
    /\ SetHeap(Push(Heap, [ts |-> 0, s |-> s]))
    /\ open' = open \cup {s} /\ waking' = waking \cup {s}
    /\ UNCHANGED <<holdsMu, task, left, chWakeUp, timer, timerC, busy>>

\* Mutant: a session added to an empty heap wakes nobody.
Wakes_NotFirst == Len(entries) > 1

\* ... and then wakes updateTask, unless a token is there.
Wakes == TRUE

Wakeup(s) ==
    /\ s \in waking
    /\ waking' = waking \ {s} /\ chWakeUp' = (chWakeUp \/ Wakes)
    /\ UNCHANGED <<entries, updaterIdx, holdsMu, task, left, timer, timerC, open, busy>>

\* Close: removeSession; a second Close finds nothing to remove.
Remove(s) ==
    /\ s \in open /\ s \notin waking /\ ~holdsMu
    /\ IF updaterIdx[s] = 0 THEN UNCHANGED heap
       ELSE SetHeap(Removed(Heap, updaterIdx[s]))
    /\ UNCHANGED <<holdsMu, task, left, chWakeUp, timer, timerC, waking, open, busy>>

\* The mutex of s is free.
MayMark(s) == s \notin busy

\* ... and Close marks the session under its mutex.
Mark(s) ==
    /\ s \in open /\ MayMark(s) /\ s \notin waking /\ updaterIdx[s] = 0
    /\ open' = open \ {s}
    /\ UNCHANGED <<entries, updaterIdx, holdsMu, task, left, chWakeUp, timer, timerC, waking, busy>>

\* Read, WriteBuffers, kcpInput and the settings hold s.mu for a while, also of a session
\* that was closed.
Lock(s) ==
    /\ s \notin busy
    /\ busy' = busy \cup {s}
    /\ UNCHANGED <<entries, updaterIdx, holdsMu, task, left, chWakeUp, timer, timerC, waking, open>>

Unlock(s) ==
    /\ s \in busy
    /\ busy' = busy \ {s}
    /\ UNCHANGED <<entries, updaterIdx, holdsMu, task, left, chWakeUp, timer, timerC, waking, open>>

-----------------------------------------------------------------------------
(* updateTask *)

Select ==
    /\ task = "select"
    /\ \/ timerC /\ timerC' = FALSE /\ UNCHANGED chWakeUp
       \/ chWakeUp /\ chWakeUp' = FALSE /\ UNCHANGED timerC
    /\ task' = "lock"
    /\ UNCHANGED <<entries, updaterIdx, holdsMu, left, timer, waking, open, busy>>

TakeMu ==
    /\ task = "lock" /\ ~holdsMu
    /\ holdsMu' = TRUE /\ task' = "loop" /\ left' = Len(entries)
    /\ UNCHANGED <<entries, updaterIdx, chWakeUp, timer, timerC, waking, open, busy>>

HeadIsDue ==
    /\ task = "loop" /\ left > 0 /\ entries[1].ts <= 0
    /\ task' = "update"
    /\ UNCHANGED <<entries, updaterIdx, holdsMu, left, chWakeUp, timer, timerC, waking, open, busy>>

\* s.update under s.mu, and the session's next time.
Update ==
    /\ task = "update" /\ entries[1].s \notin busy
    /\ \E interval \in Intervals :
        SetHeap(Fixed([q |-> [entries EXCEPT ![1].ts = interval], idx |-> updaterIdx]))
    /\ left' = left - 1 /\ task' = "loop"
    /\ UNCHANGED <<holdsMu, chWakeUp, timer, timerC, waking, open, busy>>

\* Mutant: the timer is set for the entry updated last.
ResetTo_Last == entries[Len(entries)].ts

\* When the timer is to fire next.
ResetTo == entries[1].ts

\* The loop is over: timer.Reset, without draining timer.C, and Unlock.
Done ==
    /\ task = "loop"
    /\ left > 0 => entries[1].ts > 0
    /\ timer' = IF entries # <<>> THEN ResetTo ELSE timer
    /\ holdsMu' = FALSE /\ task' = "select" /\ left' = 0
    /\ UNCHANGED <<entries, updaterIdx, chWakeUp, timerC, waking, open, busy>>

Task == Select \/ TakeMu \/ HeadIsDue \/ Update \/ Done

-----------------------------------------------------------------------------
(* Time *)

Fire ==
    /\ timer <= 0
    /\ timer' = Off /\ timerC' = TRUE
    /\ UNCHANGED <<entries, updaterIdx, holdsMu, task, left, chWakeUp, waking, open, busy>>

Tick ==
    /\ timer > 0
    /\ \A i \in DOMAIN entries : entries[i].ts > -MaxLate
    /\ entries' = [i \in DOMAIN entries |-> [entries[i] EXCEPT !.ts = @ - 1]]
    /\ timer' = IF timer = Off THEN Off ELSE timer - 1
    /\ UNCHANGED <<updaterIdx, holdsMu, task, left, chWakeUp, timerC, waking, open, busy>>

Next ==
    \/ \E s \in Sessions : Add(s) \/ Wakeup(s) \/ Remove(s) \/ Mark(s) \/ Lock(s) \/ Unlock(s)
    \/ Task \/ Fire \/ Tick

Spec == Init /\ [][Next]_vars

-----------------------------------------------------------------------------
(* Properties *)

\* Every session knows its place in the heap, and is there once: a Close takes
\* its own session out of the updater and no other.
PlacesKnown ==
    /\ \A i \in DOMAIN entries : updaterIdx[entries[i].s] = i
    /\ \A s \in Sessions : updaterIdx[s] # 0 => /\ updaterIdx[s] \in DOMAIN entries
                                                /\ entries[updaterIdx[s]].s = s

\* The head of the heap is the earliest: updateTask looks at nothing else.
HeadIsEarliest ==
    \A i \in 2..Len(entries) : entries[i \div 2].ts <= entries[i].ts

\* updateTask does not sleep past the time of a session: the timer fires no
\* later than that, or something else is about to wake it.
WakesInTime ==
    task = "select" /\ entries # <<>> =>
        timerC \/ chWakeUp \/ waking # {} \/ timer <= entries[1].ts

\* Every session is updated again and again until it is removed, whichever
\* others come, go and are due as well.
KeptUpdated ==
    \A s \in Sessions : []<>(updaterIdx[s] = 0 \/ (task = "update" /\ entries[1].s = s))

\* The heap and the timer as addSession, removeSession and updateTask keep them: in
\* order, every session's place known to it, and no session's time slept through.
HeapInv == TypeOK /\ PlacesKnown /\ HeadIsEarliest /\ WakesInTime

=============================================================================
