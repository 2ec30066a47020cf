----------------------------- MODULE TimerQueue -----------------------------
(***************************************************************************)
(* timer_queue.js: the timers of mails that wait for another attempt, in   *)
(* the order of their times.  outbound.js adds them, fire runs from an     *)
(* interval and drain on flush_queue; a callback may add its mail again.   *)
(* Both loops run to their end before any other event, but are followed    *)
(* callback by callback.  Times are ticks of a clock that may be set back. *)
(***************************************************************************)
EXTENDS Integers, Sequences, FiniteSets

CONSTANTS
    Delays,      \* the ms of add, in ticks
    MaxAdds,     \* bound: timers
    MaxTime,     \* bound: the clock
    MaxBack      \* bound: times the clock is set back

VARIABLES
    queue,       \* timers: id (in the order of add), fire_time, cb
    loop,        \* "none", "fire", "drain": the loop that is running
    clock,       \* Date.now() and the time the running fire has taken
    added,       \* the number of timers made
    ran,         \* those whose callbacks ran, and those cancelled
    backs,
    thrown

vars == <<queue, loop, clock, added, ran, backs, thrown>>

Init ==
    /\ queue = <<>>
    /\ loop = "none"
    /\ clock = [now |-> 0, taken |-> 0]
    /\ added = 0
    /\ ran = {}
    /\ backs = 0
    /\ thrown = FALSE

-----------------------------------------------------------------------------
TQTimer(ms) == [id |-> added + 1, fire_time |-> clock.now + ms, cb |-> TRUE]

\* Where the loop of add finds a later timer.
Later(q, t) == {i \in DOMAIN q : q[i].fire_time > t}
First(S) == CHOOSE i \in S : \A j \in S : i <= j
Spliced(q, i, timer) == SubSeq(q, 1, i - 1) \o <<timer>> \o SubSeq(q, i, Len(q))

\* q with timer in it.
\* (..._Name: the form of a mutant that PROJECT.json names.)
Inserted_AtEqual(q, timer) ==
    IF q = <<>> \/ timer.fire_time > q[Len(q)].fire_time THEN Append(q, timer)
    ELSE Spliced(q, First({i \in DOMAIN q : q[i].fire_time >= timer.fire_time}), timer)

Inserted(q, timer) ==
    IF q = <<>> \/ timer.fire_time >= q[Len(q)].fire_time THEN Append(q, timer)
    ELSE Spliced(q, First(Later(q, timer.fire_time)), timer)

\* add to q, a queue in the middle of a loop or not.
Add(q) ==
    /\ added < MaxAdds
    /\ \E ms \in Delays :
          /\ queue' = Inserted(q, TQTimer(ms))
          /\ thrown' = (thrown \/ (/\ q # <<>> /\ TQTimer(ms).fire_time < q[Len(q)].fire_time
                                   /\ Later(q, TQTimer(ms).fire_time) = {}))
    /\ added' = added + 1

add ==
    /\ loop = "none"
    /\ Add(queue)
    /\ UNCHANGED <<loop, clock, ran, backs>>

cancel ==
    /\ loop = "none"
    /\ \E i \in DOMAIN queue :
          /\ queue[i].cb
          /\ queue' = [queue EXCEPT ![i].cb = FALSE]
          /\ ran' = ran \union {queue[i].id}
    /\ UNCHANGED <<loop, clock, added, backs, thrown>>

\* The interval.
fire ==
    /\ loop = "none" /\ queue # <<>>
    /\ loop' = "fire"
    /\ clock' = [clock EXCEPT !.taken = clock.now]
    /\ UNCHANGED <<queue, added, ran, backs, thrown>>

\* flush_queue.
drain ==
    /\ loop = "none" /\ queue # <<>>
    /\ loop' = "drain"
    /\ UNCHANGED <<queue, clock, added, ran, backs, thrown>>

Due(q) == q # <<>> /\ (loop = "drain" \/ Head(q).fire_time <= clock.taken)

\* One round of the running loop; the callback may add.
callback ==
    /\ loop # "none" /\ Due(queue)
    /\ ran' = ran \union {Head(queue).id}
    /\ \/ queue' = Tail(queue) /\ UNCHANGED <<added, thrown>>
       \/ Head(queue).cb /\ Add(Tail(queue))
    /\ UNCHANGED <<loop, clock, backs>>

finish ==
    /\ loop # "none" /\ ~Due(queue)
    /\ loop' = "none"
    /\ UNCHANGED <<queue, clock, added, ran, backs, thrown>>

\* Time passes, or the clock is set back.
tick ==
    /\ clock.now < MaxTime
    /\ clock' = [clock EXCEPT !.now = @ + 1]
    /\ UNCHANGED <<queue, loop, added, ran, backs, thrown>>

set_back ==
    /\ backs < MaxBack /\ clock.now > 0
    /\ backs' = backs + 1
    /\ clock' = [clock EXCEPT !.now = @ - 1]
    /\ UNCHANGED <<queue, loop, added, ran, thrown>>

Next == add \/ cancel \/ fire \/ drain \/ callback \/ finish \/ tick \/ set_back

Spec == Init /\ [][Next]_vars
FairSpec == Spec /\ WF_vars(fire) /\ WF_vars(callback \/ finish) /\ WF_vars(tick)

-----------------------------------------------------------------------------
(* Properties.                                                             *)

\* The queue is in the order of the times, and timers of one time are in the
\* order in which they were added, so that fire, which stops at the first
\* timer that is not due, leaves none that is, and add's last line ("Should
\* never get here") is never reached.
InOrder ==
    /\ \A i, j \in DOMAIN queue : i < j =>
          \/ queue[i].fire_time < queue[j].fire_time
          \/ queue[i].fire_time = queue[j].fire_time /\ queue[i].id < queue[j].id
    /\ ~thrown

\* Every timer is in the queue, or its callback was run or cancelled.
NoneLost == {queue[i].id : i \in DOMAIN queue} \union ran = 1..added

\* Without drain no timer runs before its time.
InTime == loop = "fire" /\ ran' # ran => Head(queue).fire_time <= clock.taken

NotBefore == [][InTime]_vars

\* In the end no timer is left whose time has come.
NoneDue == \A i \in DOMAIN queue : queue[i].fire_time > clock.now

AllRun == <>[]NoneDue
=============================================================================
