-------------------------------- MODULE Timer --------------------------------
(***************************************************************************)
(* The timer of a reactor (Timer, timer.cpp): a multimap of events ordered *)
(* by arrival time under a lock, and one timerfd that is armed for them.   *)
(* The reactor's own thread handles the timerfd (OnTimer) and runs the     *)
(* tasks; it and other threads add and delete events.  Every place where   *)
(* the code lets go of the lock, or reads the clock, is a step of its own. *)
(***************************************************************************)
EXTENDS Naturals, FiniteSets, SequencesExt

CONSTANTS
    Events,    \* TimerEvent objects; each is added, and deleted, at most once
    Repeated,  \* those with is_repeated_
    Interval,  \* interval_ of each event, in clock ticks
    Loop,      \* the reactor's thread
    Others,    \* threads that add and delete events of this timer
    MaxTime,   \* bound: events are made while they arrive by then
    Never      \* no time, no event

Actors == {Loop} \cup Others

ASSUME TimerAssumption ==
    /\ Repeated \subseteq Events
    /\ Interval \in [Events -> Nat]
    /\ Loop \notin Others
    /\ MaxTime \in Nat /\ Never \notin Nat /\ Never \notin Events

VARIABLES
    now,        \* GetNowMs
    arrive,     \* arrive_time_
    cancelled,  \* is_canceled_
    status,     \* "new", "made", "added", or "ran" for one that does not repeat
    pending,    \* pending_events_, in its order
    armed,      \* the time the timerfd expires at
    readable,   \* the timerfd has expired and was not read
    pc,         \* where a thread is in a timer operation
    last,       \* the last arrival time a ResetArriveTime or an OnTimer saw
    subject,    \* the event an AddTimerEvent or a DelTimerEvent is about
    repeats,    \* repeated_tasks of OnTimer
    tasks,      \* tasks of OnTimer still to run
    deleted,    \* history: whether DelTimerEvent was called for an event, and
                \* whether OnTimer had its task by then
    lost,       \* history: the event in whose place an event was erased
    alone       \* only the reactor's thread uses the timer, and the clock
                \* stands still while one of its operations runs

history == <<deleted, lost>>
vars == <<now, arrive, cancelled, status, pending, armed, readable, pc, last,
          subject, repeats, tasks, history, alone>>

Times == 0 .. 2 * MaxTime
Steps == {"idle", "add", "reset", "arm", "erase", "collect", "repeat", "again"}

\* The shape of the timer's state, and the order of its map.
TypeOK ==
    /\ now \in Times
    /\ arrive \in [Events -> Times]
    /\ cancelled \in [Events -> BOOLEAN]
    /\ status \in [Events -> {"new", "made", "added", "ran"}]
    /\ pending \in Seq(Events)
    /\ \A i, j \in DOMAIN pending : i < j => arrive[pending[i]] <= arrive[pending[j]]
    /\ armed \in Times \cup {Never}
    /\ readable \in BOOLEAN
    /\ pc \in [Actors -> Steps]
    /\ last \in [Actors -> Times]
    /\ subject \in [Actors -> Events \cup {Never}]
    /\ repeats \in Seq(Events)
    /\ tasks \in Seq(Events)
    /\ deleted \in [Events -> {"no", "before", "after"}]
    /\ lost \in [Events -> Events \cup {Never}]
    /\ alone \in BOOLEAN

Init ==
    /\ now = 0
    /\ arrive = [e \in Events |-> 0]
    /\ cancelled = [e \in Events |-> FALSE]
    /\ status = [e \in Events |-> "new"]
    /\ pending = <<>>
    /\ armed = Never
    /\ readable = FALSE
    /\ pc = [a \in Actors |-> "idle"]
    /\ last = [a \in Actors |-> 0]
    /\ subject = [a \in Actors |-> Never]
    /\ repeats = <<>>
    /\ tasks = <<>>
    /\ deleted = [e \in Events |-> "no"]
    /\ lost = [e \in Events |-> Never]
    /\ alone \in BOOLEAN

Quiet == /\ \A a \in Actors : pc[a] = "idle"
         /\ tasks = <<>> /\ ~readable

\* Time passes, and the kernel's timer with it.
Tick ==
    /\ now < MaxTime
    /\ alone => Quiet
    /\ now' = now + 1
    /\ IF armed # Never /\ armed <= now'
       THEN readable' = TRUE /\ armed' = Never
       ELSE UNCHANGED <<readable, armed>>
    /\ UNCHANGED <<arrive, cancelled, status, pending, pc, last, subject,
                   repeats, tasks>>

\* The map with e in it: after the events that arrive no later.
Emplace(s, e, key) ==
    LET before == Cardinality({i \in DOMAIN s : key[s[i]] <= key[e]})
    IN  InsertAt(s, before + 1, e)

----------------------------------------------------------------------------
(* AddTimerEvent and ResetArriveTime                                       *)

\* A TimerEvent is made, and its arrival time with it ...
MakeEvent(a, e) ==
    /\ pc[a] = "idle" /\ status[e] = "new"
    /\ now + Interval[e] <= MaxTime
    /\ arrive' = [arrive EXCEPT ![e] = now + Interval[e]]
    /\ status' = [status EXCEPT ![e] = "made"]
    /\ subject' = [subject EXCEPT ![a] = e]
    /\ pc' = [pc EXCEPT ![a] = "add"]
    /\ UNCHANGED <<now, cancelled, pending, armed, readable, last, repeats, tasks, history>>

\* ... before it is put in the map under the lock; the timerfd is to be set
\* again when it is the earliest.
AddTimerEvent(a) ==
    /\ pc[a] = "add"
    /\ LET e == subject[a] IN
       /\ pending' = Emplace(pending, e, arrive)
       /\ status' = [status EXCEPT ![e] = "added"]
       /\ pc' = [pc EXCEPT ![a] =
                   IF pending = <<>> \/ arrive[e] < arrive[Head(pending)]
                   THEN "reset" ELSE "idle"]
    /\ subject' = [subject EXCEPT ![a] = Never]
    /\ UNCHANGED <<now, arrive, cancelled, armed, readable, last, repeats, tasks, history>>

\* ResetArriveTime copies the map under the lock: the last event is what counts.
CopyPending(a) ==
    /\ pc[a] = "reset"
    /\ IF pending = <<>>
       THEN pc' = [pc EXCEPT ![a] = "idle"] /\ UNCHANGED last
       ELSE /\ pc' = [pc EXCEPT ![a] = "arm"]
            /\ last' = [last EXCEPT ![a] = arrive[Last(pending)]]
    /\ UNCHANGED <<now, arrive, cancelled, status, pending, armed, readable,
                   subject, repeats, tasks>>

\* Mutant: the timerfd is set by the interval of the last event, not by what
\* is left of it.
SetTimeLate(a) ==
    /\ pc[a] = "arm"
    /\ pc' = [pc EXCEPT ![a] = "idle"]
    /\ IF last[a] <= now
       THEN UNCHANGED <<armed, readable>>
       ELSE /\ armed' = last[a] + (last[a] - now)
            /\ readable' = FALSE
    /\ UNCHANGED <<now, arrive, cancelled, status, pending, last, subject,
                   repeats, tasks>>

\* It reads the clock and sets the timerfd to the time left, which forgets an
\* expiry not yet read; nothing is set when the last event is in the past, and
\* a time left of zero disarms the timerfd.
SetTime(a) ==
    /\ pc[a] = "arm"
    /\ pc' = [pc EXCEPT ![a] = "idle"]
    /\ IF last[a] < now
       THEN UNCHANGED <<armed, readable>>
       ELSE /\ armed' = IF last[a] = now THEN Never ELSE last[a]
            /\ readable' = FALSE
    /\ UNCHANGED <<now, arrive, cancelled, status, pending, last, subject,
                   repeats, tasks>>

----------------------------------------------------------------------------
(* DelTimerEvent                                                           *)

\* The event is marked before the lock is taken: while it is in the map, while
\* OnTimer has its task, or after that has run.
Cancel(a, e) ==
    /\ pc[a] = "idle"
    /\ status[e] \in {"added", "ran"} /\ deleted[e] = "no"
    /\ cancelled' = [cancelled EXCEPT ![e] = TRUE]
    /\ deleted' = [deleted EXCEPT ![e] = IF e \in ToSet(tasks) THEN "after" ELSE "before"]
    /\ subject' = [subject EXCEPT ![a] = e]
    /\ pc' = [pc EXCEPT ![a] = "erase"]
    /\ UNCHANGED <<now, arrive, status, pending, armed, readable, last, repeats,
                   tasks, lost>>

\* Where e is in the map.
Places(e) == {i \in DOMAIN pending : pending[i] = e}

\* The place after the last event that arrives no later than e.
UpperBound(e) ==
    Cardinality({i \in DOMAIN pending : arrive[pending[i]] <= arrive[e]}) + 1

\* The events with e's arrival time are searched for e ...
EraseFound(a) ==
    /\ pc[a] = "erase"
    /\ \E i \in Places(subject[a]) : pending' = RemoveAt(pending, i)
    /\ subject' = [subject EXCEPT ![a] = Never]
    /\ pc' = [pc EXCEPT ![a] = "idle"]
    /\ UNCHANGED <<now, arrive, cancelled, status, armed, readable, last,
                   repeats, tasks, history>>

\* ... and when it is not among them the iterator is left at the event after
\* them, if there is one, and that event is erased.
EraseNext(a) ==
    /\ pc[a] = "erase"
    /\ Places(subject[a]) = {}
    /\ LET i == UpperBound(subject[a]) IN
       IF i <= Len(pending)
       THEN /\ pending' = RemoveAt(pending, i)
            /\ lost' = [lost EXCEPT ![pending[i]] = subject[a]]
       ELSE UNCHANGED <<pending, lost>>
    /\ subject' = [subject EXCEPT ![a] = Never]
    /\ pc' = [pc EXCEPT ![a] = "idle"]
    /\ UNCHANGED <<now, arrive, cancelled, status, armed, readable, last,
                   repeats, tasks, deleted>>

----------------------------------------------------------------------------
(* OnTimer, on the reactor's thread                                        *)

\* The loop's read event for the timerfd: it is read empty, then the clock.
ReadTimerFd ==
    /\ pc[Loop] = "idle" /\ tasks = <<>>
    /\ readable
    /\ readable' = FALSE
    /\ last' = [last EXCEPT ![Loop] = now]
    /\ pc' = [pc EXCEPT ![Loop] = "collect"]
    /\ UNCHANGED <<now, arrive, cancelled, status, pending, armed, subject,
                   repeats, tasks>>

\* Mutant: cancelled events are taken like the others.
ArrivedOrCancelled(time) ==
    Cardinality({i \in DOMAIN pending : arrive[pending[i]] <= time})

\* The number of events at the head of the map that have arrived by time and
\* are not cancelled.
Arrived(time) ==
    LET stops == {i \in DOMAIN pending :
                    arrive[pending[i]] > time \/ cancelled[pending[i]]}
    IN  IF stops = {} THEN Len(pending)
        ELSE (CHOOSE i \in stops : \A j \in stops : i <= j) - 1

\* Those of the events that are put back.
RepeatedOf(events) ==
    LET upTo[i \in 0 .. Len(events)] ==
          IF i = 0 THEN <<>>
          ELSE IF events[i] \in Repeated THEN Append(upTo[i - 1], events[i]) ELSE upTo[i - 1]
    IN  upTo[Len(events)]

\* Mutant: the map is cleared instead of erased up to the iterator.
CollectClears ==
    /\ pc[Loop] = "collect"
    /\ LET taken == SubSeq(pending, 1, Arrived(last[Loop])) IN
       /\ tasks' = taken
       /\ repeats' = RepeatedOf(taken)
    /\ pending' = <<>>
    /\ pc' = [pc EXCEPT ![Loop] = "repeat"]
    /\ UNCHANGED <<now, arrive, cancelled, status, armed, readable, last, subject>>

\* Under the lock the arrived events are taken off the map, up to the first
\* cancelled one.
Collect ==
    /\ pc[Loop] = "collect"
    /\ LET n == Arrived(last[Loop])
           taken == SubSeq(pending, 1, n)
       IN  /\ tasks' = taken
           /\ repeats' = RepeatedOf(taken)
           /\ pending' = SubSeq(pending, n + 1, Len(pending))
    /\ pc' = [pc EXCEPT ![Loop] = "repeat"]
    /\ UNCHANGED <<now, arrive, cancelled, status, armed, readable, last, subject>>

\* A repeated event is reset, whether it was deleted or not, ...
Reset ==
    /\ pc[Loop] = "repeat" /\ repeats # <<>>
    /\ arrive' = [arrive EXCEPT ![Head(repeats)] = now + Interval[Head(repeats)]]
    /\ cancelled' = [cancelled EXCEPT ![Head(repeats)] = FALSE]
    /\ pc' = [pc EXCEPT ![Loop] = "again"]
    /\ UNCHANGED <<now, status, pending, armed, readable, last, subject, repeats, tasks>>

\* ... and added again, without setting the timerfd.
AddAgain ==
    /\ pc[Loop] = "again"
    /\ pending' = Emplace(pending, Head(repeats), arrive)
    /\ repeats' = Tail(repeats)
    /\ pc' = [pc EXCEPT ![Loop] = "repeat"]
    /\ UNCHANGED <<now, arrive, cancelled, status, armed, readable, last, subject, tasks>>

\* Mutant: after the tasks were collected the timerfd is not set again.
RepeatsDoneNoReset ==
    /\ pc[Loop] = "repeat" /\ repeats = <<>>
    /\ pc' = [pc EXCEPT ![Loop] = "idle"]
    /\ UNCHANGED <<now, arrive, cancelled, status, pending, armed, readable,
                   last, subject, repeats, tasks>>

\* All repeated events are back: ResetArriveTime.
RepeatsDone ==
    /\ pc[Loop] = "repeat" /\ repeats = <<>>
    /\ pc' = [pc EXCEPT ![Loop] = "reset"]
    /\ UNCHANGED <<now, arrive, cancelled, status, pending, armed, readable,
                   last, subject, repeats, tasks>>

\* One task runs; what it does to the timer are the actions above, by Loop.
RunTask ==
    /\ pc[Loop] = "idle" /\ tasks # <<>>
    /\ status' = [status EXCEPT ![Head(tasks)] =
                    IF Head(tasks) \in Repeated THEN "added" ELSE "ran"]
    /\ tasks' = Tail(tasks)
    /\ UNCHANGED <<now, arrive, cancelled, pending, armed, readable, pc, last,
                   subject, repeats>>

OnTimer ==
    /\ ReadTimerFd \/ Collect \/ Reset \/ AddAgain \/ RepeatsDone \/ RunTask
    /\ UNCHANGED history

----------------------------------------------------------------------------

Continue(a) ==
    \/ AddTimerEvent(a) \/ EraseFound(a) \/ EraseNext(a)
    \/ (CopyPending(a) \/ SetTime(a)) /\ UNCHANGED history

\* The threads that use the timer.
Users == IF alone THEN {Loop} ELSE Actors

Next ==
    /\ \/ Tick /\ UNCHANGED history
       \/ OnTimer
       \/ \E a \in Users :
             \/ Continue(a)
             \/ \E e \in Events : MakeEvent(a, e) \/ Cancel(a, e)
    /\ UNCHANGED alone

Spec == Init /\ [][Next]_vars

----------------------------------------------------------------------------
(* What the timer must guarantee.                                          *)

\* The task of e is with OnTimer, or it has run, or e was itself lost.
Gone(e) == e \in ToSet(tasks) \/ status[e] = "ran" \/ lost[e] # Never

\* An event that was added and not deleted is in the map or among the tasks
\* OnTimer has taken, until its task has run: no expiry or re-addition of
\* another event drops it, and no deletion of one that still is in the map.
\* Only DelTimerEvent of an event that is no longer there, or that repeats,
\* costs another event its place, and never more than one.
NothingLost ==
    /\ \A e \in Events : status[e] = "added" /\ deleted[e] = "no" =>
          \/ e \in ToSet(pending) \cup ToSet(repeats) \cup ToSet(tasks)
          \/ lost[e] # Never
    /\ \A e \in Events : lost[e] # Never =>
          /\ deleted[lost[e]] # "no"
          /\ lost[e] \in Repeated \/ Gone(lost[e])
          /\ \A f \in Events : lost[f] = lost[e] => f = e

\* No event is twice in the map, and one that does not repeat is not in the
\* map once OnTimer has taken it: its task would run twice.
NeverTwice ==
    /\ IsInjective(pending) /\ IsInjective(tasks)
    /\ ToSet(pending) \cap ToSet(repeats) = {}
    /\ ToSet(pending) \cap ToSet(tasks) \subseteq Repeated

\* While events are pending and no operation is under way the timerfd is
\* armed or has expired: otherwise no OnTimer would ever come.
TimerArmed ==
    pending # <<>> /\ (\A a \in Actors : pc[a] = "idle") =>
        readable \/ armed # Never

\* An event is overdue by no more than the longest interval: the timerfd is
\* set for the last event, not for the first, but never set again while one
\* is overdue.
NotTooLate ==
    \A e \in ToSet(pending) :
        \E f \in Events : now <= arrive[e] + Interval[f]

\* Alone, the timer is armed whenever events are pending, and no event is
\* overdue by more than the longest interval.
PunctualAlone == alone => TimerArmed /\ NotTooLate

\* OnTimer runs a task neither before its time, whatever the timerfd was armed
\* for, nor after its event was deleted, unless it had taken the task by then.
RunsOnlyDue ==
    [][tasks # <<>> /\ tasks' = Tail(tasks) =>
         /\ Head(tasks) \notin Repeated => arrive[Head(tasks)] <= now
         /\ deleted[Head(tasks)] # "before"]_vars

\* Alone, every event that is added runs, when it is not deleted and no other
\* one that is no longer in the map.
AllRunAlone ==
    alone => \A e \in Events \ Repeated :
                status[e] = "added" ~> \/ status[e] = "ran"
                                       \/ deleted[e] # "no"
                                       \/ lost[e] # Never

\* The map keeps its shape, and each event is in it once until it has run.
Sound == TypeOK /\ NothingLost /\ NeverTwice

=============================================================================
