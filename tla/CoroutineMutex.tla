--------------------------- MODULE CoroutineMutex ---------------------------
(***************************************************************************)
(* CoroutineMutex (mutex.cpp): a flag and a queue of suspended coroutines, *)
(* both under a thread mutex.  Lock suspends the calling coroutine when    *)
(* the flag is set; Unlock clears the flag and asks the reactor of its own *)
(* thread to resume the first coroutine of the queue.  Between Lock's last *)
(* access to the queue and its Yield the coroutine still runs.             *)
(***************************************************************************)
EXTENDS Naturals, FiniteSets, SequencesExt

CONSTANTS
    Threads,   \* IO threads
    Cors,      \* coroutines that use the mutex
    Main, NoThread

ASSUME CoroutineMutexAssumption == Main \notin Cors /\ NoThread \notin Threads

VARIABLES
    lock,        \* lock_
    sleepCors,   \* sleep_cors_
    at,          \* where a coroutine is: outside, in Lock, or past Lock
    current,     \* t_current_coroutine of a thread
    paused,      \* the thread whose events will resume a coroutine that waits
                 \*   for something else
    tasks        \* Resume tasks in a thread's reactor

vars == <<lock, sleepCors, at, current, paused, tasks>>

\* The shape of the mutex's state.
TypeOK ==
    /\ lock \in BOOLEAN
    /\ sleepCors \in Seq(Cors)
    /\ at \in [Cors -> {"out", "yield", "waiting", "in"}]
    /\ current \in [Threads -> Cors \cup {Main}]
    /\ paused \in [Cors -> Threads \cup {NoThread}]
    /\ tasks \in [Threads -> Seq(Cors)]

Init ==
    /\ lock = FALSE
    /\ sleepCors = <<>>
    /\ at = [c \in Cors |-> "out"]
    /\ current = [t \in Threads |-> Main]
    /\ paused \in [Cors -> Threads]
    /\ tasks = [t \in Threads |-> <<>>]

\* A coroutine leaves its thread for something else, with the mutex or
\* without it (a sleep, a socket), and comes back.
Pause(t, c) ==
    /\ current[t] = c /\ at[c] \in {"out", "in"}
    /\ current' = [current EXCEPT ![t] = Main]
    /\ paused' = [paused EXCEPT ![c] = t]
    /\ UNCHANGED <<lock, sleepCors, at, tasks>>

Continue(t, c) ==
    /\ current[t] = Main /\ paused[c] = t
    /\ current' = [current EXCEPT ![t] = c]
    /\ paused' = [paused EXCEPT ![c] = NoThread]
    /\ UNCHANGED <<lock, sleepCors, at, tasks>>

\* Lock, when the mutex is free.
LockFree(t, c) ==
    /\ current[t] = c /\ at[c] = "out"
    /\ ~lock
    /\ lock' = TRUE
    /\ at' = [at EXCEPT ![c] = "in"]
    /\ UNCHANGED <<sleepCors, current, paused, tasks>>

\* Lock, when it is taken: into the queue, ...
LockBusy(t, c) ==
    /\ current[t] = c /\ at[c] = "out"
    /\ lock
    /\ sleepCors' = Append(sleepCors, c)
    /\ at' = [at EXCEPT ![c] = "yield"]
    /\ UNCHANGED <<lock, current, paused, tasks>>

\* ... and Yield, after the thread mutex is released.
Yield(t, c) ==
    /\ current[t] = c /\ at[c] = "yield"
    /\ current' = [current EXCEPT ![t] = Main]
    /\ at' = [at EXCEPT ![c] = "waiting"]
    /\ UNCHANGED <<lock, sleepCors, paused, tasks>>

\* Mutant: the waker does not take the coroutine out of the queue.
UnlockKeeps(t, c) ==
    /\ current[t] = c /\ at[c] = "in"
    /\ at' = [at EXCEPT ![c] = "out"]
    /\ lock' = FALSE
    /\ tasks' = IF lock /\ sleepCors # <<>>
                THEN [tasks EXCEPT ![t] = Append(@, Head(sleepCors))] ELSE tasks
    /\ UNCHANGED <<sleepCors, current, paused>>

\* Unlock: the flag is cleared, and the first coroutine of the queue is to be
\* resumed; nothing happens when the flag is not set.
Unlock(t, c) ==
    /\ current[t] = c /\ at[c] = "in"
    /\ at' = [at EXCEPT ![c] = "out"]
    /\ lock' = FALSE
    /\ IF lock /\ sleepCors # <<>>
       THEN /\ sleepCors' = Tail(sleepCors)
            /\ tasks' = [tasks EXCEPT ![t] = Append(@, Head(sleepCors))]
       ELSE UNCHANGED <<sleepCors, tasks>>
    /\ UNCHANGED <<current, paused>>

\* The reactor runs a task: the coroutine returns from Lock.
RunTask(t) ==
    /\ current[t] = Main /\ tasks[t] # <<>>
    /\ LET c == Head(tasks[t]) IN
       /\ current' = [current EXCEPT ![t] = c]
       /\ at' = [at EXCEPT ![c] = IF @ = "waiting" THEN "in" ELSE @]
    /\ tasks' = [tasks EXCEPT ![t] = Tail(@)]
    /\ UNCHANGED <<lock, sleepCors, paused>>

Step(t) ==
    \/ \E c \in Cors : Pause(t, c) \/ Continue(t, c) \/ LockFree(t, c)
                       \/ LockBusy(t, c) \/ Yield(t, c) \/ Unlock(t, c)
    \/ RunTask(t)

Next == \E t \in Threads : Step(t)

Spec == Init /\ [][Next]_vars

\* A thread comes back to its tasks and events, whatever else it does; a
\* coroutine waits for something now and then, what it waits for happens, and
\* when it has the mutex it gives it back.
Fairness ==
    /\ \A t \in Threads : SF_vars(RunTask(t))
    /\ \A t \in Threads, c \in Cors :
          /\ WF_vars(Yield(t, c))
          /\ SF_vars(Pause(t, c)) /\ SF_vars(Continue(t, c))
          /\ SF_vars(Unlock(t, c))

FairSpec == Spec /\ Fairness

----------------------------------------------------------------------------

\* At most one coroutine is past Lock and has not called Unlock.
MutualExclusion == \A c, d \in Cors : at[c] = "in" /\ at[d] = "in" => c = d

\* A coroutine suspended by Lock has exactly one thing that will resume it: a
\* place in the queue or a task.
WaitingOnce ==
    \A c \in Cors : at[c] \in {"yield", "waiting"} =>
        Cardinality({i \in DOMAIN sleepCors : sleepCors[i] = c})
          + Cardinality({x \in UNION {{t} \X DOMAIN tasks[t] : t \in Threads} :
                           tasks[x[1]][x[2]] = c}) = 1

\* Lock returns, if whoever has the mutex unlocks it.
LockReturns == \A c \in Cors : at[c] = "waiting" ~> at[c] = "in"

\* The mutex keeps its shape, and each waiter waits in one place.
Sound == TypeOK /\ WaitingOnce

=============================================================================
