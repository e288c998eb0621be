----------------------------- MODULE ThreadPool -----------------------------
(***************************************************************************)
(* ThreadPool (thread_pool.cpp): workers that take tasks from a queue.     *)
(* A worker looks at the front of the queue under the mutex and removes it *)
(* after it has given the mutex back.  No code of the repository makes a   *)
(* pool yet: whoever adds tasks and stops the pool is the environment.     *)
(***************************************************************************)
EXTENDS Naturals, SequencesExt

CONSTANTS
    Sizes,      \* sizes a pool may have
    MaxTasks    \* bound: tasks that are added

VARIABLES
    size,       \* size_
    queue,      \* tasks_
    stop,       \* stop_
    added,      \* number of tasks added; a task is its number
    worker,     \* where a worker is
    copy,       \* its copy of the front task
    ran         \* the tasks it has run

poolVars == <<size, queue, stop, added, worker, copy, ran>>

Workers == 1 .. size

PoolInit ==
    /\ size \in Sizes
    /\ queue = <<>> /\ stop = FALSE /\ added = 0
    /\ worker = [w \in Workers |-> "new"]
    /\ copy = [w \in Workers |-> 0]
    /\ ran = [w \in Workers |-> <<>>]

To(w, place) == worker' = [worker EXCEPT ![w] = place]

\* A worker begins: it initialises the condition variable once more, and who
\* waits on it already may or may not be forgotten.
Begin(w) ==
    /\ worker[w] = "new"
    /\ \E forgotten \in SUBSET {v \in Workers : worker[v] = "asleep"} :
          worker' = [v \in Workers |-> IF v = w THEN "idle"
                                       ELSE IF v \in forgotten THEN "forgotten" ELSE worker[v]]
    /\ UNCHANGED <<size, queue, stop, added, copy, ran>>

\* Mutant: the signal is missing.
AddTaskSilently ==
    /\ added < MaxTasks
    /\ added' = added + 1
    /\ queue' = Append(queue, added')
    /\ UNCHANGED <<size, stop, worker, copy, ran>>

\* One of those that wait, if any does, is woken.
AddTask ==
    /\ added < MaxTasks
    /\ added' = added + 1
    /\ queue' = Append(queue, added')
    /\ LET asleep == {w \in Workers : worker[w] = "asleep"}
       IN  IF asleep = {} THEN UNCHANGED worker ELSE \E w \in asleep : To(w, "woken")
    /\ UNCHANGED <<size, stop, copy, ran>>

\* Nobody is signalled: a worker that sleeps stays asleep.
Stop ==
    /\ ~stop
    /\ stop' = TRUE
    /\ UNCHANGED <<size, queue, added, worker, copy, ran>>

Loop(w) ==
    /\ worker[w] = "idle"
    /\ To(w, IF stop THEN "ended" ELSE "woken")
    /\ UNCHANGED <<size, queue, stop, added, copy, ran>>

\* With the mutex: the wait, or the copy of the front task.
CopyFront(w) ==
    /\ worker[w] = "woken"
    /\ IF queue = <<>> THEN To(w, "asleep") /\ UNCHANGED copy
       ELSE To(w, "pop") /\ copy' = [copy EXCEPT ![w] = Head(queue)]
    /\ UNCHANGED <<size, queue, stop, added, ran>>

\* Without the mutex: whatever is in front by now is removed, then the copy is
\* run.  What pop does when nothing is in front is undefined: no behaviour is
\* followed beyond it.  A pop that overlaps another's or AddTask's access to the
\* queue is a data race as well; here the pops come one after another.
Pop(w) ==
    /\ worker[w] = "pop"
    /\ IF queue = <<>> THEN To(w, "undefined") /\ UNCHANGED <<queue, ran>>
       ELSE /\ queue' = Tail(queue)
            /\ ran' = [ran EXCEPT ![w] = Append(@, copy[w])]
            /\ To(w, "idle")
    /\ UNCHANGED <<size, stop, added, copy>>

Work(w) == Loop(w) \/ CopyFront(w) \/ Pop(w)

PoolNext ==
    /\ \A w \in Workers : worker[w] # "undefined"
    /\ AddTask \/ Stop \/ \E w \in Workers : Begin(w) \/ Work(w)

----------------------------------------------------------------------------
\* No worker runs a task twice or goes back to an earlier one, and a pool of one
\* worker runs every task, in order.  Two workers may run the same task, and
\* remove the next one between them without running it.
RunsInOrder ==
    /\ \A w \in Workers : \A i, j \in DOMAIN ran[w] : i < j => ran[w][i] < ran[w][j]
    /\ size = 1 => ran[1] = [i \in 1 .. Len(ran[1]) |-> i]

\* A pool of one worker that is not stopped runs what is added.
TaskRuns ==
    \A n \in 1 .. MaxTasks : size = 1 /\ added = n ~> stop \/ Len(ran[1]) >= n

\* What the queue and its mutex promise as long as there is one worker.
RunsAll == []RunsInOrder /\ TaskRuns

=============================================================================
