------------------------------ MODULE IOThread ------------------------------
(***************************************************************************)
(* IOThread (io_thread.cpp) and what other threads do to its reactor       *)
(* (reactor.cpp): the start with two semaphores, AddTask, AddEvent and     *)
(* DelEvent with Wakeup, Stop, and the join of the destructor.  What the   *)
(* loop does with its own events is the module Scheduler.                  *)
(***************************************************************************)
EXTENDS Naturals, FiniteSets, SequencesExt

CONSTANTS
    Owner,      \* the thread that makes, starts and destroys the IO thread
    Users,      \* other threads that use its reactor
    MaxTasks,   \* bound: tasks that are added
    MaxUpdates, \* bound: calls of AddEvent and DelEvent
    Early       \* whether Stop may be called before the loop has begun

Callers == {Owner} \cup Users
Events == {"read", "readwrite"}
Gone == "none"

VARIABLES
    early,        \* Stop may be called early in this behaviour
    thread,       \* where the IO thread is
    isLooping,    \* is_looping_
    stopping,     \* stop_
    pendingTasks, \* pending_tasks_; a task is its number
    taken,        \* tmp_tasks still to run
    ranTasks,     \* tasks run, in order
    eventfd,      \* the counter of wakeup_fd_ is not zero
    pendingAdd,   \* pending_add_fds_, for one fd
    pendingDel,   \* the fd is in pending_del_fds_
    registered,   \* what epoll watches the fd for
    asked,        \* what the last call asked for
    overlapped,   \* two calls were pending at a time
    unheard,      \* a call is pending that was made before the loop
    updates, added,  \* calls made
    caller        \* where a calling thread is

fdVars == <<pendingAdd, pendingDel, registered, asked, overlapped, unheard, updates>>
taskVars == <<pendingTasks, taken, ranTasks, added>>
threadVars == <<early, thread, isLooping, stopping, taskVars, eventfd, fdVars, caller>>

ThreadInit ==
    /\ early \in Early
    /\ thread = "new" /\ isLooping = FALSE /\ stopping = FALSE
    /\ pendingTasks = <<>> /\ taken = <<>> /\ ranTasks = <<>> /\ added = 0
    /\ eventfd = FALSE
    /\ pendingAdd = Gone /\ pendingDel = FALSE /\ registered = Gone /\ asked = Gone
    /\ overlapped = FALSE /\ unheard = FALSE /\ updates = 0
    /\ caller = [c \in Callers |-> IF c = Owner THEN "making" ELSE "outside"]

GoTo(c, place) == caller' = [caller EXCEPT ![c] = place]
Runs(place) == thread' = place

----------------------------------------------------------------------------
\* The threads around it.

\* The constructor waits for init_semaphore_; then others may use the thread.
Made ==
    /\ caller[Owner] = "making" /\ thread = "made"
    /\ caller' = [c \in Callers |-> "idle"]
    /\ UNCHANGED <<early, thread, isLooping, stopping, taskVars, eventfd, fdVars>>

\* IOThreadPool::Start posts start_semaphore_.
Start ==
    /\ caller[Owner] = "idle" /\ thread = "made"
    /\ Runs("started")
    /\ UNCHANGED <<early, isLooping, stopping, taskVars, eventfd, fdVars, caller>>

AddTask(c) ==
    /\ caller[c] = "idle" /\ added < MaxTasks
    /\ added' = added + 1
    /\ pendingTasks' = Append(pendingTasks, added')
    /\ GoTo(c, "wakeup")
    /\ UNCHANGED <<early, thread, isLooping, stopping, taken, ranTasks, eventfd, fdVars>>

Overlaps == overlapped' = (overlapped \/ pendingAdd # Gone \/ pendingDel)

\* pending_add_fds_ is a map, insert keeps what is there.
AddEvent(c, events) ==
    /\ caller[c] = "idle" /\ updates < MaxUpdates
    /\ updates' = updates + 1
    /\ asked' = events
    /\ pendingAdd' = IF pendingAdd = Gone THEN events ELSE pendingAdd
    /\ Overlaps
    /\ GoTo(c, "wakeup")
    /\ UNCHANGED <<early, thread, isLooping, stopping, taskVars, eventfd, pendingDel, registered, unheard>>

DelEvent(c) ==
    /\ caller[c] = "idle" /\ updates < MaxUpdates
    /\ updates' = updates + 1
    /\ asked' = Gone
    /\ pendingDel' = TRUE
    /\ Overlaps
    /\ GoTo(c, "wakeup")
    /\ UNCHANGED <<early, thread, isLooping, stopping, taskVars, eventfd, pendingAdd, registered, unheard>>

\* A reactor that does not loop yet needs no byte in its eventfd.
Wakeup(c) ==
    /\ caller[c] \in {"wakeup", "stopwakeup"}
    /\ eventfd' = (eventfd \/ isLooping)
    /\ GoTo(c, IF caller[c] = "wakeup" THEN "idle" ELSE "join")
    /\ unheard' = (unheard \/ (~isLooping /\ (pendingAdd # Gone \/ pendingDel)))
    /\ UNCHANGED <<early, thread, isLooping, stopping, taskVars, pendingAdd, pendingDel, registered,
                   asked, overlapped, updates>>

\* Mutant: the flag is set after the wake-up.
StopLate ==
    /\ caller[Owner] = "idle" /\ thread \notin {"new", "made"}
    /\ early \/ thread \notin {"started", "begun"}
    /\ GoTo(Owner, IF ~stopping /\ isLooping THEN "stopwakeup" ELSE "join")
    /\ UNCHANGED <<early, thread, isLooping, stopping, taskVars, eventfd, fdVars>>

\* Stop, from the destructor.
Stop ==
    /\ caller[Owner] = "idle" /\ thread \notin {"new", "made"}
    /\ early \/ thread \notin {"started", "begun"}
    /\ IF ~stopping /\ isLooping THEN stopping' = TRUE /\ GoTo(Owner, "stopwakeup")
       ELSE GoTo(Owner, "join") /\ UNCHANGED stopping
    /\ UNCHANGED <<early, thread, isLooping, taskVars, eventfd, fdVars>>

\* The thread has ended and its reactor is deleted, whoever still uses it (what
\* such a user does to a deleted reactor is undefined, and not followed).
Join ==
    /\ caller[Owner] = "join" /\ thread = "ended"
    /\ caller' = [c \in Callers |-> "outside"]
    /\ UNCHANGED <<early, thread, isLooping, stopping, taskVars, eventfd, fdVars>>

----------------------------------------------------------------------------
\* The IO thread: Main and Loop.

\* A reactor is made, and init_semaphore_ posted.
Main ==
    /\ thread = "new"
    /\ Runs("made")
    /\ UNCHANGED <<early, isLooping, stopping, taskVars, eventfd, fdVars, caller>>

BeginLoop ==
    /\ thread = "started"
    /\ Runs("begun") /\ isLooping' = TRUE
    /\ UNCHANGED <<early, stopping, taskVars, eventfd, fdVars, caller>>

\* Whatever Stop has set by now is forgotten.
ResetStop ==
    /\ thread = "begun"
    /\ Runs("turn") /\ stopping' = FALSE
    /\ UNCHANGED <<early, isLooping, taskVars, eventfd, fdVars, caller>>

Turn ==
    /\ thread = "turn"
    /\ IF stopping THEN Runs("ended") /\ isLooping' = FALSE
       ELSE Runs("swap") /\ UNCHANGED isLooping
    /\ UNCHANGED <<early, stopping, taskVars, eventfd, fdVars, caller>>

\* The pending tasks are taken under the lock ...
SwapTasks ==
    /\ thread = "swap"
    /\ Runs("run")
    /\ taken' = pendingTasks /\ pendingTasks' = <<>>
    /\ UNCHANGED <<early, isLooping, stopping, ranTasks, added, eventfd, fdVars, caller>>

\* ... and run outside it.
RunTask ==
    /\ thread = "run"
    /\ IF taken = <<>> THEN Runs("wait") /\ UNCHANGED <<taken, ranTasks>>
       ELSE /\ ranTasks' = Append(ranTasks, Head(taken)) /\ taken' = Tail(taken)
            /\ UNCHANGED thread
    /\ UNCHANGED <<early, isLooping, stopping, pendingTasks, added, eventfd, fdVars, caller>>

\* epoll_wait returns for the eventfd, which is read empty.
Woken ==
    /\ thread = "wait" /\ eventfd
    /\ Runs("update") /\ eventfd' = FALSE
    /\ UNCHANGED <<early, isLooping, stopping, taskVars, fdVars, caller>>

\* It returns after ten seconds in any case.
TimesOut ==
    /\ thread = "wait"
    /\ Runs("update")
    /\ UNCHANGED <<early, isLooping, stopping, taskVars, eventfd, fdVars, caller>>

\* Mutant: a pending removal is forgotten when there is an addition.
UpdateOne ==
    /\ thread = "update"
    /\ Runs("turn")
    /\ registered' = IF pendingAdd # Gone THEN pendingAdd ELSE registered
    /\ pendingAdd' = Gone /\ pendingDel' = FALSE /\ unheard' = FALSE
    /\ UNCHANGED <<early, isLooping, stopping, taskVars, eventfd, asked, overlapped, updates, caller>>

\* What is pending is taken under the lock: all additions come before all
\* removals.
Update ==
    /\ thread = "update"
    /\ Runs("turn")
    /\ registered' = IF pendingDel THEN Gone
                     ELSE IF pendingAdd # Gone THEN pendingAdd ELSE registered
    /\ pendingAdd' = Gone /\ pendingDel' = FALSE /\ unheard' = FALSE
    /\ UNCHANGED <<early, isLooping, stopping, taskVars, eventfd, asked, overlapped, updates, caller>>

Loop == BeginLoop \/ ResetStop \/ Turn \/ SwapTasks \/ RunTask \/ Woken \/ Update

\* What is under way goes on.
Goes == Main \/ Loop \/ Made \/ Join \/ \E c \in Callers : Wakeup(c)

ThreadNext ==
    \/ Goes \/ TimesOut \/ Start \/ Stop
    \/ \E c \in Callers :
          AddTask(c) \/ DelEvent(c) \/ \E events \in Events : AddEvent(c, events)

----------------------------------------------------------------------------
\* The thread does not wait in epoll_wait with something to do that came after
\* its look, unless the byte that wakes it is there or about to be written.
\* Additions and removals from before the loop are only seen after a wait.
NothingStranded ==
    LET toDo == pendingTasks # <<>> \/ stopping \/ (~unheard /\ (pendingAdd # Gone \/ pendingDel))
    IN  thread = "wait" /\ toDo =>
            eventfd \/ \E c \in Callers : caller[c] \in {"wakeup", "stopwakeup"}

\* Tasks run once each in the order in which they were added.
TasksInOrder == ranTasks = [i \in 1 .. Len(ranTasks) |-> i]

\* A turn later epoll watches what the last call asked for, unless two calls
\* were pending at a time: the second addition is dropped, and a removal undoes
\* the addition that followed it.
WatchesAsAsked ==
    pendingAdd = Gone /\ ~pendingDel /\ ~overlapped => registered = asked

\* What is added is run, unless the thread is stopped.
TaskDone ==
    \A n \in 1 .. MaxTasks : added = n /\ thread # "made" ~> Len(ranTasks) >= n \/ stopping \/ thread = "ended"

\* The destructor returns when the loop had begun before it called Stop.
DestructorReturns == ~early /\ caller[Owner] = "join" ~> caller[Owner] = "outside"

\* What other threads hand to the loop is seen, in its order and as it was asked.
ThreadSound == NothingStranded /\ TasksInOrder /\ WatchesAsAsked

\* The loop gets to what it was given, and ends when its owner wants it to.
ThreadServes == TaskDone /\ DestructorReturns

=============================================================================
