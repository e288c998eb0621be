----------------------------- MODULE Scheduler -----------------------------
(***************************************************************************)
(* The coroutine scheduler of tirpc: the IO threads' event loops           *)
(* (Reactor::Loop of a SubReactor), the per-thread coroutine task queues   *)
(* with work stealing (CoroutineTaskQueue), the file-descriptor events     *)
(* they share (FdEvent), and the hooked system calls with which a          *)
(* connection's coroutine waits for its socket (coroutine_hook.cpp).       *)
(*                                                                         *)
(* A coroutine that finds its socket not ready puts itself on the fd's     *)
(* FdEvent, registers the fd with an epoll instance and yields.  The loop  *)
(* that sees the event takes the fd out of its epoll instance and puts the *)
(* FdEvent in its own queue; that loop, or an idle one that steals, resumes*)
(* the coroutine.  Nothing but this hand-over keeps two threads from       *)
(* running one coroutine's stack.                                          *)
(*                                                                         *)
(* The data of a socket is abstracted to its readiness; the read and the   *)
(* write interest, which are used in the same way and never together, to   *)
(* one interest; the order of hooked calls inside one request is free.     *)
(***************************************************************************)
EXTENDS Naturals, FiniteSets, SequencesExt

CONSTANTS
    Threads,        \* the IO threads, each with one SubReactor
    ServerFds,      \* sockets the server accepts connections on
    ClientFds,      \* sockets a request handler may open with a TcpClient
    Cors,           \* coroutines the pool hands out (bounds the connections)
    Batch,          \* tasks moved by one PopSome or Steal (16 in the code)
    HandlersSleep,  \* TRUE: a handler may call sleep()
    PeersReset,     \* TRUE: a peer may reset a connection, not just close it
    Main, NoCor, NoThread, NoFd

Fds == ServerFds \cup ClientFds

ASSUME SchedulerAssumption ==
    /\ Batch \in Nat \ {0}
    /\ HandlersSleep \in BOOLEAN /\ PeersReset \in BOOLEAN
    /\ ServerFds \cap ClientFds = {}
    /\ Main \notin Cors /\ NoCor \notin Cors
    /\ NoThread \notin Threads /\ NoFd \notin Fds

VARIABLES
    sock,          \* the kernel's socket behind an fd
    owner,         \* the coroutine a socket belongs to
    reactor,       \* FdEvent::reactor_
    listen,        \* FdEvent::listen_events_ is not empty
    cor,           \* FdEvent::cor_
    at,            \* where a coroutine's stack is
    waitFd,        \* the fd of the hooked call a coroutine is in
    pc,            \* where a thread is in Reactor::Loop
    current,       \* t_current_coroutine of a thread
    queue,         \* CoroutineTaskQueue::tasks_
    batch,         \* the tasks taken by Steal or PopSome and not yet resumed
    left,          \* the queues Steal has still to visit
    pendingTasks,  \* Reactor::pending_tasks_, coroutines to start
    tmpTasks,      \* the swapped-out tasks Loop is running
    inEvents,      \* re_events not yet handled that carry EPOLLIN or EPOLLOUT
    errEvents,     \* re_events not yet handled that carry neither
    timers,        \* sleeping coroutines in the thread's Timer
    due,           \* those whose callbacks OnTimer has still to run
    epoll,         \* fds_ and the interest registered for each
    pendingAdd,    \* Reactor::pending_add_fds_
    pendingDel     \* Reactor::pending_del_fds_

fdVars     == <<sock, owner, reactor, listen, cor>>
corVars    == <<at, waitFd>>
queueVars  == <<queue, batch, left>>
taskVars   == <<pendingTasks, tmpTasks>>
eventVars  == <<inEvents, errEvents>>
timerVars  == <<timers, due>>
epollVars  == <<epoll, pendingAdd, pendingDel>>
vars == <<fdVars, corVars, pc, current, queueVars, taskVars, eventVars,
          timerVars, epollVars>>

Interest == {"none", "idle", "armed"}   \* not in fds_, no events, READ/WRITE
SockState == {"closed", "idle", "data", "eof", "reset"}
CorState == {"free", "start", "run", "arm", "yield", "parked", "woken",
             "reread", "close", "closing", "sleep", "done"}
LoopState == {"top", "steal", "stolen", "pop", "popped", "tasks", "runTasks",
              "wait", "events", "apply"}

\* Every state is one of the program's: the shape of each variable.
TypeOK ==
    /\ sock \in [Fds -> SockState]
    /\ owner \in [Fds -> Cors \cup {NoCor}]
    /\ reactor \in [Fds -> Threads \cup {NoThread}]
    /\ listen \in [Fds -> BOOLEAN]
    /\ cor \in [Fds -> Cors \cup {NoCor}]
    /\ at \in [Cors -> CorState]
    /\ waitFd \in [Cors -> Fds \cup {NoFd}]
    /\ pc \in [Threads -> LoopState]
    /\ current \in [Threads -> Cors \cup {Main}]
    /\ queue \in [Threads -> Seq(Fds)]
    /\ batch \in [Threads -> Seq(Fds)]
    /\ left \in [Threads -> SUBSET Threads]
    /\ pendingTasks \in [Threads -> Seq(Cors)]
    /\ tmpTasks \in [Threads -> Seq(Cors)]
    /\ inEvents \in [Threads -> SUBSET Fds]
    /\ errEvents \in [Threads -> SUBSET Fds]
    /\ timers \in [Threads -> SUBSET Cors]
    /\ due \in [Threads -> SUBSET Cors]
    /\ epoll \in [Threads -> [Fds -> Interest]]
    /\ pendingAdd \in [Threads -> [Fds -> Interest]]
    /\ pendingDel \in [Threads -> SUBSET Fds]

Init ==
    /\ sock = [f \in Fds |-> "closed"]
    /\ owner = [f \in Fds |-> NoCor]
    /\ reactor = [f \in Fds |-> NoThread]
    /\ listen = [f \in Fds |-> FALSE]
    /\ cor = [f \in Fds |-> NoCor]
    /\ at = [c \in Cors |-> "free"]
    /\ waitFd = [c \in Cors |-> NoFd]
    /\ pc = [t \in Threads |-> "top"]
    /\ current = [t \in Threads |-> Main]
    /\ queue = [t \in Threads |-> <<>>]
    /\ batch = [t \in Threads |-> <<>>]
    /\ left = [t \in Threads |-> {}]
    /\ pendingTasks = [t \in Threads |-> <<>>]
    /\ tmpTasks = [t \in Threads |-> <<>>]
    /\ inEvents = [t \in Threads |-> {}]
    /\ errEvents = [t \in Threads |-> {}]
    /\ timers = [t \in Threads |-> {}]
    /\ due = [t \in Threads |-> {}]
    /\ epoll = [t \in Threads |-> [f \in Fds |-> "none"]]
    /\ pendingAdd = [t \in Threads |-> [f \in Fds |-> "none"]]
    /\ pendingDel = [t \in Threads |-> {}]

----------------------------------------------------------------------------
(* The acceptor, on the main thread, and the peers.                        *)

\* One accepted socket: AddClient's new connection takes a coroutine from the
\* pool and points the fd's FdEvent at the chosen IO thread's reactor, then
\* AddCoroutine puts the coroutine in that reactor's pending tasks.  The
\* thread is chosen by turns in the code, freely here.
Accept(t, f, c) ==
    /\ sock[f] = "closed" /\ f \in ServerFds
    /\ at[c] = "free"
    /\ sock' = [sock EXCEPT ![f] = "idle"]
    /\ owner' = [owner EXCEPT ![f] = c]
    /\ reactor' = [reactor EXCEPT ![f] = t]
    /\ at' = [at EXCEPT ![c] = "start"]
    /\ pendingTasks' = [pendingTasks EXCEPT ![t] = Append(@, c)]
    /\ UNCHANGED <<listen, cor, waitFd, pc, current, queueVars, tmpTasks,
                   eventVars, timerVars, epollVars>>

\* The socket becomes ready for the call that would wait on it.
PeerSend(f) ==
    /\ sock[f] = "idle"
    /\ sock' = [sock EXCEPT ![f] = "data"]
    /\ UNCHANGED <<owner, reactor, listen, cor, corVars, pc, current, queueVars,
                   taskVars, eventVars, timerVars, epollVars>>

\* The peer of a server connection ends its stream (FIN).
PeerClose(f) ==
    /\ sock[f] = "idle" /\ f \in ServerFds
    /\ sock' = [sock EXCEPT ![f] = "eof"]
    /\ UNCHANGED <<owner, reactor, listen, cor, corVars, pc, current, queueVars,
                   taskVars, eventVars, timerVars, epollVars>>

\* The peer resets the connection (RST): epoll reports EPOLLHUP unasked.
PeerReset(f) ==
    /\ PeersReset
    /\ sock[f] \in {"idle", "data"} /\ f \in ServerFds
    /\ sock' = [sock EXCEPT ![f] = "reset"]
    /\ UNCHANGED <<owner, reactor, listen, cor, corVars, pc, current, queueVars,
                   taskVars, eventVars, timerVars, epollVars>>

----------------------------------------------------------------------------
(* Coroutine switches and FdEvent operations, as parts of actions.         *)

Runs(t, c) == current[t] = c

\* Coroutine::Resume on thread t: swap to the context coroutine c last saved.
\* A stack that saved none since it was last entered is entered all the same.
Resume(t, c) ==
    /\ current' = [current EXCEPT ![t] = c]
    /\ at' = [at EXCEPT ![c] = CASE @ = "start"  -> "run"
                                 [] @ = "parked" -> "woken"
                                 [] OTHER        -> @]

\* The reactor an FdEvent operation on thread t goes to: the FdEvent's own,
\* or thread t's when it has none.
ReactorFor(t, f) == IF reactor[f] = NoThread THEN t ELSE reactor[f]

\* FdEvent::UpdateToReactor and Reactor::AddEvent: the loop thread changes its
\* epoll instance, another thread leaves a pending request, unless the map
\* already holds one for this fd.
UpdateToReactor(t, f, interest) ==
    LET r == ReactorFor(t, f) IN
    /\ reactor' = [reactor EXCEPT ![f] = r]
    /\ IF r = t
       THEN /\ epoll' = [epoll EXCEPT ![t][f] = interest]
            /\ UNCHANGED pendingAdd
       ELSE /\ pendingAdd' = [pendingAdd EXCEPT ![r][f] =
                                 IF @ = "none" THEN interest ELSE @]
            /\ UNCHANGED epoll
    /\ UNCHANGED pendingDel

\* FdEvent::UnregisterFromReactor and Reactor::DelEvent.
UnregisterFromReactor(t, f) ==
    LET r == ReactorFor(t, f) IN
    /\ reactor' = [reactor EXCEPT ![f] = r]
    /\ listen' = [listen EXCEPT ![f] = FALSE]
    /\ IF r = t
       THEN /\ epoll' = [epoll EXCEPT ![t][f] = "none"]
            /\ UNCHANGED pendingDel
       ELSE /\ pendingDel' = [pendingDel EXCEPT ![r] = @ \cup {f}]
            /\ UNCHANGED epoll
    /\ UNCHANGED pendingAdd

----------------------------------------------------------------------------
(* The hooked calls: coroutine c, running on thread t.                     *)

\* The sockets c may call on: its own, and the server's only when no client of
\* the handler is open, as a TcpClient does not outlive its handler.
CanCall(c, f) ==
    /\ owner[f] = c
    /\ f \in ServerFds => \A g \in ClientFds : owner[g] # c

\* The first system call of a hook succeeds and the hook returns.
RecvReady(t, c, f) ==
    /\ Runs(t, c) /\ at[c] = "run" /\ CanCall(c, f)
    /\ sock[f] = "data"
    /\ reactor' = [reactor EXCEPT ![f] = ReactorFor(t, f)]
    /\ sock' = [sock EXCEPT ![f] = "idle"]
    /\ UNCHANGED <<owner, listen, cor, corVars, pc, current, queueVars,
                   taskVars, eventVars, timerVars, epollVars>>

\* The first system call returns no bytes: EAGAIN, end of stream or an error.
RecvMiss(t, c, f) ==
    /\ Runs(t, c) /\ at[c] = "run" /\ CanCall(c, f)
    /\ sock[f] # "data"
    /\ reactor' = [reactor EXCEPT ![f] = ReactorFor(t, f)]
    /\ at' = [at EXCEPT ![c] = "arm"]
    /\ waitFd' = [waitFd EXCEPT ![c] = f]
    /\ UNCHANGED <<sock, owner, listen, cor, pc, current, queueVars, taskVars,
                   eventVars, timerVars, epollVars>>

\* toEpoll: SetCoroutine, then AddListenEvents, which skips the reactor when
\* the interest is already there.
ToEpoll(t, c) ==
    /\ Runs(t, c) /\ at[c] = "arm"
    /\ LET f == waitFd[c] IN
       /\ cor' = [cor EXCEPT ![f] = c]
       /\ listen' = [listen EXCEPT ![f] = TRUE]
       /\ IF listen[f] THEN UNCHANGED <<reactor, epollVars>>
                       ELSE UpdateToReactor(t, f, "armed")
    /\ at' = [at EXCEPT ![c] = "yield"]
    /\ UNCHANGED <<sock, owner, waitFd, pc, current, queueVars, taskVars,
                   eventVars, timerVars>>

\* Coroutine::Yield: the context is saved and the thread is back in its loop.
Yield(t, c) ==
    /\ Runs(t, c) /\ at[c] = "yield"
    /\ at' = [at EXCEPT ![c] = "parked"]
    /\ current' = [current EXCEPT ![t] = Main]
    /\ UNCHANGED <<fdVars, waitFd, pc, queueVars, taskVars, eventVars, timerVars,
                   epollVars>>

\* Back from Yield: DelListenEvents, then ClearCoroutine.
Disarm(t, c) ==
    /\ Runs(t, c) /\ at[c] = "woken"
    /\ LET f == waitFd[c] IN
       /\ listen' = [listen EXCEPT ![f] = FALSE]
       /\ cor' = [cor EXCEPT ![f] = NoCor]
       /\ IF listen[f] THEN UpdateToReactor(t, f, "idle")
                       ELSE UNCHANGED <<reactor, epollVars>>
    /\ at' = [at EXCEPT ![c] = "reread"]
    /\ UNCHANGED <<sock, owner, waitFd, pc, current, queueVars, taskVars,
                   eventVars, timerVars>>

\* The hook's second and last system call.  No bytes now means to Input that the
\* connection is over (it sets close_flag); Output, and a client, go on.
Reread(t, c) ==
    /\ Runs(t, c) /\ at[c] = "reread"
    /\ LET f == waitFd[c] IN
       IF sock[f] = "data"
       THEN /\ sock' = [sock EXCEPT ![f] = "idle"]
            /\ at' = [at EXCEPT ![c] = "run"]
            /\ waitFd' = [waitFd EXCEPT ![c] = NoFd]
       ELSE /\ \/ at' = [at EXCEPT ![c] = "close"] /\ UNCHANGED waitFd
               \/ at' = [at EXCEPT ![c] = "run"] /\ waitFd' = [waitFd EXCEPT ![c] = NoFd]
            /\ UNCHANGED sock
    /\ UNCHANGED <<owner, reactor, listen, cor, pc, current, queueVars,
                   taskVars, eventVars, timerVars, epollVars>>

\* ClearClient: unregister the fd, stop the connection, close the socket.
ClearClient(t, c) ==
    /\ Runs(t, c) /\ at[c] = "close"
    /\ LET f == waitFd[c] IN
       /\ UnregisterFromReactor(t, f)
       /\ sock' = [sock EXCEPT ![f] = "closed"]
       /\ owner' = [owner EXCEPT ![f] = NoCor]
    /\ at' = [at EXCEPT ![c] = "closing"]
    /\ waitFd' = [waitFd EXCEPT ![c] = NoFd]
    /\ UNCHANGED <<cor, pc, current, queueVars, taskVars, eventVars, timerVars>>

\* Input yields for ever: the coroutine stays inside CoFunction, so the pool
\* does not hand it out again.
YieldForever(t, c) ==
    /\ Runs(t, c) /\ at[c] = "closing"
    /\ at' = [at EXCEPT ![c] = "done"]
    /\ current' = [current EXCEPT ![t] = Main]
    /\ UNCHANGED <<fdVars, waitFd, pc, queueVars, taskVars, eventVars, timerVars,
                   epollVars>>

\* sleep_hook: a timer event on this thread's own reactor, then Yield.
Sleep(t, c) ==
    /\ HandlersSleep
    /\ Runs(t, c) /\ at[c] = "run"
    /\ timers' = [timers EXCEPT ![t] = @ \cup {c}]
    /\ at' = [at EXCEPT ![c] = "sleep"]
    /\ current' = [current EXCEPT ![t] = Main]
    /\ UNCHANGED <<fdVars, waitFd, pc, queueVars, taskVars, eventVars, due,
                   epollVars>>

\* A handler creates a TcpClient: a socket bound to this thread's reactor.
OpenClient(t, c, f) ==
    /\ Runs(t, c) /\ at[c] = "run"
    /\ f \in ClientFds /\ sock[f] = "closed"
    /\ sock' = [sock EXCEPT ![f] = "idle"]
    /\ owner' = [owner EXCEPT ![f] = c]
    /\ reactor' = [reactor EXCEPT ![f] = t]
    /\ UNCHANGED <<listen, cor, corVars, pc, current, queueVars, taskVars,
                   eventVars, timerVars, epollVars>>

\* The handler's TcpClient is destroyed.
CloseClient(t, c, f) ==
    /\ Runs(t, c) /\ at[c] = "run"
    /\ f \in ClientFds /\ owner[f] = c
    /\ UnregisterFromReactor(t, f)
    /\ sock' = [sock EXCEPT ![f] = "closed"]
    /\ owner' = [owner EXCEPT ![f] = NoCor]
    /\ UNCHANGED <<cor, corVars, pc, current, queueVars, taskVars, eventVars,
                   timerVars>>

----------------------------------------------------------------------------
(* Reactor::Loop of the SubReactor of thread t.                            *)

InLoop(t, state) == current[t] = Main /\ pc[t] = state

SmallerOf(m, n) == IF m < n THEN m ELSE n

\* Empty: an empty queue makes the thread steal, any other makes it pop.
LoopTop(t) ==
    /\ InLoop(t, "top")
    /\ IF queue[t] = <<>>
       THEN /\ pc' = [pc EXCEPT ![t] = "steal"]
            /\ left' = [left EXCEPT ![t] = Threads \ {t}]
       ELSE /\ pc' = [pc EXCEPT ![t] = "pop"]
            /\ UNCHANGED left
    /\ UNCHANGED <<fdVars, corVars, current, queue, batch, taskVars, eventVars,
                   timerVars, epollVars>>

\* Mutant: the thief copies the victim's tasks and leaves them in the queue.
StealCopies(t, v) ==
    /\ InLoop(t, "steal")
    /\ v \in left[t] /\ Len(batch[t]) < Batch
    /\ batch' = [batch EXCEPT ![t] = @ \o
           SubSeq(queue[v], 1, SmallerOf(Len(queue[v]), Batch - Len(batch[t])))]
    /\ left' = [left EXCEPT ![t] = @ \ {v}]
    /\ UNCHANGED <<fdVars, corVars, pc, current, queue, taskVars, eventVars,
                   timerVars, epollVars>>

\* Mutant: the thief empties the victim's queue but keeps one batch of it.
StealDropsRest(t, v) ==
    /\ InLoop(t, "steal")
    /\ v \in left[t] /\ Len(batch[t]) < Batch
    /\ batch' = [batch EXCEPT ![t] = @ \o
           SubSeq(queue[v], 1, SmallerOf(Len(queue[v]), Batch - Len(batch[t])))]
    /\ queue' = [queue EXCEPT ![v] = <<>>]
    /\ left' = [left EXCEPT ![t] = @ \ {v}]
    /\ UNCHANGED <<fdVars, corVars, pc, current, taskVars, eventVars,
                   timerVars, epollVars>>

\* Steal, one victim's queue under that queue's lock; the code visits the
\* victims by index, here in any order.
StealFrom(t, v) ==
    /\ InLoop(t, "steal")
    /\ v \in left[t] /\ Len(batch[t]) < Batch
    /\ LET n == SmallerOf(Len(queue[v]), Batch - Len(batch[t])) IN
       /\ batch' = [batch EXCEPT ![t] = @ \o SubSeq(queue[v], 1, n)]
       /\ queue' = [queue EXCEPT ![v] = SubSeq(@, n + 1, Len(@))]
    /\ left' = [left EXCEPT ![t] = @ \ {v}]
    /\ UNCHANGED <<fdVars, corVars, pc, current, taskVars, eventVars, timerVars,
                   epollVars>>

StealDone(t) ==
    /\ InLoop(t, "steal")
    /\ left[t] = {} \/ Len(batch[t]) = Batch
    /\ left' = [left EXCEPT ![t] = {}]
    /\ pc' = [pc EXCEPT ![t] = "stolen"]
    /\ UNCHANGED <<fdVars, corVars, current, queue, batch, taskVars, eventVars,
                   timerVars, epollVars>>

\* PopSome, until it returns nothing.
PopSome(t) ==
    /\ InLoop(t, "pop")
    /\ LET n == SmallerOf(Len(queue[t]), Batch) IN
       /\ batch' = [batch EXCEPT ![t] = SubSeq(queue[t], 1, n)]
       /\ queue' = [queue EXCEPT ![t] = SubSeq(@, n + 1, Len(@))]
       /\ pc' = [pc EXCEPT ![t] = IF n = 0 THEN "tasks" ELSE "popped"]
    /\ UNCHANGED <<fdVars, corVars, current, left, taskVars, eventVars, timerVars,
                   epollVars>>

\* Mutant: one PopSome per turn of the loop.
BatchDoneOnce(t) ==
    /\ current[t] = Main /\ pc[t] \in {"stolen", "popped"}
    /\ batch[t] = <<>>
    /\ pc' = [pc EXCEPT ![t] = "tasks"]
    /\ UNCHANGED <<fdVars, corVars, current, queueVars, taskVars, eventVars,
                   timerVars, epollVars>>

\* The next task of the batch: SetReactor(this), then Resume its coroutine.
\* Resume of a null coroutine ends the process: NoneWithout says that it is not
\* asked for.
ResumeTask(t) ==
    /\ current[t] = Main /\ pc[t] \in {"stolen", "popped"}
    /\ batch[t] # <<>>
    /\ LET f == Head(batch[t]) IN
       /\ cor[f] # NoCor
       /\ reactor' = [reactor EXCEPT ![f] = t]
       /\ Resume(t, cor[f])
    /\ batch' = [batch EXCEPT ![t] = Tail(@)]
    /\ UNCHANGED <<sock, owner, listen, cor, waitFd, pc, queue, left, taskVars,
                   eventVars, timerVars, epollVars>>

BatchDone(t) ==
    /\ current[t] = Main /\ pc[t] \in {"stolen", "popped"}
    /\ batch[t] = <<>>
    /\ pc' = [pc EXCEPT ![t] = IF @ = "stolen" THEN "tasks" ELSE "pop"]
    /\ UNCHANGED <<fdVars, corVars, current, queueVars, taskVars, eventVars,
                   timerVars, epollVars>>

\* Swap pending_tasks_ out under the lock.
SwapTasks(t) ==
    /\ InLoop(t, "tasks")
    /\ tmpTasks' = [tmpTasks EXCEPT ![t] = pendingTasks[t]]
    /\ pendingTasks' = [pendingTasks EXCEPT ![t] = <<>>]
    /\ pc' = [pc EXCEPT ![t] = "runTasks"]
    /\ UNCHANGED <<fdVars, corVars, current, queueVars, eventVars, timerVars,
                   epollVars>>

\* A task of AddCoroutine resumes its coroutine for the first time.
RunTask(t) ==
    /\ InLoop(t, "runTasks")
    /\ tmpTasks[t] # <<>>
    /\ Resume(t, Head(tmpTasks[t]))
    /\ tmpTasks' = [tmpTasks EXCEPT ![t] = Tail(@)]
    /\ UNCHANGED <<fdVars, waitFd, pc, queueVars, pendingTasks, eventVars,
                   timerVars, epollVars>>

TasksDone(t) ==
    /\ InLoop(t, "runTasks")
    /\ tmpTasks[t] = <<>>
    /\ pc' = [pc EXCEPT ![t] = "wait"]
    /\ UNCHANGED <<fdVars, corVars, current, queueVars, taskVars, eventVars,
                   timerVars, epollVars>>

\* What the kernel reports of fd f to thread t: readiness when there is an
\* interest, a hang-up always.
Readable(t, f) == epoll[t][f] = "armed" /\ sock[f] \in {"data", "eof", "reset"}
HungUp(t, f)   == epoll[t][f] = "idle" /\ sock[f] = "reset"

\* epoll_wait returns with what is ready, by the wakeup eventfd or after ten
\* seconds with nothing; max_events is not reached with these few fds.  The
\* timer fd may be among the events: then OnTimer takes the due sleepers D.
EpollWait(t, D) ==
    /\ InLoop(t, "wait")
    /\ D \subseteq timers[t]
    /\ timers' = [timers EXCEPT ![t] = @ \ D]
    /\ due' = [due EXCEPT ![t] = D]
    /\ inEvents' = [inEvents EXCEPT ![t] = {f \in Fds : Readable(t, f)}]
    /\ errEvents' = [errEvents EXCEPT ![t] = {f \in Fds : HungUp(t, f)}]
    /\ pc' = [pc EXCEPT ![t] = "events"]
    /\ UNCHANGED <<fdVars, corVars, current, queueVars, taskVars, epollVars>>

\* Mutant: the fd of a queued coroutine stays in the epoll instance.
HandleEventStaysRegistered(t, f) ==
    /\ InLoop(t, "events")
    /\ f \in inEvents[t]
    /\ inEvents' = [inEvents EXCEPT ![t] = @ \ {f}]
    /\ reactor' = [reactor EXCEPT ![f] = NoThread]
    /\ queue' = [queue EXCEPT ![t] = Append(@, f)]
    /\ UNCHANGED <<sock, owner, listen, cor, corVars, pc, current, batch, left,
                   taskVars, errEvents, timerVars, epollVars>>

\* Mutant: the interest left on a queued fd is dropped from its FdEvent too
\* late, so the error branch also takes the fds that are ready.
HandleEventAsError(t, f) ==
    /\ InLoop(t, "events")
    /\ f \in inEvents[t]
    /\ inEvents' = [inEvents EXCEPT ![t] = @ \ {f}]
    /\ epoll' = [epoll EXCEPT ![t][f] = "none"]
    /\ UNCHANGED <<fdVars, corVars, pc, current, queueVars, taskVars,
                   errEvents, timerVars, pendingAdd, pendingDel>>

\* One coroutine event: out of this epoll instance, no reactor, into the
\* thread's queue.  Without a coroutine the read or write callback would be
\* queued as a task; no callback is ever set on these fds.
HandleEvent(t, f) ==
    /\ InLoop(t, "events")
    /\ f \in inEvents[t]
    /\ inEvents' = [inEvents EXCEPT ![t] = @ \ {f}]
    /\ IF cor[f] # NoCor
       THEN /\ epoll' = [epoll EXCEPT ![t][f] = "none"]
            /\ reactor' = [reactor EXCEPT ![f] = NoThread]
            /\ queue' = [queue EXCEPT ![t] = Append(@, f)]
       ELSE UNCHANGED <<epoll, reactor, queue>>
    /\ UNCHANGED <<sock, owner, listen, cor, corVars, pc, current, batch, left,
                   taskVars, errEvents, timerVars, pendingAdd, pendingDel>>

\* An event with neither EPOLLIN nor EPOLLOUT: the fd leaves the loop.
HandleErrorEvent(t, f) ==
    /\ InLoop(t, "events")
    /\ f \in errEvents[t]
    /\ errEvents' = [errEvents EXCEPT ![t] = @ \ {f}]
    /\ epoll' = [epoll EXCEPT ![t][f] = "none"]
    /\ UNCHANGED <<fdVars, corVars, pc, current, queueVars, taskVars, inEvents,
                   timerVars, pendingAdd, pendingDel>>

\* The timer fd's event: OnTimer runs a due sleeper's callback, which resumes
\* it; one step per sleeper, at any place among the other events.
TimerFires(t, c) ==
    /\ InLoop(t, "events")
    /\ c \in due[t]
    /\ due' = [due EXCEPT ![t] = @ \ {c}]
    /\ current' = [current EXCEPT ![t] = c]
    /\ at' = [at EXCEPT ![c] = "run"]
    /\ UNCHANGED <<fdVars, waitFd, pc, queueVars, taskVars, eventVars,
                   timers, epollVars>>

EventsDone(t) ==
    /\ InLoop(t, "events")
    /\ inEvents[t] = {} /\ errEvents[t] = {} /\ due[t] = {}
    /\ pc' = [pc EXCEPT ![t] = "apply"]
    /\ UNCHANGED <<fdVars, corVars, current, queueVars, taskVars, eventVars,
                   timerVars, epollVars>>

\* The pending additions, then the pending deletions; epoll_ctl refuses a
\* closed fd.
ApplyPending(t) ==
    /\ InLoop(t, "apply")
    /\ epoll' = [epoll EXCEPT ![t] = [f \in Fds |->
            IF f \in pendingDel[t] THEN "none"
            ELSE IF pendingAdd[t][f] # "none" /\ sock[f] # "closed"
                 THEN pendingAdd[t][f]
                 ELSE epoll[t][f]]]
    /\ pendingAdd' = [pendingAdd EXCEPT ![t] = [f \in Fds |-> "none"]]
    /\ pendingDel' = [pendingDel EXCEPT ![t] = {}]
    /\ pc' = [pc EXCEPT ![t] = "top"]
    /\ UNCHANGED <<fdVars, corVars, current, queueVars, taskVars, eventVars,
                   timerVars>>

----------------------------------------------------------------------------

LoopStep(t) ==
    \/ LoopTop(t)
    \/ \E v \in Threads : StealFrom(t, v)
    \/ StealDone(t)
    \/ PopSome(t)
    \/ ResumeTask(t)
    \/ BatchDone(t)
    \/ SwapTasks(t)
    \/ RunTask(t)
    \/ TasksDone(t)
    \/ \E D \in SUBSET Cors : EpollWait(t, D)
    \/ \E f \in Fds : HandleEvent(t, f)
    \/ \E f \in Fds : HandleErrorEvent(t, f)
    \/ \E c \in Cors : TimerFires(t, c)
    \/ EventsDone(t)
    \/ ApplyPending(t)

CorStep(t, c) ==
    \/ \E f \in Fds : RecvReady(t, c, f)
    \/ \E f \in Fds : RecvMiss(t, c, f)
    \/ ToEpoll(t, c)
    \/ Yield(t, c)
    \/ Disarm(t, c)
    \/ Reread(t, c)
    \/ ClearClient(t, c)
    \/ YieldForever(t, c)
    \/ Sleep(t, c)
    \/ \E f \in Fds : OpenClient(t, c, f)
    \/ \E f \in Fds : CloseClient(t, c, f)

ThreadStep(t) == LoopStep(t) \/ \E c \in Cors : CorStep(t, c)

Environment ==
    \/ \E t \in Threads, f \in Fds, c \in Cors : Accept(t, f, c)
    \/ \E f \in Fds : PeerSend(f) \/ PeerClose(f) \/ PeerReset(f)

Next == Environment \/ \E t \in Threads : ThreadStep(t)

Spec == Init /\ [][Next]_vars

\* The operating system runs every thread; epoll_wait returns within ten
\* seconds.  A coroutine is not fed for ever without one miss: the hooks yield
\* only on a miss, so a peer that always has data ready would keep the thread.
\* Sleep ends: some epoll_wait finds every sleeper of its thread due.
Fairness ==
    \A t \in Threads :
        /\ WF_vars(ThreadStep(t))
        /\ SF_vars(\E c \in Cors, f \in Fds : RecvMiss(t, c, f))
        /\ SF_vars(EpollWait(t, timers[t]))

FairSpec == Spec /\ Fairness

----------------------------------------------------------------------------
(* What the scheduler must guarantee.                                      *)

Suspended == {"start", "parked", "sleep"}

\* No coroutine's stack is executed by two IO threads at once, however the
\* FdEvent of its socket travels between queues, thieves and epoll instances.
ExclusiveRun ==
    \A t1, t2 \in Threads :
        current[t1] = current[t2] /\ current[t1] # Main => t1 = t2

\* A thread switches only to a coroutine whose context has been saved by Yield
\* or set up by SetCallBack: a resume between toEpoll and the Yield that
\* follows it would enter a live stack.
ResumeSaved ==
    [][\A t \in Threads, c \in Cors :
          current[t] # c /\ current'[t] = c => at[c] \in Suspended]_vars

\* How many things will make some thread resume coroutine c.
Wakeups(c) ==
    LET fds == {f \in Fds : cor[f] = c}
        In(s, X) == UNION {{t} \X {i \in DOMAIN s[t] : s[t][i] \in X} : t \in Threads}
        Armed(e) == {x \in Threads \X fds : e[x[1]][x[2]] = "armed"}
    IN  Cardinality(Armed(epoll)) + Cardinality(Armed(pendingAdd))
        + Cardinality(In(queue, fds)) + Cardinality(In(batch, fds))
        + Cardinality(In(pendingTasks, {c})) + Cardinality(In(tmpTasks, {c}))
        + Cardinality({t \in Threads : c \in timers[t] \cup due[t]})

\* A suspended coroutine always has something that will resume it: an epoll
\* registration, a place in a queue or a thief's batch, a task or a timer.  An
\* event handled, a steal or a registration dropped must not lose it.
NoLostWakeup == \A c \in Cors : at[c] \in Suspended => Wakeups(c) >= 1

\* It never has two, and a coroutine that runs or is gone has none: a second
\* one would resume a coroutine that is running, or a later, unrelated wait.
NoDoubleWakeup ==
    \A c \in Cors :
        Wakeups(c) <= IF at[c] \in Suspended \cup {"yield"} THEN 1 ELSE 0

\* The FdEvent whose turn it is has the coroutine that is to be resumed.
NoneWithout == \A t \in Threads : batch[t] # <<>> => cor[Head(batch[t])] # NoCor

\* Every wait has exactly one wake-up, and every wake-up is for a wait.
OneWakeup == NoLostWakeup /\ NoDoubleWakeup /\ NoneWithout

\* A connection is closed only when its peer ended it: the hooks read once
\* after Yield and take no bytes for the end, so each resume must be due.
NoSpuriousClose ==
    \A c \in Cors : at[c] = "close" => sock[waitFd[c]] \in {"eof", "reset"}

\* Every FdEvent in a queue or in a batch has the coroutine that waits on it,
\* has no epoll registration left and is in one place only.
QueuedIsWaiting ==
    \A t \in Threads :
        \A f \in ToSet(queue[t]) \cup ToSet(batch[t]) :
            /\ cor[f] \in Cors /\ at[cor[f]] = "parked" /\ waitFd[cor[f]] = f
            /\ \A u \in Threads : epoll[u][f] = "none"

\* When a thread blocks in epoll_wait its own queue is empty, so no runnable
\* coroutine waits out the ten seconds behind a sleeping thread.
NoWorkLeftAtWait ==
    \A t \in Threads : pc[t] \in {"tasks", "runTasks", "wait"} => queue[t] = <<>>

\* An fd is registered with the epoll instance its FdEvent names and with no
\* other, or two threads would see one event.
RegisteredWithOwnReactor ==
    \A t \in Threads, f \in Fds : epoll[t][f] # "none" => reactor[f] = t

\* A coroutine that is due: its socket is ready, it was just accepted, or it
\* sleeps (every sleep is bounded).
Due(c) == \/ at[c] = "parked" /\ sock[waitFd[c]] # "idle"
          \/ at[c] \in {"start", "sleep"}

\* Every due coroutine is resumed, whichever threads race for it.
EventuallyResumed == \A c \in Cors : Due(c) ~> ~Due(c)
----------------------------------------------------------------------------
(* The inductive invariant behind ExclusiveRun, for servers whose handlers *)
(* open no client sockets: a socket, its FdEvent and its coroutine form    *)
(* one unit, which one thread or one queue holds at a time.                *)

Live == {"run", "arm", "yield", "woken", "reread", "close", "closing"}

\* An open socket has one coroutine and no coroutine has two sockets.
OwnerInv ==
    /\ \A f \in Fds : owner[f] \in Cors => at[owner[f]] \notin {"free", "closing", "done"}
    /\ \A f, g \in Fds : owner[f] = owner[g] /\ owner[f] \in Cors => f = g
    /\ \A f \in Fds : sock[f] = "closed" =>
          owner[f] = NoCor /\ \A t \in Threads : epoll[t][f] = "none"

\* A coroutine inside a hook waits on its own socket, and the FdEvent that
\* names a coroutine is the one that coroutine waits on.
WaitInv ==
    /\ \A c \in Cors :
          at[c] \in {"arm", "yield", "parked", "woken", "reread", "close"} =>
              waitFd[c] \in Fds /\ owner[waitFd[c]] = c
    /\ \A f \in Fds : cor[f] # NoCor =>
          owner[f] = cor[f] /\ waitFd[cor[f]] = f
          /\ at[cor[f]] \in {"yield", "parked", "woken"}

\* The socket of a running coroutine names the reactor of its thread.
RunInv ==
    \A t \in Threads : current[t] \in Cors =>
        /\ at[current[t]] \in Live
        /\ \A f \in Fds : owner[f] = current[t] => reactor[f] = t

\* An armed registration belongs to a coroutine that waits or is about to, on
\* the thread of that epoll instance; nothing is ever asked of another thread.
EpollInv ==
    /\ RegisteredWithOwnReactor
    /\ \A t \in Threads, f \in Fds : epoll[t][f] = "armed" =>
          /\ cor[f] \in Cors /\ at[cor[f]] \in {"yield", "parked"}
          /\ at[cor[f]] = "yield" => current[t] = cor[f]
    /\ \A t \in Threads, f \in Fds : pendingAdd[t][f] = "none"
    /\ \A t \in Threads : pendingDel[t] = {}

\* A reported event still finds the registration it was reported for.
EventInv ==
    \A t \in Threads :
        /\ \A f \in inEvents[t] : epoll[t][f] = "armed" /\ at[cor[f]] = "parked"
        /\ inEvents[t] \cap errEvents[t] = {}

Waiting(f) == /\ cor[f] \in Cors /\ at[cor[f]] = "parked"
              /\ \A t \in Threads : epoll[t][f] = "none"

\* No value occurs twice in the sequences of s, of one thread or of several.
Unique(s) ==
    /\ \A t \in Threads : IsInjective(s[t])
    /\ \A t, u \in Threads : t # u => ToSet(s[t]) \cap ToSet(s[u]) = {}

\* Nothing in the sequences of r is in those of s.
Disjoint(r, s) == \A t, u \in Threads : ToSet(r[t]) \cap ToSet(s[u]) = {}

\* A queued FdEvent is in one queue or one batch, and waits.
QueueInv ==
    /\ \A t \in Threads : \A f \in ToSet(queue[t]) : Waiting(f)
    /\ \A t \in Threads : \A f \in ToSet(batch[t]) : Waiting(f)
    /\ Unique(queue) /\ Unique(batch) /\ Disjoint(queue, batch)

Starting(t, c) == at[c] = "start" /\ \A f \in Fds : owner[f] = c => reactor[f] = t

\* A coroutine to be started is one task of the thread its socket names.
TaskInv ==
    /\ \A t \in Threads : \A c \in ToSet(pendingTasks[t]) : Starting(t, c)
    /\ \A t \in Threads : \A c \in ToSet(tmpTasks[t]) : Starting(t, c)
    /\ Unique(pendingTasks) /\ Unique(tmpTasks) /\ Disjoint(pendingTasks, tmpTasks)

\* A sleeping coroutine is in one timer, that of the thread its socket names.
TimerInv ==
    /\ \A t \in Threads : \A c \in timers[t] \cup due[t] :
          at[c] = "sleep" /\ \A f \in Fds : owner[f] = c => reactor[f] = t
    /\ \A t, u \in Threads : t # u =>
          (timers[t] \cup due[t]) \cap (timers[u] \cup due[u]) = {}
    /\ \A t \in Threads : timers[t] \cap due[t] = {}

IndInv ==
    /\ TypeOK /\ ExclusiveRun
    /\ OwnerInv /\ WaitInv /\ RunInv /\ EpollInv /\ EventInv
    /\ QueueInv /\ TaskInv /\ TimerInv

=============================================================================
