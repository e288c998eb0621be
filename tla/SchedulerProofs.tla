-------------------------- MODULE SchedulerProofs --------------------------
(***************************************************************************)
(* Proofs about Scheduler, for every value of its constants: its types;    *)
(* that no coroutine is run by two threads at once, from the inductive     *)
(* invariant IndInv; and that every wait has exactly one wake-up.  The     *)
(* last two are for servers whose handlers open no client sockets.         *)
(***************************************************************************)
EXTENDS Scheduler, SequenceElements, FiniteSetTheorems

----------------------------------------------------------------------------
(* Types.                                                                  *)

\* The initial state has the declared types.
LEMMA TypeInit == Init => TypeOK
BY DEF Init, TypeOK, SockState, CorState, LoopState, Interest

\* Taking a prefix of one sequence and leaving the rest stays within the type.
LEMMA TakeType ==
    ASSUME NEW S, NEW s \in Seq(S), NEW m \in Nat
    PROVE  /\ SmallerOf(Len(s), m) \in 0..Len(s) /\ SmallerOf(Len(s), m) <= m
           /\ SubSeq(s, 1, SmallerOf(Len(s), m)) \in Seq(S)
           /\ SubSeq(s, SmallerOf(Len(s), m) + 1, Len(s)) \in Seq(S)
BY DEF SmallerOf

\* Changing the interest of one fd in one thread's map.
LEMMA InterestUpdate ==
    ASSUME NEW e \in [Threads -> [Fds -> Interest]], NEW t \in Threads, NEW f \in Fds,
           NEW v \in Interest
    PROVE  [e EXCEPT ![t][f] = v] \in [Threads -> [Fds -> Interest]]
<1>1. e[t] \in [Fds -> Interest]
  OBVIOUS
<1>2. [e[t] EXCEPT ![f] = v] \in [Fds -> Interest]
  BY <1>1
<1> QED
  BY <1>2

\* A coroutine inside a hooked call has an fd to wait for.
HookFd ==
    \A c \in Cors :
        at[c] \in {"arm", "yield", "parked", "woken", "reread", "close"} =>
            waitFd[c] \in Fds

\* Registering an interest with a reactor keeps the declared types.
LEMMA UpdateType ==
    ASSUME TypeOK, NEW t \in Threads, NEW f \in Fds,
           NEW interest \in Interest, UpdateToReactor(t, f, interest)
    PROVE  /\ reactor' \in [Fds -> Threads \cup {NoThread}]
           /\ epoll' \in [Threads -> [Fds -> Interest]]
           /\ pendingAdd' \in [Threads -> [Fds -> Interest]]
           /\ pendingDel' \in [Threads -> SUBSET Fds]
<1> DEFINE r == ReactorFor(t, f)
           add == IF pendingAdd[r][f] = "none" THEN interest ELSE pendingAdd[r][f]
<1>1. r \in Threads \cup {NoThread}
  BY DEF ReactorFor, TypeOK
<1>2. reactor' \in [Fds -> Threads \cup {NoThread}]
  BY <1>1 DEF UpdateToReactor, TypeOK
<1>3. epoll' \in [Threads -> [Fds -> Interest]]
  <2>1. epoll \in [Threads -> [Fds -> Interest]]
    BY DEF TypeOK
  <2>2. [epoll EXCEPT ![t][f] = interest] \in [Threads -> [Fds -> Interest]]
    BY <2>1, InterestUpdate
  <2> QED
    BY <2>1, <2>2 DEF UpdateToReactor
<1>4. pendingAdd' \in [Threads -> [Fds -> Interest]]
  <2>1. CASE r \in Threads
    <3>1. add \in Interest
      BY <2>1 DEF TypeOK
    <3>2. pendingAdd \in [Threads -> [Fds -> Interest]]
      BY DEF TypeOK
    <3>3. [pendingAdd EXCEPT ![r][f] = add] \in [Threads -> [Fds -> Interest]]
      BY <2>1, <3>1, <3>2, InterestUpdate
    <3> QED
      BY <3>2, <3>3 DEF UpdateToReactor
  <2>2. CASE r \notin Threads
    BY <2>2 DEF UpdateToReactor, TypeOK
  <2> QED
    BY <2>1, <2>2
<1> QED
  BY <1>2, <1>3, <1>4 DEF UpdateToReactor, TypeOK

\* So does deregistering an fd.
LEMMA UnregisterType ==
    ASSUME TypeOK, NEW t \in Threads, NEW f \in Fds, UnregisterFromReactor(t, f)
    PROVE  /\ reactor' \in [Fds -> Threads \cup {NoThread}]
           /\ listen' \in [Fds -> BOOLEAN]
           /\ epoll' \in [Threads -> [Fds -> Interest]]
           /\ pendingAdd' \in [Threads -> [Fds -> Interest]]
           /\ pendingDel' \in [Threads -> SUBSET Fds]
<1>1. ReactorFor(t, f) \in Threads \cup {NoThread}
  BY DEF ReactorFor, TypeOK
<1>2. reactor' \in [Fds -> Threads \cup {NoThread}]
  BY <1>1 DEF UnregisterFromReactor, TypeOK
<1>3. "none" \in Interest
  BY DEF Interest
<1>4. epoll' \in [Threads -> [Fds -> Interest]]
  <2>1. epoll \in [Threads -> [Fds -> Interest]]
    BY DEF TypeOK
  <2>2. [epoll EXCEPT ![t][f] = "none"] \in [Threads -> [Fds -> Interest]]
    BY <1>3, <2>1, InterestUpdate
  <2> QED
    BY <2>1, <2>2 DEF UnregisterFromReactor
<1>5. pendingAdd' = pendingAdd /\ listen' \in [Fds -> BOOLEAN]
  BY DEF UnregisterFromReactor, TypeOK
<1>6. pendingDel' \in [Threads -> SUBSET Fds]
  <2>1. \A r \in Threads : pendingDel[r] \cup {f} \in SUBSET Fds
    BY DEF TypeOK
  <2>2. pendingDel \in [Threads -> SUBSET Fds]
    BY DEF TypeOK
  <2>3. CASE ReactorFor(t, f) \in Threads
    BY <2>1, <2>2, <2>3 DEF UnregisterFromReactor
  <2>4. CASE ReactorFor(t, f) \notin Threads
    BY <2>2, <2>4 DEF UnregisterFromReactor
  <2> QED
    BY <2>3, <2>4
<1> QED
  BY <1>2, <1>4, <1>5, <1>6 DEF TypeOK

\* Every step keeps the declared types, one case per action.
LEMMA TypeStep == TypeOK /\ HookFd /\ [Next]_vars => TypeOK'
<1> SUFFICES ASSUME TypeOK, HookFd, [Next]_vars PROVE TypeOK'
  OBVIOUS
<1> USE DEF TypeOK, SockState, CorState, LoopState, Interest, queueVars, taskVars,
          eventVars, timerVars, epollVars, fdVars, corVars
<1> USE SchedulerAssumption DEF SchedulerAssumption
<1>1. ASSUME NEW t \in Threads, NEW f \in Fds, NEW c \in Cors, Accept(t, f, c) PROVE TypeOK'
  BY <1>1 DEF Accept
<1>2. ASSUME NEW f \in Fds, PeerSend(f) PROVE TypeOK'
  BY <1>2 DEF PeerSend
<1>3. ASSUME NEW f \in Fds, PeerClose(f) PROVE TypeOK'
  BY <1>3 DEF PeerClose
<1>4. ASSUME NEW f \in Fds, PeerReset(f) PROVE TypeOK'
  BY <1>4 DEF PeerReset
<1>5. ASSUME NEW t \in Threads, LoopTop(t) PROVE TypeOK'
  <2>1. CASE queue[t] = <<>>
    <3>1. Threads \ {t} \in SUBSET Threads
      OBVIOUS
    <3>2. left' \in [Threads -> SUBSET Threads]
      BY <1>5, <2>1, <3>1 DEF LoopTop
    <3> QED
      BY <1>5, <2>1, <3>2 DEF LoopTop
  <2>2. CASE queue[t] # <<>>
    BY <1>5, <2>2 DEF LoopTop
  <2> QED
    BY <2>1, <2>2
<1>6. ASSUME NEW t \in Threads, NEW v \in Threads, StealFrom(t, v) PROVE TypeOK'
  <2> DEFINE n == SmallerOf(Len(queue[v]), Batch - Len(batch[t]))
  <2>1. queue[v] \in Seq(Fds) /\ Batch - Len(batch[t]) \in Nat
    BY <1>6 DEF StealFrom
  <2>2. SubSeq(queue[v], 1, n) \in Seq(Fds) /\ SubSeq(queue[v], n + 1, Len(queue[v])) \in Seq(Fds)
    BY <2>1, TakeType
  <2>3. batch[t] \o SubSeq(queue[v], 1, n) \in Seq(Fds)
    BY <2>2, ConcatProperties
  <2> HIDE DEF n
  <2>4. batch' \in [Threads -> Seq(Fds)] /\ queue' \in [Threads -> Seq(Fds)]
    BY <1>6, <2>2, <2>3 DEF StealFrom, n
  <2> QED
    BY <1>6, <2>4 DEF StealFrom
<1>7. ASSUME NEW t \in Threads, StealDone(t) PROVE TypeOK'
  BY <1>7 DEF StealDone
<1>8. ASSUME NEW t \in Threads, PopSome(t) PROVE TypeOK'
  BY <1>8, TakeType DEF PopSome
<1>9. ASSUME NEW t \in Threads, ResumeTask(t) PROVE TypeOK'
  BY <1>9, HeadTailProperties DEF ResumeTask, Resume
<1>10. ASSUME NEW t \in Threads, BatchDone(t) PROVE TypeOK'
  BY <1>10 DEF BatchDone
<1>11. ASSUME NEW t \in Threads, SwapTasks(t) PROVE TypeOK'
  BY <1>11 DEF SwapTasks
<1>12. ASSUME NEW t \in Threads, RunTask(t) PROVE TypeOK'
  BY <1>12, HeadTailProperties DEF RunTask, Resume
<1>13. ASSUME NEW t \in Threads, TasksDone(t) PROVE TypeOK'
  BY <1>13 DEF TasksDone
<1>14. ASSUME NEW t \in Threads, NEW D \in SUBSET Cors, EpollWait(t, D) PROVE TypeOK'
  <2>1. /\ timers' \in [Threads -> SUBSET Cors] /\ due' \in [Threads -> SUBSET Cors]
        /\ inEvents' \in [Threads -> SUBSET Fds] /\ errEvents' \in [Threads -> SUBSET Fds]
    BY <1>14 DEF EpollWait
  <2> QED
    BY <1>14, <2>1 DEF EpollWait
<1>15. ASSUME NEW t \in Threads, NEW f \in Fds, HandleEvent(t, f) PROVE TypeOK'
  <2>1. inEvents' \in [Threads -> SUBSET Fds]
    BY <1>15 DEF HandleEvent
  <2>2. CASE cor[f] = NoCor
    BY <1>15, <2>1, <2>2 DEF HandleEvent
  <2>3. CASE cor[f] # NoCor
    <3>1. epoll' \in [Threads -> [Fds -> Interest]]
      <4>1. epoll' = [epoll EXCEPT ![t][f] = "none"]
        BY <1>15, <2>3 DEF HandleEvent
      <4>2. epoll \in [Threads -> [Fds -> Interest]] /\ "none" \in Interest
        OBVIOUS
      <4> QED
        BY <4>1, <4>2, InterestUpdate
    <3>2. queue' \in [Threads -> Seq(Fds)]
      <4>1. Append(queue[t], f) \in Seq(Fds)
        BY AppendProperties
      <4>2. queue' = [queue EXCEPT ![t] = Append(queue[t], f)]
        BY <1>15, <2>3 DEF HandleEvent
      <4> QED
        BY <4>1, <4>2
    <3> QED
      BY <1>15, <2>1, <2>3, <3>1, <3>2 DEF HandleEvent
  <2> QED
    BY <2>2, <2>3
<1>16. ASSUME NEW t \in Threads, NEW f \in Fds, HandleErrorEvent(t, f) PROVE TypeOK'
  BY <1>16 DEF HandleErrorEvent
<1>17. ASSUME NEW t \in Threads, NEW c \in Cors, TimerFires(t, c) PROVE TypeOK'
  BY <1>17 DEF TimerFires
<1>18. ASSUME NEW t \in Threads, EventsDone(t) PROVE TypeOK'
  BY <1>18 DEF EventsDone
<1>19. ASSUME NEW t \in Threads, ApplyPending(t) PROVE TypeOK'
  BY <1>19 DEF ApplyPending
<1>20. ASSUME NEW t \in Threads, NEW c \in Cors, NEW f \in Fds, RecvReady(t, c, f) PROVE TypeOK'
  BY <1>20 DEF RecvReady, ReactorFor
<1>21. ASSUME NEW t \in Threads, NEW c \in Cors, NEW f \in Fds, RecvMiss(t, c, f) PROVE TypeOK'
  BY <1>21 DEF RecvMiss, ReactorFor
<1>22. ASSUME NEW t \in Threads, NEW c \in Cors, ToEpoll(t, c) PROVE TypeOK'
  <2> waitFd[c] \in Fds
    BY <1>22 DEF ToEpoll, HookFd
  <2>1. CASE listen[waitFd[c]]
    BY <1>22, <2>1 DEF ToEpoll
  <2>2. CASE ~listen[waitFd[c]]
    BY <1>22, <2>2, UpdateType DEF ToEpoll
  <2> QED
    BY <2>1, <2>2
<1>23. ASSUME NEW t \in Threads, NEW c \in Cors, Yield(t, c) PROVE TypeOK'
  BY <1>23 DEF Yield
<1>24. ASSUME NEW t \in Threads, NEW c \in Cors, Disarm(t, c) PROVE TypeOK'
  <2> waitFd[c] \in Fds
    BY <1>24 DEF Disarm, HookFd
  <2>1. CASE listen[waitFd[c]]
    BY <1>24, <2>1, UpdateType DEF Disarm
  <2>2. CASE ~listen[waitFd[c]]
    BY <1>24, <2>2 DEF Disarm
  <2> QED
    BY <2>1, <2>2
<1>25. ASSUME NEW t \in Threads, NEW c \in Cors, Reread(t, c) PROVE TypeOK'
  <2>1. CASE sock[waitFd[c]] = "data"
    BY ZenonT(40), <1>25, <2>1 DEF Reread
  <2>2. CASE sock[waitFd[c]] # "data"
    BY <1>25, <2>2 DEF Reread
  <2> QED
    BY <2>1, <2>2
<1>26. ASSUME NEW t \in Threads, NEW c \in Cors, ClearClient(t, c) PROVE TypeOK'
  <2>1. waitFd[c] \in Fds
    BY <1>26 DEF ClearClient, HookFd
  <2> QED
    BY <1>26, <2>1, UnregisterType DEF ClearClient
<1>27. ASSUME NEW t \in Threads, NEW c \in Cors, YieldForever(t, c) PROVE TypeOK'
  BY <1>27 DEF YieldForever
<1>28. ASSUME NEW t \in Threads, NEW c \in Cors, Sleep(t, c) PROVE TypeOK'
  BY <1>28 DEF Sleep
<1>29. ASSUME NEW t \in Threads, NEW c \in Cors, NEW f \in Fds, OpenClient(t, c, f) PROVE TypeOK'
  BY <1>29 DEF OpenClient
<1>30. ASSUME NEW t \in Threads, NEW c \in Cors, NEW f \in Fds, CloseClient(t, c, f) PROVE TypeOK'
  BY <1>30, UnregisterType DEF CloseClient
<1>31. CASE UNCHANGED vars
  BY <1>31 DEF vars
<1>32. QED
  BY <1>1, <1>2, <1>3, <1>4, <1>5, <1>6, <1>7, <1>8, <1>9, <1>10, <1>11, <1>12, <1>13, <1>14, <1>15, <1>16, <1>17, <1>18, <1>19, <1>20, <1>21, <1>22, <1>23, <1>24, <1>25, <1>26, <1>27, <1>28, <1>29, <1>30, <1>31 DEF Next, Environment, ThreadStep, LoopStep, CorStep

\* A hooked call sets the fd before the coroutine can wait, and only the end of
\* the call or of the connection unsets it.
LEMMA HookStep == TypeOK /\ HookFd /\ [Next]_vars => HookFd'
<1> SUFFICES ASSUME TypeOK, HookFd, [Next]_vars, NEW d \in Cors
             PROVE  (at[d] \in {"arm", "yield", "parked", "woken", "reread", "close"} =>
                        waitFd[d] \in Fds)'
  BY DEF HookFd
<1> USE DEF TypeOK, HookFd, corVars
<1>1. CASE UNCHANGED corVars
  BY <1>1
<1>2. ASSUME NEW t \in Threads, NEW c \in Cors, Resume(t, c), UNCHANGED waitFd
      PROVE  HookFd'
  BY <1>2 DEF Resume
<1>3. ASSUME NEW t \in Threads, ThreadStep(t), ~UNCHANGED corVars
      PROVE  HookFd'
  <2>1. CASE ResumeTask(t)
    <3> Head(batch[t]) \in Fds /\ cor[Head(batch[t])] \in Cors
      BY <2>1, HeadTailProperties DEF ResumeTask
    <3> QED
      BY <1>2, <2>1 DEF ResumeTask
  <2>2. CASE RunTask(t)
    <3> Head(tmpTasks[t]) \in Cors
      BY <2>2, HeadTailProperties DEF RunTask
    <3> QED
      BY <1>2, <2>2 DEF RunTask
  <2>3. ASSUME NEW c \in Cors, TimerFires(t, c) PROVE HookFd'
    BY <2>3 DEF TimerFires
  <2>4. ASSUME NEW c \in Cors, NEW f \in Fds, RecvMiss(t, c, f) PROVE HookFd'
    BY <2>4 DEF RecvMiss
  <2>5. ASSUME NEW c \in Cors,
               \/ ToEpoll(t, c) \/ Yield(t, c) \/ Disarm(t, c) \/ Reread(t, c)
               \/ ClearClient(t, c) \/ YieldForever(t, c) \/ Sleep(t, c)
        PROVE  HookFd'
    BY <2>5 DEF ToEpoll, Yield, Disarm, Reread, ClearClient, YieldForever, Sleep
  <2> QED
    BY <1>3, <2>1, <2>2, <2>3, <2>4, <2>5 DEF ThreadStep, LoopStep, CorStep,
       LoopTop, StealFrom, StealDone, PopSome, BatchDone, SwapTasks, TasksDone,
       EpollWait, HandleEvent, HandleErrorEvent, EventsDone, ApplyPending,
       RecvReady, OpenClient, CloseClient
<1>4. ASSUME NEW t \in Threads, NEW f \in Fds, NEW c \in Cors, Accept(t, f, c)
      PROVE  HookFd'
  BY <1>4 DEF Accept
<1> QED
  BY <1>1, <1>3, <1>4 DEF Next, Environment, PeerSend, PeerClose, PeerReset, vars, HookFd

\* Every state of the scheduler has the declared shape, for any number of
\* threads, sockets and coroutines, and with client sockets in the handlers.
THEOREM TypeCorrect == Spec => []TypeOK
<1>1. Init => TypeOK /\ HookFd
  BY TypeInit DEF Init, HookFd
<1>2. TypeOK /\ HookFd /\ [Next]_vars => (TypeOK /\ HookFd)'
  BY TypeStep, HookStep
<1> QED
  BY <1>1, <1>2, PTL DEF Spec

----------------------------------------------------------------------------
(* Exclusion.  Each lemma that follows the frame lemmas is one action; its *)
(* steps are the parts of IndInv the action could disturb.                 *)

\* What every step proof starts from.
Before == IndInv /\ TypeOK' /\ ClientFds = {}

\* The queues keep their invariant when neither they nor the waiting change.
LEMMA QueueFrame ==
    ASSUME TypeOK, QueueInv, UNCHANGED <<queue, batch>>,
           \A g \in Fds : Waiting(g) => Waiting(g)'
    PROVE  QueueInv'
<1>1. \A t \in Threads : ToSet(queue[t]) \subseteq Fds /\ ToSet(batch[t]) \subseteq Fds
  BY ElementsType DEF TypeOK
<1>2. Unique(queue)' /\ Unique(batch)' /\ Disjoint(queue, batch)'
  BY DEF QueueInv, Unique, Disjoint
<1> QED
  BY <1>1, <1>2 DEF QueueInv

\* So do the tasks.
LEMMA TaskFrame ==
    ASSUME TypeOK, TaskInv, UNCHANGED <<pendingTasks, tmpTasks>>,
           \A u \in Threads, d \in Cors : Starting(u, d) => Starting(u, d)'
    PROVE  TaskInv'
<1>1. \A t \in Threads : ToSet(pendingTasks[t]) \subseteq Cors /\ ToSet(tmpTasks[t]) \subseteq Cors
  BY ElementsType DEF TypeOK
<1>2. Unique(pendingTasks)' /\ Unique(tmpTasks)' /\ Disjoint(pendingTasks, tmpTasks)'
  BY DEF TaskInv, Unique, Disjoint
<1> QED
  BY <1>1, <1>2 DEF TaskInv

\* A step that moves no coroutine, fd, task or registration keeps the
\* invariant: a peer's, a ready call's, or a change of place in the loop.
LEMMA NothingMoves ==
    ASSUME IndInv, TypeOK',
           UNCHANGED <<owner, reactor, cor, corVars, current, queue, batch, taskVars,
                       eventVars, timerVars, epollVars>>,
           \A f \in Fds : sock'[f] = "closed" => sock[f] = "closed"
    PROVE  IndInv'
<1> USE DEF IndInv, corVars, taskVars, eventVars, timerVars, epollVars
<1>1. ExclusiveRun' /\ OwnerInv' /\ WaitInv' /\ RunInv'
  BY DEF ExclusiveRun, OwnerInv, WaitInv, RunInv
<1>2. EpollInv' /\ EventInv' /\ TimerInv'
  BY DEF EpollInv, RegisteredWithOwnReactor, EventInv, TimerInv
<1>3. QueueInv'
  BY QueueFrame DEF Waiting
<1>4. TaskInv'
  BY TaskFrame DEF Starting
<1> QED
  BY <1>1, <1>2, <1>3, <1>4

\* Coroutine c, suspended, becomes the one thread t runs: no other thread runs
\* it, and its sockets name t's reactor.
LEMMA SwitchIn ==
    ASSUME IndInv, NEW t \in Threads, NEW c \in Cors, NEW s \in {"run", "woken"},
           at[c] \in Suspended, at' = [at EXCEPT ![c] = s],
           current' = [current EXCEPT ![t] = c], UNCHANGED owner,
           \A f \in Fds : reactor'[f] = IF owner[f] = c THEN t ELSE reactor[f]
    PROVE  ExclusiveRun' /\ RunInv' /\ \A u \in Threads : current[u] # c
<1>1. \A u \in Threads : current[u] # c
  BY DEF IndInv, RunInv, Suspended, Live
<1>2. ExclusiveRun'
  BY <1>1 DEF IndInv, TypeOK, ExclusiveRun
<1>3. RunInv'
  BY <1>1 DEF IndInv, TypeOK, RunInv, Live
<1> QED
  BY <1>1, <1>2, <1>3

\* The elements of the queues and of the tasks have their types.
LEMMA QueuedTypes ==
    ASSUME TypeOK
    PROVE  \A t \in Threads :
              /\ ToSet(queue[t]) \subseteq Fds /\ ToSet(batch[t]) \subseteq Fds
              /\ ToSet(pendingTasks[t]) \subseteq Cors /\ ToSet(tmpTasks[t]) \subseteq Cors
BY ElementsType DEF TypeOK

\* No FdEvent names a coroutine that does not wait, and no thread runs one
\* that is not live.
LEMMA NotNamed ==
    ASSUME IndInv, NEW c \in Cors, at[c] \notin {"yield", "parked", "woken"}
    PROVE  \A f \in Fds : cor[f] # c
BY SchedulerAssumption DEF SchedulerAssumption, IndInv, WaitInv

\* A coroutine that is not live is run by no thread.
LEMMA NotRun ==
    ASSUME IndInv, NEW c \in Cors, at[c] \notin Live
    PROVE  \A t \in Threads : current[t] # c
BY DEF IndInv, RunInv

\* The values X leave v's sequence in q for t's in b.
Moved(q, b, q2, b2, X, t, v) ==
    /\ X \subseteq ToSet(q[v]) /\ X \cap ToSet(q2[v]) = {}
    /\ IsInjective(q2[v]) /\ ToSet(q2[v]) \subseteq ToSet(q[v])
    /\ \A u \in Threads : u # v => q2[u] = q[u]
    /\ IsInjective(b2[t]) /\ ToSet(b2[t]) \subseteq ToSet(b[t]) \cup X
    /\ \A u \in Threads : u # t => b2[u] = b[u]

\* No value is then in two places.
LEMMA MoveKeeps ==
    ASSUME NEW q, NEW b, NEW q2, NEW b2, NEW X, NEW t \in Threads, NEW v \in Threads,
           Unique(q), Unique(b), Disjoint(q, b), Moved(q, b, q2, b2, X, t, v)
    PROVE  Unique(q2) /\ Unique(b2) /\ Disjoint(q2, b2)
<1> USE DEF Moved
<1>1. \A u \in Threads : ToSet(q2[u]) \subseteq ToSet(q[u]) /\ ToSet(q2[u]) \cap X = {}
  BY DEF Unique
<1>2. Unique(q2)
  BY <1>1 DEF Unique
<1>3. \A u \in Threads : ToSet(b[u]) \cap X = {}
  BY DEF Disjoint
<1>4. Unique(b2)
  BY <1>3 DEF Unique
<1>5. \A u \in Threads : ToSet(b2[u]) \subseteq ToSet(b[u]) \cup X
  OBVIOUS
<1>6. Disjoint(q2, b2)
  BY <1>1, <1>5 DEF Disjoint
<1> QED
  BY <1>2, <1>4, <1>6

\* A value x new to q and to b enters t's sequence in q.
Added(q, b, q2, x, t) ==
    /\ \A u \in Threads : x \notin ToSet(q[u]) /\ x \notin ToSet(b[u])
    /\ IsInjective(q2[t]) /\ ToSet(q2[t]) = ToSet(q[t]) \cup {x}
    /\ \A u \in Threads : u # t => q2[u] = q[u]

\* No value is then in two places.
LEMMA AddKeeps ==
    ASSUME NEW q, NEW b, NEW q2, NEW x, NEW t \in Threads,
           Unique(q), Disjoint(q, b), Added(q, b, q2, x, t)
    PROVE  Unique(q2) /\ Disjoint(q2, b)
<1>1. Unique(q2)
  BY DEF Unique, Added
<1>2. Disjoint(q2, b)
  BY DEF Disjoint, Added
<1> QED
  BY <1>1, <1>2

\* The timers keep their invariant when nothing it mentions changes.
LEMMA TimerFrame ==
    ASSUME TimerInv, UNCHANGED <<at, owner, reactor, timers, due>>
    PROVE  TimerInv'
BY DEF TimerInv

\* The steps that move nothing.
LEMMA QuietInd ==
    ASSUME Before,
           \/ \E f \in Fds : PeerSend(f) \/ PeerClose(f) \/ PeerReset(f)
           \/ \E t \in Threads : LoopTop(t) \/ StealDone(t) \/ BatchDone(t)
                                 \/ TasksDone(t) \/ EventsDone(t)
           \/ UNCHANGED vars
    PROVE  IndInv'
<1> USE DEF Before, IndInv, TypeOK, fdVars, corVars, queueVars, taskVars, eventVars,
        timerVars, epollVars
<1>1. ASSUME NEW f \in Fds, PeerSend(f) \/ PeerClose(f) \/ PeerReset(f) PROVE IndInv'
  BY <1>1, NothingMoves DEF PeerSend, PeerClose, PeerReset
<1>2. ASSUME NEW t \in Threads, LoopTop(t) \/ StealDone(t) \/ BatchDone(t)
                               \/ TasksDone(t) \/ EventsDone(t)
      PROVE  IndInv'
  BY <1>2, NothingMoves DEF LoopTop, StealDone, BatchDone, TasksDone, EventsDone
<1>3. CASE UNCHANGED vars
  BY <1>3, NothingMoves DEF vars
<1> QED
  BY <1>1, <1>2, <1>3

\* A free coroutine gets a closed fd and one task.
LEMMA AcceptInd ==
    ASSUME Before, NEW t \in Threads, NEW f \in Fds, NEW c \in Cors,
           Accept(t, f, c)
    PROVE  IndInv'
<1> USE SchedulerAssumption DEF SchedulerAssumption, Before, IndInv, TypeOK,
        fdVars, corVars, queueVars, taskVars, eventVars, timerVars, epollVars
<1>0. at[c] = "free"
  BY DEF Accept
<1>1. \A u \in Threads : current[u] # c
  BY <1>0, NotRun DEF Live
<1>2. \A g \in Fds : owner[g] # c /\ cor[g] # c
  <2>1. \A g \in Fds : owner[g] # c
    BY <1>0 DEF OwnerInv
  <2>2. \A g \in Fds : cor[g] # c
    BY <1>0, NotNamed
  <2> QED
    BY <2>1, <2>2
<1>4. ExclusiveRun'
  BY DEF ExclusiveRun, Accept
<1>5. OwnerInv'
  BY DEF OwnerInv, Accept
<1>6. WaitInv'
  BY <1>0, <1>1 DEF WaitInv, OwnerInv, Accept
<1>7. RunInv'
  BY <1>1 DEF RunInv, Accept
<1>8. EpollInv'
  BY <1>1, <1>2 DEF EpollInv, RegisteredWithOwnReactor, OwnerInv, Accept
<1>9. EventInv'
  BY DEF EventInv, Accept
<1>10. QueueInv'
  <2>1. \A g \in Fds : Waiting(g) => Waiting(g)'
    BY DEF Waiting, Accept
  <2> QED
    BY <2>1, QueueFrame DEF Accept
<1>11. TaskInv'
  <2>1. \A u \in Threads, d \in Cors : Starting(u, d) => d # c /\ Starting(u, d)'
    BY DEF Starting, Accept
  <2>2. Starting(t, c)'
    BY <1>2 DEF Starting, Accept
  <2>3. \A u \in Threads : c \notin ToSet(pendingTasks[u]) /\ c \notin ToSet(tmpTasks[u])
    BY <2>1, QueuedTypes DEF TaskInv
  <2>4. /\ pendingTasks \in [Threads -> Seq(Cors)] /\ tmpTasks' = tmpTasks
        /\ pendingTasks' = [pendingTasks EXCEPT ![t] = Append(pendingTasks[t], c)]
    BY DEF Accept
  <2>5. /\ IsInjective(pendingTasks'[t])
        /\ ToSet(pendingTasks'[t]) = ToSet(pendingTasks[t]) \cup {c}
    BY <2>3, <2>4, AppendElements DEF TaskInv, Unique
  <2>6. \A u \in Threads : u # t => pendingTasks'[u] = pendingTasks[u]
    BY <2>4
  <2>7. Unique(pendingTasks') /\ Unique(tmpTasks') /\ Disjoint(pendingTasks', tmpTasks')
    <3>1. Added(pendingTasks, tmpTasks, pendingTasks', c, t)
      BY <2>3, <2>5, <2>6 DEF Added
    <3>2. Unique(pendingTasks') /\ Disjoint(pendingTasks', tmpTasks)
      BY <3>1, AddKeeps DEF TaskInv
    <3> QED
      BY <2>4, <3>2 DEF TaskInv
  <2>8. \A u \in Threads : /\ \A d \in ToSet(pendingTasks'[u]) : Starting(u, d)'
                          /\ \A d \in ToSet(tmpTasks'[u]) : Starting(u, d)'
    BY <2>1, <2>2, <2>4, <2>5, QueuedTypes DEF TaskInv
  <2> QED
    BY <2>7, <2>8 DEF TaskInv
<1>12. TimerInv'
  BY DEF TimerInv, Accept
<1> QED
  BY <1>4, <1>5, <1>6, <1>7, <1>8, <1>9, <1>10, <1>11, <1>12

\* A prefix of v's queue moves to the end of t's batch.
LEMMA StealFromInd ==
    ASSUME Before, NEW t \in Threads, NEW v \in Threads,
           StealFrom(t, v)
    PROVE  IndInv'
<1> USE SchedulerAssumption DEF SchedulerAssumption, Before, IndInv, TypeOK,
        fdVars, corVars, queueVars, taskVars, eventVars, timerVars, epollVars
<1> DEFINE n == SmallerOf(Len(queue[v]), Batch - Len(batch[t]))
           first == SubSeq(queue[v], 1, n)
           rest == SubSeq(queue[v], n + 1, Len(queue[v]))
<1>1. /\ IsInjective(first) /\ IsInjective(rest) /\ first \in Seq(Fds)
      /\ ToSet(first) \cap ToSet(rest) = {}
      /\ ToSet(first) \subseteq ToSet(queue[v]) /\ ToSet(rest) \subseteq ToSet(queue[v])
  <2>1. n \in 0..Len(queue[v]) /\ queue[v] \in Seq(Fds)
    BY DEF SmallerOf, StealFrom
  <2>2. IsInjective(queue[v])
    BY DEF QueueInv, Unique
  <2> HIDE DEF n, Before, IndInv, TypeOK
  <2> QED
    BY <2>1, <2>2, CutElements
<1>2. /\ batch[t] \in Seq(Fds) /\ queue' = [queue EXCEPT ![v] = rest]
      /\ batch' = [batch EXCEPT ![t] = batch[t] \o first]
  BY DEF StealFrom
<1> HIDE DEF first, rest
<1>3. /\ IsInjective(batch'[t]) /\ ToSet(batch'[t]) = ToSet(batch[t]) \cup ToSet(first)
      /\ \A u \in Threads : u # t => batch'[u] = batch[u]
      /\ queue'[v] = rest /\ \A u \in Threads : u # v => queue'[u] = queue[u]
  <2>1. ToSet(batch[t]) \cap ToSet(first) = {} /\ IsInjective(batch[t])
    BY <1>1 DEF QueueInv, Unique, Disjoint
  <2>2. /\ IsInjective(batch[t] \o first)
        /\ ToSet(batch[t] \o first) = ToSet(batch[t]) \cup ToSet(first)
    BY <1>1, <1>2, <2>1, ConcatElements
  <2> QED
    BY <1>2, <2>2
<1>4. Unique(queue') /\ Unique(batch') /\ Disjoint(queue', batch')
  <2>1. Moved(queue, batch, queue', batch', ToSet(first), t, v)
    BY <1>1, <1>3 DEF Moved
  <2> QED
    BY <2>1, MoveKeeps DEF QueueInv
<1>5. /\ UNCHANGED <<owner, reactor, cor, at, waitFd, current, pendingTasks, tmpTasks, inEvents,
                    errEvents, timers, due, epoll, pendingAdd, pendingDel, sock>>
  BY DEF StealFrom
<1>6. ExclusiveRun'
  BY <1>5 DEF ExclusiveRun
<1>7. OwnerInv'
  BY <1>5 DEF OwnerInv
<1>8. WaitInv'
  BY <1>5 DEF WaitInv
<1>9. RunInv'
  BY <1>5 DEF RunInv
<1>10. EpollInv'
  BY <1>5 DEF EpollInv, RegisteredWithOwnReactor
<1>11. EventInv'
  BY <1>5 DEF EventInv
<1>12. QueueInv'
  <2>1. \A u \in Threads : /\ \A g \in ToSet(queue'[u]) : Waiting(g)
                          /\ \A g \in ToSet(batch'[u]) : Waiting(g)
    BY <1>1, <1>3 DEF QueueInv
  <2>2. \A g \in Fds : Waiting(g) => Waiting(g)'
    BY <1>5 DEF Waiting
  <2>3. \A u \in Threads : ToSet(queue'[u]) \subseteq Fds /\ ToSet(batch'[u]) \subseteq Fds
    BY <1>1, <1>3, QueuedTypes
  <2> QED
    BY <1>4, <2>1, <2>2, <2>3 DEF QueueInv
<1>13. TaskInv'
  BY <1>5, TaskFrame DEF Starting
<1>14. TimerInv'
  BY <1>5, TimerFrame
<1> QED
  BY <1>6, <1>7, <1>8, <1>9, <1>10, <1>11, <1>12, <1>13, <1>14

\* A prefix of t's queue becomes t's batch.
LEMMA PopSomeInd ==
    ASSUME Before, NEW t \in Threads,
           PopSome(t)
    PROVE  IndInv'
<1> USE SchedulerAssumption DEF SchedulerAssumption, Before, IndInv, TypeOK,
        fdVars, corVars, queueVars, taskVars, eventVars, timerVars, epollVars
<1> DEFINE n == SmallerOf(Len(queue[t]), Batch)
           first == SubSeq(queue[t], 1, n)
           rest == SubSeq(queue[t], n + 1, Len(queue[t]))
<1>1. /\ IsInjective(first) /\ IsInjective(rest) /\ first \in Seq(Fds)
      /\ ToSet(first) \cap ToSet(rest) = {}
      /\ ToSet(first) \subseteq ToSet(queue[t]) /\ ToSet(rest) \subseteq ToSet(queue[t])
  <2>1. n \in 0..Len(queue[t]) /\ queue[t] \in Seq(Fds)
    BY DEF SmallerOf, PopSome
  <2>2. IsInjective(queue[t])
    BY DEF QueueInv, Unique
  <2> HIDE DEF n, Before, IndInv, TypeOK
  <2> QED
    BY <2>1, <2>2, CutElements
<1>2. queue' = [queue EXCEPT ![t] = rest] /\ batch' = [batch EXCEPT ![t] = first]
  BY DEF PopSome
<1> HIDE DEF first, rest
<1>3. /\ batch'[t] = first /\ \A u \in Threads : u # t => batch'[u] = batch[u]
      /\ queue'[t] = rest /\ \A u \in Threads : u # t => queue'[u] = queue[u]
  BY <1>2
<1>4. Unique(queue') /\ Unique(batch') /\ Disjoint(queue', batch')
  <2>1. Moved(queue, batch, queue', batch', ToSet(first), t, t)
    BY <1>1, <1>3 DEF Moved
  <2> QED
    BY <2>1, MoveKeeps DEF QueueInv
<1>5. /\ UNCHANGED <<owner, reactor, cor, at, waitFd, current, pendingTasks, tmpTasks, inEvents,
                    errEvents, timers, due, epoll, pendingAdd, pendingDel, sock>>
  BY DEF PopSome
<1>6. ExclusiveRun'
  BY <1>5 DEF ExclusiveRun
<1>7. OwnerInv'
  BY <1>5 DEF OwnerInv
<1>8. WaitInv'
  BY <1>5 DEF WaitInv
<1>9. RunInv'
  BY <1>5 DEF RunInv
<1>10. EpollInv'
  BY <1>5 DEF EpollInv, RegisteredWithOwnReactor
<1>11. EventInv'
  BY <1>5 DEF EventInv
<1>12. QueueInv'
  <2>1. \A u \in Threads : /\ \A g \in ToSet(queue'[u]) : Waiting(g)
                          /\ \A g \in ToSet(batch'[u]) : Waiting(g)
    BY <1>1, <1>3 DEF QueueInv
  <2>2. \A g \in Fds : Waiting(g) => Waiting(g)'
    BY <1>5 DEF Waiting
  <2>3. \A u \in Threads : ToSet(queue'[u]) \subseteq Fds /\ ToSet(batch'[u]) \subseteq Fds
    BY <1>1, <1>3, QueuedTypes
  <2> QED
    BY <1>4, <2>1, <2>2, <2>3 DEF QueueInv
<1>13. TaskInv'
  BY <1>5, TaskFrame DEF Starting
<1>14. TimerInv'
  BY <1>5, TimerFrame
<1> QED
  BY <1>6, <1>7, <1>8, <1>9, <1>10, <1>11, <1>12, <1>13, <1>14

\* The first of t's batch leaves every queue and is run by t.
LEMMA ResumeTaskInd ==
    ASSUME Before, NEW t \in Threads,
           ResumeTask(t)
    PROVE  IndInv'
<1> USE SchedulerAssumption DEF SchedulerAssumption, Before, IndInv, TypeOK,
        fdVars, corVars, queueVars, taskVars, eventVars, timerVars, epollVars
<1> DEFINE f == Head(batch[t])
           c == cor[f]
<1>1. batch[t] # <<>> /\ batch[t] \in Seq(Fds) /\ f \in ToSet(batch[t]) /\ f \in Fds
  BY TailElements, QueuedTypes DEF ResumeTask, QueueInv, Unique
<1>2. Waiting(f) /\ c \in Cors /\ at[c] = "parked" /\ owner[f] = c
  BY <1>1 DEF QueueInv, Waiting, WaitInv
<1>3. \A g \in Fds : g # f => owner[g] # c /\ cor[g] # c
  BY <1>1, <1>2 DEF OwnerInv, WaitInv
<1>4. /\ at' = [at EXCEPT ![c] = "woken"] /\ current' = [current EXCEPT ![t] = c]
      /\ reactor' = [reactor EXCEPT ![f] = t] /\ batch' = [batch EXCEPT ![t] = Tail(batch[t])]
      /\ UNCHANGED <<sock, owner, cor, waitFd, queue, pendingTasks, tmpTasks, inEvents,
                     errEvents, timers, due, epoll, pendingAdd, pendingDel>>
      /\ current[t] = Main
  BY <1>2 DEF ResumeTask, Resume
<1> HIDE DEF f, c
<1>5. ExclusiveRun' /\ RunInv' /\ \A u \in Threads : current[u] # c
  <2>1. \A g \in Fds : reactor'[g] = IF owner[g] = c THEN t ELSE reactor[g]
    BY <1>1, <1>2, <1>3, <1>4
  <2>2. at[c] \in Suspended
    BY <1>2 DEF Suspended
  <2> QED
    BY ZenonT(40), <2>1, <2>2, <1>2, <1>4, SwitchIn
<1>6. /\ IsInjective(batch'[t]) /\ ToSet(batch'[t]) = ToSet(batch[t]) \ {f}
      /\ \A u \in Threads : u # t => batch'[u] = batch[u]
  BY <1>4, TailElements DEF QueueInv, Unique, f
<1>7. ExclusiveRun'
  BY <1>5
<1>8. OwnerInv'
  BY <1>2, <1>4 DEF OwnerInv
<1>9. WaitInv'
  BY <1>2, <1>4 DEF WaitInv
<1>10. RunInv'
  BY <1>5
<1>11. EpollInv'
  <2>1. \A u \in Threads : epoll[u][f] = "none"
    BY <1>2 DEF Waiting
  <2>2. RegisteredWithOwnReactor'
    BY <1>4, <2>1 DEF EpollInv, RegisteredWithOwnReactor
  <2>3. \A u \in Threads, g \in Fds : epoll[u][g] = "armed" => g # f /\ cor[g] # c
    BY <1>3, <2>1
  <2> QED
    BY <1>4, <1>5, <2>2, <2>3 DEF EpollInv
<1>12. EventInv'
  <2>1. \A u \in Threads, g \in Fds : epoll[u][g] = "armed" => cor[g] \in Cors /\ cor[g] # c
    BY <1>2, <1>3 DEF Waiting, EpollInv
  <2> QED
    BY <1>4, <2>1 DEF EventInv
<1>13. QueueInv'
  <2>1. \A g \in Fds : g # f /\ Waiting(g) => Waiting(g)'
    BY <1>2, <1>3, <1>4 DEF Waiting
  <2>2. \A u \in Threads : f \notin ToSet(queue[u]) /\ f \notin ToSet(batch'[u])
    BY <1>1, <1>6 DEF QueueInv, Unique, Disjoint
  <2>3. Unique(queue)' /\ Unique(batch)' /\ Disjoint(queue, batch)'
    BY <1>4, <1>6 DEF QueueInv, Unique, Disjoint
  <2>4. \A u \in Threads : /\ \A g \in ToSet(queue'[u]) : g \in Fds /\ Waiting(g)
                          /\ \A g \in ToSet(batch'[u]) : g \in Fds /\ Waiting(g)
    BY <1>4, <1>6, QueuedTypes DEF QueueInv
  <2> QED
    BY <1>4, <2>1, <2>2, <2>3, <2>4 DEF QueueInv
<1>14. TaskInv'
  <2>1. \A u \in Threads, d \in Cors : Starting(u, d) => Starting(u, d)'
    BY <1>1, <1>2, <1>4 DEF Starting
  <2> QED
    BY <1>4, <2>1, TaskFrame
<1>15. TimerInv'
  BY <1>1, <1>2, <1>4 DEF TimerInv
<1> QED
  BY <1>7, <1>8, <1>9, <1>10, <1>11, <1>12, <1>13, <1>14, <1>15

\* The pending tasks of t become the ones it runs.
LEMMA SwapTasksInd ==
    ASSUME Before, NEW t \in Threads,
           SwapTasks(t)
    PROVE  IndInv'
<1> USE SchedulerAssumption DEF SchedulerAssumption, Before, IndInv, TypeOK,
        fdVars, corVars, queueVars, taskVars, eventVars, timerVars, epollVars
<1>1. /\ UNCHANGED <<owner, reactor, cor, at, waitFd, current, queue, batch, inEvents,
                    errEvents, timers, due, epoll, pendingAdd, pendingDel, sock>>
      /\ pendingTasks' = [pendingTasks EXCEPT ![t] = <<>>]
      /\ tmpTasks' = [tmpTasks EXCEPT ![t] = pendingTasks[t]]
  BY DEF SwapTasks
<1>2. ExclusiveRun'
  BY <1>1 DEF ExclusiveRun
<1>3. OwnerInv'
  BY <1>1 DEF OwnerInv, SwapTasks, InLoop, Runs
<1>4. WaitInv'
  BY <1>1 DEF WaitInv
<1>5. RunInv'
  BY <1>1 DEF RunInv
<1>6. EpollInv'
  BY <1>1 DEF EpollInv, RegisteredWithOwnReactor
<1>7. EventInv'
  BY <1>1 DEF EventInv
<1>8. QueueInv'
  BY <1>1, QueueFrame DEF Waiting
<1>9. TaskInv'
  <2>1. \A u \in Threads, d \in Cors : Starting(u, d) => Starting(u, d)'
    BY <1>1 DEF Starting
  <2>2. \A u \in Threads :
           IF u = t THEN pendingTasks'[u] = <<>> /\ tmpTasks'[u] = pendingTasks[u]
                    ELSE pendingTasks'[u] = pendingTasks[u] /\ tmpTasks'[u] = tmpTasks[u]
    BY <1>1
  <2>3. \A u \in Threads : /\ \A d \in ToSet(pendingTasks'[u]) : d \in Cors /\ Starting(u, d)
                          /\ \A d \in ToSet(tmpTasks'[u]) : d \in Cors /\ Starting(u, d)
    BY <2>2, QueuedTypes, EmptyElements DEF TaskInv
  <2>4. Unique(pendingTasks') /\ Unique(tmpTasks') /\ Disjoint(pendingTasks', tmpTasks')
    <3>1. IsInjective(pendingTasks[t])
      BY DEF TaskInv, Unique
    <3> QED
      <4>1. Moved(pendingTasks, tmpTasks, pendingTasks', tmpTasks', ToSet(pendingTasks[t]), t, t)
        BY <2>2, <3>1, EmptyElements DEF Moved
      <4> QED
        BY <4>1, MoveKeeps DEF TaskInv
  <2> QED
    BY <2>1, <2>3, <2>4 DEF TaskInv
<1>10. TimerInv'
  BY <1>1 DEF TimerInv
<1> QED
  BY <1>2, <1>3, <1>4, <1>5, <1>6, <1>7, <1>8, <1>9, <1>10

\* The first of t's tasks is run by t.
LEMMA RunTaskInd ==
    ASSUME Before, NEW t \in Threads,
           RunTask(t)
    PROVE  IndInv'
<1> USE SchedulerAssumption DEF SchedulerAssumption, Before, IndInv, TypeOK,
        fdVars, corVars, queueVars, taskVars, eventVars, timerVars, epollVars
<1> DEFINE c == Head(tmpTasks[t])
<1>1. tmpTasks[t] # <<>> /\ tmpTasks[t] \in Seq(Cors) /\ c \in ToSet(tmpTasks[t]) /\ c \in Cors
  BY TailElements, QueuedTypes DEF RunTask, TaskInv, Unique
<1>2. Starting(t, c)
  BY <1>1 DEF TaskInv
<1>3. at[c] = "start" /\ \A f \in Fds : (owner[f] = c => reactor[f] = t) /\ cor[f] # c
  BY <1>1, <1>2, NotNamed DEF Starting
<1>4. /\ at' = [at EXCEPT ![c] = "run"] /\ current' = [current EXCEPT ![t] = c]
      /\ UNCHANGED <<owner, reactor, cor, waitFd, queue, batch, pendingTasks, inEvents,
                     errEvents, timers, due, epoll, pendingAdd, pendingDel, sock>>
      /\ current[t] = Main /\ tmpTasks' = [tmpTasks EXCEPT ![t] = Tail(tmpTasks[t])]
  BY <1>3 DEF RunTask, Resume, InLoop
<1> HIDE DEF c
<1>5. ExclusiveRun' /\ RunInv' /\ \A u \in Threads : current[u] # c
  <2>1. \A g \in Fds : reactor'[g] = IF owner[g] = c THEN t ELSE reactor[g]
    BY <1>3, <1>4
  <2>2. at[c] \in Suspended
    BY <1>3 DEF Suspended
  <2> QED
    BY <2>1, <2>2, <1>1, <1>4, SwitchIn
<1>6. /\ IsInjective(tmpTasks'[t]) /\ ToSet(tmpTasks'[t]) = ToSet(tmpTasks[t]) \ {c}
      /\ \A u \in Threads : u # t => tmpTasks'[u] = tmpTasks[u]
  BY <1>4, TailElements DEF TaskInv, Unique, c
<1>7. ExclusiveRun'
  BY <1>5
<1>8. OwnerInv'
  BY <1>3, <1>4 DEF OwnerInv
<1>9. WaitInv'
  BY <1>3, <1>4 DEF WaitInv
<1>10. RunInv'
  BY <1>5
<1>11. EpollInv'
  BY <1>3, <1>4, <1>5 DEF EpollInv, RegisteredWithOwnReactor
<1>12. EventInv'
  BY <1>3, <1>4 DEF EventInv, EpollInv
<1>13. QueueInv'
  BY <1>3, <1>4, QueueFrame DEF Waiting
<1>14. TaskInv'
  <2>1. \A u \in Threads, d \in Cors : d # c /\ Starting(u, d) => Starting(u, d)'
    BY <1>4 DEF Starting
  <2>2. \A u \in Threads : c \notin ToSet(pendingTasks[u]) /\ c \notin ToSet(tmpTasks'[u])
    BY <1>1, <1>6 DEF TaskInv, Unique, Disjoint
  <2>3. Unique(pendingTasks)' /\ Unique(tmpTasks)' /\ Disjoint(pendingTasks, tmpTasks)'
    BY <1>4, <1>6 DEF TaskInv, Unique, Disjoint
  <2>4. \A u \in Threads : /\ \A d \in ToSet(pendingTasks'[u]) : d \in Cors /\ Starting(u, d)
                          /\ \A d \in ToSet(tmpTasks'[u]) : d \in Cors /\ Starting(u, d)
    BY <1>4, <1>6, QueuedTypes DEF TaskInv
  <2> QED
    BY <1>4, <2>1, <2>2, <2>3, <2>4 DEF TaskInv
<1>15. TimerInv'
  BY <1>3, <1>4 DEF TimerInv
<1> QED
  BY <1>7, <1>8, <1>9, <1>10, <1>11, <1>12, <1>13, <1>14, <1>15

\* What is reported is registered, and nobody registered runs.
LEMMA EpollWaitInd ==
    ASSUME Before, NEW t \in Threads, NEW D \in SUBSET Cors,
           EpollWait(t, D)
    PROVE  IndInv'
<1> USE SchedulerAssumption DEF SchedulerAssumption, Before, IndInv, TypeOK,
        fdVars, corVars, queueVars, taskVars, eventVars, timerVars, epollVars
<1>1. ExclusiveRun'
  BY DEF ExclusiveRun, EpollWait, InLoop
<1>2. OwnerInv'
  BY DEF OwnerInv, EpollWait
<1>3. WaitInv'
  BY DEF WaitInv, EpollWait
<1>4. RunInv'
  BY DEF RunInv, EpollWait
<1>5. EpollInv'
  BY DEF EpollInv, RegisteredWithOwnReactor, EpollWait
<1>6. EventInv'
  BY DEF EventInv, EpollInv, RegisteredWithOwnReactor, EpollWait, InLoop, Runs, Readable, HungUp
<1>7. QueueInv'
  <2>1. \A g \in Fds : Waiting(g) => Waiting(g)'
    BY DEF Waiting, EpollWait
  <2> QED
    BY <2>1, QueueFrame DEF EpollWait
<1>8. TaskInv'
  <2>1. \A u \in Threads, d \in Cors : Starting(u, d) => Starting(u, d)'
    BY DEF Starting, EpollWait
  <2> QED
    BY <2>1, TaskFrame DEF EpollWait
<1>9. TimerInv'
  BY DEF TimerInv, EpollWait
<1> QED
  BY <1>1, <1>2, <1>3, <1>4, <1>5, <1>6, <1>7, <1>8, <1>9

\* An armed fd leaves the epoll instance and joins one queue.
LEMMA HandleEventInd ==
    ASSUME Before, NEW t \in Threads, NEW f \in Fds,
           HandleEvent(t, f)
    PROVE  IndInv'
<1> USE SchedulerAssumption DEF SchedulerAssumption, Before, IndInv, TypeOK,
        fdVars, corVars, queueVars, taskVars, eventVars, timerVars, epollVars
<1>1. /\ cor[f] \in Cors /\ at[cor[f]] = "parked" /\ owner[f] = cor[f]
      /\ epoll[t][f] = "armed" /\ reactor[f] = t /\ t # NoThread
  BY DEF EventInv, EpollInv, RegisteredWithOwnReactor, WaitInv, HandleEvent
<1>2. /\ epoll' = [epoll EXCEPT ![t][f] = "none"]
      /\ reactor' = [reactor EXCEPT ![f] = NoThread]
      /\ queue' = [queue EXCEPT ![t] = Append(queue[t], f)]
      /\ inEvents' = [inEvents EXCEPT ![t] = inEvents[t] \ {f}]
      /\ UNCHANGED <<sock, owner, cor, at, waitFd, current, batch, pendingTasks, tmpTasks,
                     errEvents, timers, due, pendingAdd, pendingDel>>
  BY <1>1 DEF HandleEvent
<1>3. \A u \in Threads : epoll'[u][f] = "none"
  BY <1>1, <1>2 DEF EpollInv, RegisteredWithOwnReactor
<1>4. ExclusiveRun'
  BY <1>2 DEF ExclusiveRun
<1>5. OwnerInv'
  BY <1>2, <1>3 DEF OwnerInv
<1>6. WaitInv'
  BY <1>2 DEF WaitInv
<1>7. RunInv'
  BY <1>1, <1>2 DEF RunInv, Live
<1>8. EpollInv'
  BY <1>1, <1>2, <1>3 DEF EpollInv, RegisteredWithOwnReactor
<1>9. EventInv'
  <2>1. \A u \in Threads : u # t => f \notin inEvents[u]
    BY <1>1 DEF EventInv, EpollInv, RegisteredWithOwnReactor
  <2> QED
    BY <1>2, <2>1 DEF EventInv
<1>10. QueueInv'
  <2>1. \A g \in Fds : Waiting(g) => g # f /\ Waiting(g)'
    BY <1>1, <1>2 DEF Waiting
  <2>2. Waiting(f)'
    BY <1>1, <1>2, <1>3 DEF Waiting
  <2>3. \A u \in Threads : f \notin ToSet(queue[u]) /\ f \notin ToSet(batch[u])
    BY <2>1, QueuedTypes DEF QueueInv
  <2>4. /\ IsInjective(queue'[t]) /\ ToSet(queue'[t]) = ToSet(queue[t]) \cup {f}
        /\ \A u \in Threads : u # t => queue'[u] = queue[u]
    BY <1>2, <2>3, AppendElements DEF QueueInv, Unique
  <2>5. Unique(queue)' /\ Unique(batch)' /\ Disjoint(queue, batch)'
    BY <1>2, <2>3, <2>4 DEF QueueInv, Unique, Disjoint
  <2>6. \A u \in Threads : /\ \A g \in ToSet(queue'[u]) : Waiting(g)'
                          /\ \A g \in ToSet(batch'[u]) : Waiting(g)'
    BY <1>2, <2>1, <2>2, <2>4, QueuedTypes DEF QueueInv
  <2> QED
    BY <2>5, <2>6 DEF QueueInv
<1>11. TaskInv'
  <2>1. \A u \in Threads, d \in Cors : Starting(u, d) => Starting(u, d)'
    BY <1>1, <1>2 DEF Starting
  <2> QED
    BY <1>2, <2>1, TaskFrame
<1>12. TimerInv'
  BY <1>1, <1>2 DEF TimerInv
<1> QED
  BY <1>4, <1>5, <1>6, <1>7, <1>8, <1>9, <1>10, <1>11, <1>12

\* A hung-up fd leaves the epoll instance.
LEMMA HandleErrorEventInd ==
    ASSUME Before, NEW t \in Threads, NEW f \in Fds,
           HandleErrorEvent(t, f)
    PROVE  IndInv'
<1> USE SchedulerAssumption DEF SchedulerAssumption, Before, IndInv, TypeOK,
        fdVars, corVars, queueVars, taskVars, eventVars, timerVars, epollVars
<1>1. ExclusiveRun'
  BY DEF ExclusiveRun, HandleErrorEvent
<1>2. OwnerInv'
  BY DEF OwnerInv, HandleErrorEvent, InLoop, Runs
<1>3. WaitInv'
  BY DEF WaitInv, OwnerInv, HandleErrorEvent, InLoop, Runs
<1>4. RunInv'
  BY DEF RunInv, HandleErrorEvent
<1>5. EpollInv'
  BY DEF EpollInv, RegisteredWithOwnReactor, HandleErrorEvent
<1>6. EventInv'
  BY DEF EventInv, HandleErrorEvent
<1>7. QueueInv'
  <2>1. \A g \in Fds : Waiting(g) => Waiting(g)'
    BY DEF Waiting, HandleErrorEvent
  <2> QED
    BY <2>1, QueueFrame DEF HandleErrorEvent
<1>8. TaskInv'
  <2>1. \A u \in Threads, d \in Cors : Starting(u, d) => Starting(u, d)'
    BY DEF Starting, HandleErrorEvent
  <2> QED
    BY <2>1, TaskFrame DEF HandleErrorEvent
<1>9. TimerInv'
  BY DEF TimerInv, OwnerInv, HandleErrorEvent, InLoop, Runs
<1> QED
  BY <1>1, <1>2, <1>3, <1>4, <1>5, <1>6, <1>7, <1>8, <1>9

\* A sleeper is run by the thread of its timer.
LEMMA TimerFiresInd ==
    ASSUME Before, NEW t \in Threads, NEW c \in Cors,
           TimerFires(t, c)
    PROVE  IndInv'
<1> USE SchedulerAssumption DEF SchedulerAssumption, Before, IndInv, TypeOK,
        fdVars, corVars, queueVars, taskVars, eventVars, timerVars, epollVars
<1>1. /\ at' = [at EXCEPT ![c] = "run"] /\ current' = [current EXCEPT ![t] = c]
      /\ due' = [due EXCEPT ![t] = due[t] \ {c}] /\ c \in due[t] /\ current[t] = Main
      /\ UNCHANGED <<sock, owner, reactor, cor, waitFd, queue, batch, pendingTasks, tmpTasks,
                     inEvents, errEvents, timers, epoll, pendingAdd, pendingDel>>
  BY DEF TimerFires, InLoop
<1>2. at[c] = "sleep" /\ \A f \in Fds : owner[f] = c => reactor[f] = t
  BY <1>1 DEF TimerInv
<1>3. \A f \in Fds : cor[f] # c
  BY <1>2, NotNamed
<1>4. ExclusiveRun' /\ RunInv' /\ \A u \in Threads : current[u] # c
  <2>1. \A g \in Fds : reactor'[g] = IF owner[g] = c THEN t ELSE reactor[g]
    BY <1>1, <1>2
  <2>2. at[c] \in Suspended
    BY <1>2 DEF Suspended
  <2> QED
    BY <1>1, <2>1, <2>2, SwitchIn
<1>5. ExclusiveRun'
  BY <1>4
<1>6. OwnerInv'
  BY <1>1, <1>2 DEF OwnerInv
<1>7. WaitInv'
  BY <1>1, <1>2, <1>3 DEF WaitInv
<1>8. RunInv'
  BY <1>4
<1>9. EpollInv'
  BY <1>1, <1>3 DEF EpollInv, RegisteredWithOwnReactor
<1>10. EventInv'
  BY <1>1, <1>3 DEF EventInv, EpollInv
<1>11. QueueInv'
  BY <1>1, <1>3, QueueFrame DEF Waiting
<1>12. TaskInv'
  BY <1>1, <1>2, TaskFrame DEF Starting
<1>13. TimerInv'
  BY <1>1 DEF TimerInv
<1> QED
  BY <1>5, <1>6, <1>7, <1>8, <1>9, <1>10, <1>11, <1>12, <1>13

\* Nothing is pending.
LEMMA ApplyPendingInd ==
    ASSUME Before, NEW t \in Threads,
           ApplyPending(t)
    PROVE  IndInv'
<1> USE SchedulerAssumption DEF SchedulerAssumption, Before, IndInv, TypeOK,
        fdVars, corVars, queueVars, taskVars, eventVars, timerVars, epollVars
<1>1. epoll' = epoll /\ pendingAdd' = pendingAdd /\ pendingDel' = pendingDel
  BY DEF ApplyPending, EpollInv
<1>2. ExclusiveRun'
  BY DEF ExclusiveRun, ApplyPending
<1>3. OwnerInv'
  BY <1>1 DEF OwnerInv, ApplyPending, InLoop, Runs
<1>4. WaitInv'
  BY <1>1 DEF WaitInv, ApplyPending
<1>5. RunInv'
  BY DEF RunInv, ApplyPending
<1>6. EpollInv'
  BY DEF EpollInv, RegisteredWithOwnReactor, ApplyPending
<1>7. EventInv'
  BY <1>1 DEF EventInv, ApplyPending
<1>8. QueueInv'
  <2>1. \A g \in Fds : Waiting(g) => Waiting(g)'
    BY <1>1 DEF Waiting, ApplyPending
  <2> QED
    BY <2>1, QueueFrame DEF ApplyPending
<1>9. TaskInv'
  <2>1. \A u \in Threads, d \in Cors : Starting(u, d) => Starting(u, d)'
    BY DEF Starting, ApplyPending
  <2> QED
    BY <2>1, TaskFrame DEF ApplyPending
<1>10. TimerInv'
  BY DEF TimerInv, ApplyPending
<1> QED
  BY <1>2, <1>3, <1>4, <1>5, <1>6, <1>7, <1>8, <1>9, <1>10

\* A ready call returns.
LEMMA RecvReadyInd ==
    ASSUME Before, NEW t \in Threads, NEW c \in Cors, NEW f \in Fds, RecvReady(t, c, f)
    PROVE  IndInv'
<1>1. reactor[f] = t /\ t # NoThread
  BY SchedulerAssumption DEF SchedulerAssumption, Before, IndInv, RunInv, RecvReady, Runs, CanCall
<1>2. reactor' = reactor
  BY <1>1 DEF RecvReady, ReactorFor, Before, TypeOK
<1> QED
  BY <1>2, NothingMoves DEF RecvReady, Before,
     timerVars, epollVars, queueVars

\* A call that will wait.
LEMMA RecvMissInd ==
    ASSUME Before, NEW t \in Threads, NEW c \in Cors, NEW f \in Fds,
           RecvMiss(t, c, f)
    PROVE  IndInv'
<1> USE SchedulerAssumption DEF SchedulerAssumption, Before, IndInv, TypeOK,
        fdVars, corVars, queueVars, taskVars, eventVars, timerVars, epollVars
<1>1. ExclusiveRun'
  BY DEF ExclusiveRun, RunInv, RecvMiss
<1>2. OwnerInv'
  BY DEF OwnerInv, RecvMiss, ReactorFor
<1>3. WaitInv'
  BY DEF WaitInv, RecvMiss, CanCall
<1>4. RunInv'
  BY DEF RunInv, Live, RecvMiss, ReactorFor
<1>5. EpollInv'
  BY DEF EpollInv, RegisteredWithOwnReactor, WaitInv, OwnerInv, RunInv, RecvMiss, Runs, ReactorFor, CanCall
<1>6. EventInv'
  BY DEF EventInv, RecvMiss, ReactorFor
<1>7. QueueInv'
  <2>1. \A g \in Fds : Waiting(g) => Waiting(g)'
    BY DEF Waiting, RecvMiss, ReactorFor
  <2> QED
    BY <2>1, QueueFrame DEF RecvMiss
<1>8. TaskInv'
  <2>1. \A u \in Threads, d \in Cors : Starting(u, d) => Starting(u, d)'
    BY DEF Starting, RecvMiss, ReactorFor
  <2> QED
    BY <2>1, TaskFrame DEF RecvMiss
<1>9. TimerInv'
  BY DEF TimerInv, RecvMiss, ReactorFor
<1> QED
  BY <1>1, <1>2, <1>3, <1>4, <1>5, <1>6, <1>7, <1>8, <1>9

\* The socket is armed for the running coroutine.
LEMMA ToEpollInd ==
    ASSUME Before, NEW t \in Threads, NEW c \in Cors,
           ToEpoll(t, c)
    PROVE  IndInv'
<1> USE SchedulerAssumption DEF SchedulerAssumption, Before, IndInv, TypeOK,
        fdVars, corVars, queueVars, taskVars, eventVars, timerVars, epollVars
<1> DEFINE f == waitFd[c]
<1>1. f \in Fds /\ owner[f] = c /\ reactor[f] = t /\ t # NoThread /\ sock[f] # "closed"
  BY DEF ToEpoll, Runs, WaitInv, RunInv, OwnerInv
<1>2. /\ reactor' = reactor /\ pendingAdd' = pendingAdd /\ pendingDel' = pendingDel
      /\ epoll' = epoll \/ epoll' = [epoll EXCEPT ![t][f] = "armed"]
      /\ cor' = [cor EXCEPT ![f] = c] /\ at[c] = "arm" /\ at' = [at EXCEPT ![c] = "yield"]
      /\ current[t] = c
      /\ UNCHANGED <<sock, owner, waitFd, current, queue, batch, pendingTasks, tmpTasks,
                     inEvents, errEvents, timers, due>>
  BY <1>1 DEF ToEpoll, UpdateToReactor, ReactorFor, Runs
<1> HIDE DEF f
<1>3. /\ \A g \in Fds : owner[g] = c => g = f
      /\ \A g \in Fds : cor'[g] = IF g = f THEN c ELSE cor[g]
      /\ \A u \in Threads, g \in Fds :
            epoll'[u][g] = epoll[u][g] \/ (u = t /\ g = f /\ epoll'[u][g] = "armed")
  <2>1. \A g \in Fds : owner[g] = c => g = f
    BY <1>1 DEF OwnerInv
  <2>2. \A g \in Fds : cor'[g] = IF g = f THEN c ELSE cor[g]
    BY <1>1, <1>2
  <2>3. CASE epoll' = epoll
    BY <2>1, <2>2, <2>3
  <2>4. CASE epoll' = [epoll EXCEPT ![t][f] = "armed"]
    BY <1>1, <2>1, <2>2, <2>4
  <2> QED
    BY <1>2, <2>3, <2>4
<1>4. (\A g \in Fds : cor[g] # c) /\ cor[f] = NoCor
  BY <1>1, <1>2, NotNamed DEF WaitInv
<1>5. ExclusiveRun'
  BY <1>2 DEF ExclusiveRun
<1>6. OwnerInv'
  <2>1. \A g \in Fds : sock'[g] = "closed" =>
           owner[g] = NoCor /\ \A u \in Threads : epoll'[u][g] = "none"
    BY <1>1, <1>2, <1>3 DEF OwnerInv
  <2>2. \A g \in Fds : owner[g] \in Cors => at'[owner[g]] \notin {"free", "closing", "done"}
    BY <1>2 DEF OwnerInv
  <2> QED
    BY <1>2, <2>1, <2>2 DEF OwnerInv
<1>7. WaitInv'
  BY <1>2, <1>3 DEF WaitInv
<1>8. RunInv'
  BY <1>2 DEF RunInv, Live
<1>9. EpollInv'
  <2>1. RegisteredWithOwnReactor'
    <3> SUFFICES ASSUME NEW u \in Threads, NEW g \in Fds, epoll'[u][g] # "none"
                 PROVE  reactor'[g] = u
      BY DEF RegisteredWithOwnReactor
    <3>1. CASE epoll'[u][g] = epoll[u][g]
      BY <1>2, <3>1 DEF EpollInv, RegisteredWithOwnReactor
    <3> QED
      BY <1>1, <1>2, <1>3, <3>1
  <2>2. \A u \in Threads : epoll'[u][f] = "armed" => u = t
    BY <1>1, <1>2, <2>1 DEF RegisteredWithOwnReactor
  <2> QED
    BY <1>2, <2>1, <2>2 DEF EpollInv
<1>10. EventInv'
  <2>1. \A u \in Threads : f \notin inEvents[u]
    BY <1>4 DEF EventInv, EpollInv
  <2>2. \A u \in Threads : \A g \in inEvents[u] : cor[g] \in Cors /\ cor[g] # c
    BY <1>2 DEF EventInv, EpollInv
  <2> QED
    BY <1>2, <2>1 DEF EventInv
<1>11. QueueInv'
  <2>1. \A g \in Fds : Waiting(g) => g # f
    <3>1. cor[f] \in Cors => cor[f] = c
      BY <1>1 DEF WaitInv
    <3> QED
      BY <1>2, <3>1 DEF Waiting
  <2>2. \A g \in Fds : Waiting(g) => Waiting(g)'
    BY <1>1, <1>2, <1>3, <2>1 DEF Waiting
  <2> QED
    BY <1>2, <2>2, QueueFrame
<1>12. TaskInv'
  BY <1>2, TaskFrame DEF Starting
<1>13. TimerInv'
  BY <1>2 DEF TimerInv
<1> QED
  BY <1>5, <1>6, <1>7, <1>8, <1>9, <1>10, <1>11, <1>12, <1>13

\* The running coroutine is parked.
LEMMA YieldInd ==
    ASSUME Before, NEW t \in Threads, NEW c \in Cors,
           Yield(t, c)
    PROVE  IndInv'
<1> USE SchedulerAssumption DEF SchedulerAssumption, Before, IndInv, TypeOK,
        fdVars, corVars, queueVars, taskVars, eventVars, timerVars, epollVars
<1>1. \A g \in Fds : Waiting(g) => Waiting(g)'
  BY DEF Waiting, Yield
<1>2. ExclusiveRun'
  BY DEF ExclusiveRun, Yield
<1>3. OwnerInv'
  BY <1>1 DEF OwnerInv, Yield, InLoop, Runs
<1>4. WaitInv'
  BY DEF WaitInv, Yield
<1>5. RunInv'
  BY DEF RunInv, ExclusiveRun, Live, Yield, Runs
<1>6. EpollInv'
  BY DEF EpollInv, RegisteredWithOwnReactor, Yield, Runs
<1>7. EventInv'
  BY DEF EventInv, Yield
<1>8. QueueInv'
  BY <1>1, QueueFrame DEF Yield
<1>9. TaskInv'
  <2>1. \A u \in Threads, d \in Cors : Starting(u, d) => Starting(u, d)'
    BY DEF Starting, Yield
  <2> QED
    BY <2>1, TaskFrame DEF Yield
<1>10. TimerInv'
  BY DEF TimerInv, Yield
<1> QED
  BY <1>2, <1>3, <1>4, <1>5, <1>6, <1>7, <1>8, <1>9, <1>10

\* The socket is disarmed by the running coroutine.
LEMMA DisarmInd ==
    ASSUME Before, NEW t \in Threads, NEW c \in Cors,
           Disarm(t, c)
    PROVE  IndInv'
<1> USE SchedulerAssumption DEF SchedulerAssumption, Before, IndInv, TypeOK,
        fdVars, corVars, queueVars, taskVars, eventVars, timerVars, epollVars
<1> DEFINE f == waitFd[c]
<1>1. f \in Fds /\ owner[f] = c /\ reactor[f] = t /\ t # NoThread /\ sock[f] # "closed"
  BY DEF Disarm, Runs, WaitInv, RunInv, OwnerInv
<1>2. /\ reactor' = reactor /\ pendingAdd' = pendingAdd /\ pendingDel' = pendingDel
      /\ epoll' = epoll \/ epoll' = [epoll EXCEPT ![t][f] = "idle"]
      /\ cor' = [cor EXCEPT ![f] = NoCor] /\ at[c] = "woken" /\ at' = [at EXCEPT ![c] = "reread"]
      /\ current[t] = c
      /\ UNCHANGED <<sock, owner, waitFd, current, queue, batch, pendingTasks, tmpTasks,
                     inEvents, errEvents, timers, due>>
  BY <1>1 DEF Disarm, UpdateToReactor, ReactorFor, Runs
<1> HIDE DEF f
<1>3. /\ \A g \in Fds : owner[g] = c => g = f
      /\ \A g \in Fds : cor'[g] = IF g = f THEN NoCor ELSE cor[g]
      /\ \A u \in Threads, g \in Fds :
            epoll'[u][g] = epoll[u][g] \/ (u = t /\ g = f /\ epoll'[u][g] = "idle")
  <2>1. \A g \in Fds : owner[g] = c => g = f
    BY <1>1 DEF OwnerInv
  <2>2. \A g \in Fds : cor'[g] = IF g = f THEN NoCor ELSE cor[g]
    BY <1>1, <1>2
  <2>3. CASE epoll' = epoll
    BY <2>1, <2>2, <2>3
  <2>4. CASE epoll' = [epoll EXCEPT ![t][f] = "idle"]
    BY <1>1, <2>1, <2>2, <2>4
  <2> QED
    BY <1>2, <2>3, <2>4
<1>4. /\ \A g \in Fds : cor[g] = c => g = f
      /\ \A u \in Threads, g \in Fds : epoll[u][g] = "armed" => cor[g] # c /\ g # f
  <2>1. \A g \in Fds : cor[g] = c => g = f
    BY <1>2, <1>3 DEF WaitInv
  <2>2. \A u \in Threads, g \in Fds : epoll[u][g] = "armed" => at[cor[g]] \in {"yield", "parked"}
    BY DEF EpollInv
  <2>3. \A u \in Threads : epoll[u][f] = "armed" => cor[f] = owner[f]
    BY <1>1 DEF EpollInv, WaitInv
  <2>6. at[c] = "woken"
    BY <1>2
  <2>4. \A u \in Threads, g \in Fds : epoll[u][g] = "armed" => cor[g] # c
    BY <2>2, <2>6
  <2>5. \A u \in Threads : epoll[u][f] # "armed"
    BY <1>1, <2>3, <2>4
  <2> QED
    BY <2>1, <2>4, <2>5
<1>5. ExclusiveRun'
  BY <1>2 DEF ExclusiveRun
<1>6. OwnerInv'
  <2>1. \A g \in Fds : sock'[g] = "closed" =>
           owner[g] = NoCor /\ \A u \in Threads : epoll'[u][g] = "none"
    BY <1>1, <1>2, <1>3 DEF OwnerInv
  <2>2. \A g \in Fds : owner[g] \in Cors => at'[owner[g]] \notin {"free", "closing", "done"}
    BY <1>2 DEF OwnerInv
  <2> QED
    BY <1>2, <2>1, <2>2 DEF OwnerInv
<1>7. WaitInv'
  BY <1>2, <1>4 DEF WaitInv
<1>8. RunInv'
  BY <1>2 DEF RunInv, Live
<1>9. EpollInv'
  <2>1. RegisteredWithOwnReactor'
    <3> SUFFICES ASSUME NEW u \in Threads, NEW g \in Fds, epoll'[u][g] # "none"
                 PROVE  reactor'[g] = u
      BY DEF RegisteredWithOwnReactor
    <3>1. CASE epoll'[u][g] = epoll[u][g]
      BY <1>2, <3>1 DEF EpollInv, RegisteredWithOwnReactor
    <3> QED
      BY <1>1, <1>2, <1>3, <3>1
  <2> QED
    BY <1>2, <1>3, <1>4, <2>1 DEF EpollInv
<1>10. EventInv'
  <2>1. \A u \in Threads : f \notin inEvents[u]
    BY <1>4 DEF EventInv
  <2>2. \A u \in Threads : \A g \in inEvents[u] : cor[g] \in Cors /\ cor[g] # c
    BY <1>2 DEF EventInv, EpollInv
  <2> QED
    BY <1>2, <2>1 DEF EventInv
<1>11. QueueInv'
  <2>1. \A g \in Fds : Waiting(g) => g # f
    <3>1. cor[f] \in Cors => cor[f] = c
      BY <1>1 DEF WaitInv
    <3> QED
      BY <1>2, <3>1 DEF Waiting
  <2>2. \A g \in Fds : Waiting(g) => Waiting(g)'
    BY <1>1, <1>2, <1>3, <2>1 DEF Waiting
  <2> QED
    BY <1>2, <2>2, QueueFrame
<1>12. TaskInv'
  BY <1>2, TaskFrame DEF Starting
<1>13. TimerInv'
  BY <1>2 DEF TimerInv
<1> QED
  BY <1>5, <1>6, <1>7, <1>8, <1>9, <1>10, <1>11, <1>12, <1>13

\* The last read succeeds, or the connection ends.
LEMMA RereadInd ==
    ASSUME Before, NEW t \in Threads, NEW c \in Cors,
           Reread(t, c)
    PROVE  IndInv'
<1> USE SchedulerAssumption DEF SchedulerAssumption, Before, IndInv, TypeOK,
        fdVars, corVars, queueVars, taskVars, eventVars, timerVars, epollVars
<1>1. /\ at[c] = "reread" /\ current[t] = c
      /\ \/ at' = [at EXCEPT ![c] = "run"] /\ waitFd' = [waitFd EXCEPT ![c] = NoFd]
         \/ at' = [at EXCEPT ![c] = "close"] /\ waitFd' = waitFd
      /\ \A f \in Fds : sock'[f] = "closed" => sock[f] = "closed"
      /\ UNCHANGED <<owner, reactor, cor, current, queue, batch, pendingTasks, tmpTasks,
                     inEvents, errEvents, timers, due, epoll, pendingAdd, pendingDel>>
  BY DEF Reread, Runs
<1>2. \A f \in Fds : cor[f] # c
  BY <1>1, NotNamed
<1>3. /\ at'[c] \in {"run", "close"} /\ (at'[c] = "close" => waitFd'[c] = waitFd[c])
      /\ \A d \in Cors : d # c => at'[d] = at[d] /\ waitFd'[d] = waitFd[d]
  BY <1>1
<1>4. ExclusiveRun'
  BY <1>1 DEF ExclusiveRun
<1>5. OwnerInv'
  BY <1>1 DEF OwnerInv
<1>6. WaitInv'
  <2>1. ASSUME NEW d \in Cors,
               at'[d] \in {"arm", "yield", "parked", "woken", "reread", "close"}
        PROVE  waitFd'[d] \in Fds /\ owner'[waitFd'[d]] = d
    <3>1. CASE d = c
      BY <1>1, <1>3, <2>1, <3>1 DEF WaitInv
    <3>2. CASE d # c
      BY <1>1, <1>3, <2>1, <3>2 DEF WaitInv
    <3> QED
      BY <3>1, <3>2
  <2>2. ASSUME NEW f \in Fds, cor'[f] # NoCor
        PROVE  /\ owner'[f] = cor'[f] /\ waitFd'[cor'[f]] = f
               /\ at'[cor'[f]] \in {"yield", "parked", "woken"}
    BY <1>1, <1>2, <1>3, <2>2 DEF WaitInv
  <2> QED
    BY <2>1, <2>2 DEF WaitInv
<1>7. RunInv'
  <2>1. \A d \in Cors : at[d] \in Live => at'[d] \in Live
    BY <1>3 DEF Live
  <2> QED
    BY <1>1, <2>1 DEF RunInv
<1>8. EpollInv'
  BY <1>1, <1>2 DEF EpollInv, RegisteredWithOwnReactor
<1>9. EventInv'
  BY <1>1, <1>3 DEF EventInv, EpollInv
<1>10. QueueInv'
  BY <1>1, <1>2, QueueFrame DEF Waiting
<1>11. TaskInv'
  BY <1>1, TaskFrame DEF Starting
<1>12. TimerInv'
  BY <1>1 DEF TimerInv
<1> QED
  BY <1>4, <1>5, <1>6, <1>7, <1>8, <1>9, <1>10, <1>11, <1>12

\* The socket leaves the epoll instance and is closed.
LEMMA ClearClientInd ==
    ASSUME Before, NEW t \in Threads, NEW c \in Cors,
           ClearClient(t, c)
    PROVE  IndInv'
<1> USE SchedulerAssumption DEF SchedulerAssumption, Before, IndInv, TypeOK,
        fdVars, corVars, queueVars, taskVars, eventVars, timerVars, epollVars
<1> DEFINE f == waitFd[c]
<1>1. f \in Fds /\ owner[f] = c /\ reactor[f] = t /\ t # NoThread /\ sock[f] # "closed"
  BY DEF ClearClient, Runs, WaitInv, RunInv, OwnerInv
<1>2. /\ reactor' = reactor /\ pendingAdd' = pendingAdd /\ pendingDel' = pendingDel
      /\ epoll' = [epoll EXCEPT ![t][f] = "none"]
      /\ owner' = [owner EXCEPT ![f] = NoCor] /\ sock' = [sock EXCEPT ![f] = "closed"]
      /\ at[c] = "close" /\ at' = [at EXCEPT ![c] = "closing"] /\ current[t] = c
      /\ waitFd' = [waitFd EXCEPT ![c] = NoFd]
      /\ UNCHANGED <<cor, current, queue, batch, pendingTasks, tmpTasks, inEvents, errEvents,
                     timers, due>>
  BY <1>1 DEF ClearClient, UnregisterFromReactor, ReactorFor, Runs
<1> HIDE DEF f
<1>3. \A g \in Fds : cor[g] # c /\ (owner[g] = c => g = f)
  <2>1. \A g \in Fds : owner[g] = c => g = f
    BY <1>1 DEF OwnerInv
  <2>2. \A g \in Fds : cor[g] # c
    BY <1>2, NotNamed
  <2> QED
    BY <2>1, <2>2
<1>4. cor[f] = NoCor /\ \A u \in Threads : epoll'[u][f] = "none"
  BY <1>1, <1>2, <1>3 DEF WaitInv, EpollInv, RegisteredWithOwnReactor
<1>5. ExclusiveRun'
  BY <1>2 DEF ExclusiveRun
<1>6. OwnerInv'
  BY <1>1, <1>2, <1>3, <1>4 DEF OwnerInv
<1>7. WaitInv'
  BY <1>1, <1>2, <1>3, <1>4 DEF WaitInv
<1>8. RunInv'
  BY <1>1, <1>2 DEF RunInv, Live
<1>9. EpollInv'
  BY <1>2 DEF EpollInv, RegisteredWithOwnReactor
<1>10. EventInv'
  <2>1. \A u \in Threads : f \notin inEvents[u]
    BY <1>4 DEF EventInv, EpollInv
  <2>2. \A u \in Threads : \A g \in inEvents[u] : cor[g] # c
    BY <1>3
  <2> QED
    BY <1>2, <2>1 DEF EventInv
<1>11. QueueInv'
  <2>1. \A g \in Fds : Waiting(g) => Waiting(g)'
    BY <1>1, <1>2, <1>3, <1>4 DEF Waiting
  <2> QED
    BY <1>2, <2>1, QueueFrame
<1>12. TaskInv'
  BY <1>1, <1>2, TaskFrame DEF Starting
<1>13. TimerInv'
  BY <1>1, <1>2 DEF TimerInv
<1> QED
  BY <1>5, <1>6, <1>7, <1>8, <1>9, <1>10, <1>11, <1>12, <1>13

\* A coroutine whose connection is gone.
LEMMA YieldForeverInd ==
    ASSUME Before, NEW t \in Threads, NEW c \in Cors,
           YieldForever(t, c)
    PROVE  IndInv'
<1> USE SchedulerAssumption DEF SchedulerAssumption, Before, IndInv, TypeOK,
        fdVars, corVars, queueVars, taskVars, eventVars, timerVars, epollVars
<1>1. ExclusiveRun'
  BY DEF ExclusiveRun, YieldForever
<1>2. OwnerInv'
  BY DEF OwnerInv, YieldForever, InLoop, Runs
<1>3. WaitInv'
  BY DEF WaitInv, OwnerInv, YieldForever, InLoop, Runs
<1>4. RunInv'
  BY DEF RunInv, ExclusiveRun, YieldForever, Runs
<1>5. EpollInv'
  BY DEF EpollInv, RegisteredWithOwnReactor, YieldForever, Runs
<1>6. EventInv'
  BY DEF EventInv, YieldForever
<1>7. QueueInv'
  <2>1. \A g \in Fds : Waiting(g) => Waiting(g)'
    BY DEF Waiting, YieldForever
  <2> QED
    BY <2>1, QueueFrame DEF YieldForever
<1>8. TaskInv'
  <2>1. \A u \in Threads, d \in Cors : Starting(u, d) => Starting(u, d)'
    BY DEF Starting, YieldForever
  <2> QED
    BY <2>1, TaskFrame DEF YieldForever
<1>9. TimerInv'
  BY DEF TimerInv, OwnerInv, YieldForever, InLoop, Runs
<1> QED
  BY <1>1, <1>2, <1>3, <1>4, <1>5, <1>6, <1>7, <1>8, <1>9

\* The running coroutine goes to its thread's timer.
LEMMA SleepInd ==
    ASSUME Before, NEW t \in Threads, NEW c \in Cors,
           Sleep(t, c)
    PROVE  IndInv'
<1> USE SchedulerAssumption DEF SchedulerAssumption, Before, IndInv, TypeOK,
        fdVars, corVars, queueVars, taskVars, eventVars, timerVars, epollVars
<1>1. \A u \in Threads : c \notin timers[u] \cup due[u]
  BY DEF TimerInv, Sleep
<1>2. /\ timers' = [timers EXCEPT ![t] = timers[t] \cup {c}] /\ due' = due
      /\ at' = [at EXCEPT ![c] = "sleep"] /\ UNCHANGED <<owner, reactor>>
      /\ \A f \in Fds : owner[f] = c => reactor[f] = t
  BY DEF Sleep, RunInv, Runs
<1>3. ExclusiveRun'
  BY DEF ExclusiveRun, Sleep
<1>4. OwnerInv'
  BY DEF OwnerInv, Sleep
<1>5. WaitInv'
  BY DEF WaitInv, Sleep
<1>6. RunInv'
  BY DEF RunInv, ExclusiveRun, Live, Sleep, Runs
<1>7. EpollInv'
  BY DEF EpollInv, RegisteredWithOwnReactor, Sleep, Runs
<1>8. EventInv'
  BY DEF EventInv, Sleep
<1>9. QueueInv'
  <2>1. \A g \in Fds : Waiting(g) => Waiting(g)'
    BY DEF Waiting, Sleep
  <2> QED
    BY <2>1, QueueFrame DEF Sleep
<1>10. TaskInv'
  <2>1. \A u \in Threads, d \in Cors : Starting(u, d) => Starting(u, d)'
    BY DEF Starting, Sleep
  <2> QED
    BY <2>1, TaskFrame DEF Sleep
<1>11. TimerInv'
  <2>1. \A u \in Threads : timers'[u] \cup due'[u] = (timers[u] \cup due[u]) \cup (IF u = t THEN {c} ELSE {})
    BY <1>2
  <2>2. \A u \in Threads : \A d \in timers'[u] \cup due'[u] :
           at'[d] = "sleep" /\ \A f \in Fds : owner'[f] = d => reactor'[f] = u
    BY <1>2, <2>1 DEF TimerInv
  <2>3. \A u, w \in Threads : u # w =>
           (timers'[u] \cup due'[u]) \cap (timers'[w] \cup due'[w]) = {}
    <3> SUFFICES ASSUME NEW u \in Threads, NEW w \in Threads, u # w
                 PROVE  (timers'[u] \cup due'[u]) \cap (timers'[w] \cup due'[w]) = {}
      OBVIOUS
    <3>1. (timers[u] \cup due[u]) \cap (timers[w] \cup due[w]) = {}
      BY DEF TimerInv
    <3>2. c \notin timers[u] \cup due[u] /\ c \notin timers[w] \cup due[w]
      BY <1>1
    <3>3. /\ timers'[u] = IF u = t THEN timers[u] \cup {c} ELSE timers[u]
          /\ timers'[w] = IF w = t THEN timers[w] \cup {c} ELSE timers[w]
          /\ due'[u] = due[u] /\ due'[w] = due[w]
      BY <1>2
    <3>4. CASE u = t
      BY <3>1, <3>2, <3>3, <3>4
    <3>5. CASE w = t
      BY <3>1, <3>2, <3>3, <3>5
    <3>6. CASE u # t /\ w # t
      BY <3>1, <3>3, <3>6
    <3> QED
      BY <3>4, <3>5, <3>6
  <2>4. \A u \in Threads : timers'[u] \cap due'[u] = {}
    BY <1>1, <1>2 DEF TimerInv
  <2> QED
    BY <2>2, <2>3, <2>4 DEF TimerInv
<1> QED
  BY <1>3, <1>4, <1>5, <1>6, <1>7, <1>8, <1>9, <1>10, <1>11

\* The initial state satisfies the invariant.
LEMMA InitInd == Init => IndInv
<1> SUFFICES ASSUME Init PROVE IndInv
  OBVIOUS
<1>1. TypeOK
  BY TypeInit
<1>2. ExclusiveRun /\ OwnerInv /\ WaitInv /\ RunInv
  BY SchedulerAssumption DEF SchedulerAssumption, Init, ExclusiveRun, OwnerInv, WaitInv, RunInv
<1>3. EpollInv /\ EventInv /\ TimerInv
  BY DEF Init, EpollInv, RegisteredWithOwnReactor, EventInv, TimerInv
<1>4. QueueInv
  BY EmptyElements DEF Init, QueueInv, Unique, Disjoint
<1>5. TaskInv
  BY EmptyElements DEF Init, TaskInv, Unique, Disjoint
<1> QED
  BY <1>1, <1>2, <1>3, <1>4, <1>5 DEF IndInv

\* Every step keeps it, one lemma per action.
LEMMA IndStep ==
    ASSUME ClientFds = {}
    PROVE  IndInv /\ [Next]_vars => IndInv'
<1> SUFFICES ASSUME IndInv, [Next]_vars PROVE IndInv'
  OBVIOUS
<1>1. HookFd
  BY DEF IndInv, WaitInv, HookFd
<1>2. Before
  BY <1>1, TypeStep DEF Before, IndInv
<1>3. CASE Environment
  BY <1>2, <1>3, AcceptInd, QuietInd DEF Environment
<1>4. ASSUME NEW t \in Threads, LoopStep(t) PROVE IndInv'
  BY <1>2, <1>4, QuietInd, StealFromInd, PopSomeInd, ResumeTaskInd, SwapTasksInd,
     RunTaskInd, EpollWaitInd, HandleEventInd, HandleErrorEventInd, TimerFiresInd,
     ApplyPendingInd DEF LoopStep
<1>5. ASSUME NEW t \in Threads, NEW c \in Cors, CorStep(t, c) PROVE IndInv'
  <2>1. \A f \in Fds : ~OpenClient(t, c, f) /\ ~CloseClient(t, c, f)
    BY DEF OpenClient, CloseClient
  <2> QED
    BY <1>2, <1>5, <2>1, RecvReadyInd, RecvMissInd, ToEpollInd, YieldInd, DisarmInd,
       RereadInd, ClearClientInd, YieldForeverInd, SleepInd DEF CorStep
<1>6. CASE UNCHANGED vars
  BY <1>2, <1>6, QuietInd
<1> QED
  BY <1>3, <1>4, <1>5, <1>6 DEF Next, ThreadStep

\* IndInv holds in every state of a server whose handlers open no client.
THEOREM Inductive ==
    ASSUME ClientFds = {}
    PROVE  Spec => []IndInv
<1>1. Init => IndInv
  BY InitInd
<1>2. IndInv /\ [Next]_vars => IndInv'
  BY IndStep
<1> QED
  BY <1>1, <1>2, PTL DEF Spec

\* No coroutine's stack is executed by two IO threads at once: the hand-over
\* of its FdEvent between epoll instances, queues, batches, tasks and timers is
\* all the exclusion there is, and it suffices.
THEOREM Exclusion ==
    ASSUME ClientFds = {}
    PROVE  Spec => []ExclusiveRun
<1>1. IndInv => ExclusiveRun
  BY DEF IndInv
<1> QED
  BY <1>1, Inductive, PTL

\* An fd is registered with the epoll instance its FdEvent names and no other.
THEOREM OneRegistration ==
    ASSUME ClientFds = {}
    PROVE  Spec => []RegisteredWithOwnReactor
<1>1. IndInv => RegisteredWithOwnReactor
  BY DEF IndInv, EpollInv
<1> QED
  BY <1>1, Inductive, PTL

\* Every FdEvent in a queue or in a thief's batch belongs to one suspended
\* coroutine and to no epoll instance.
THEOREM QueuedOnlyWaiting ==
    ASSUME ClientFds = {}
    PROVE  Spec => []QueuedIsWaiting
<1>1. IndInv => QueuedIsWaiting
  <2> SUFFICES ASSUME IndInv, NEW t \in Threads, NEW f \in ToSet(queue[t]) \cup ToSet(batch[t])
               PROVE  /\ cor[f] \in Cors /\ at[cor[f]] = "parked" /\ waitFd[cor[f]] = f
                      /\ \A u \in Threads : epoll[u][f] = "none"
    BY DEF QueuedIsWaiting
  <2>1. f \in Fds
    BY QueuedTypes DEF IndInv
  <2>2. Waiting(f)
    BY DEF IndInv, QueueInv
  <2>3. cor[f] # NoCor
    BY <2>2, SchedulerAssumption DEF Waiting, SchedulerAssumption
  <2> QED
    BY <2>1, <2>2, <2>3 DEF Waiting, IndInv, WaitInv
<1> QED
  BY <1>1, Inductive, PTL

\* A thread switches only to a coroutine whose context was saved: the resumes
\* of queued FdEvents, of tasks and of timers all find it suspended.
THEOREM Saved ==
    ASSUME ClientFds = {}
    PROVE  Spec => ResumeSaved
<1> DEFINE Switch == \A t \in Threads, c \in Cors :
                        current[t] # c /\ current'[t] = c => at[c] \in Suspended
<1>1. IndInv /\ [Next]_vars => [Switch]_vars
  <2> SUFFICES ASSUME IndInv, Next, NEW t \in Threads, NEW c \in Cors,
                      current[t] # c, current'[t] = c
               PROVE  at[c] \in Suspended
    OBVIOUS
  <2> USE DEF IndInv, TypeOK
  <2>1. Main # c
    BY SchedulerAssumption DEF SchedulerAssumption
  <2>2. ASSUME NEW u \in Threads, ResumeTask(u) PROVE at[c] \in Suspended
    <3>1. /\ Head(batch[u]) \in ToSet(batch[u])
          /\ current' = [current EXCEPT ![u] = cor[Head(batch[u])]]
      BY <2>2, TailElements DEF ResumeTask, Resume, QueueInv, Unique
    <3>2. at[cor[Head(batch[u])]] = "parked"
      BY <3>1 DEF QueueInv, Waiting
    <3> QED
      BY <3>1, <3>2 DEF Suspended
  <2>3. ASSUME NEW u \in Threads, RunTask(u) PROVE at[c] \in Suspended
    <3>1. /\ Head(tmpTasks[u]) \in ToSet(tmpTasks[u])
          /\ current' = [current EXCEPT ![u] = Head(tmpTasks[u])]
      BY <2>3, TailElements DEF RunTask, Resume, TaskInv, Unique
    <3>2. at[Head(tmpTasks[u])] = "start"
      BY <3>1 DEF TaskInv, Starting
    <3> QED
      BY <3>1, <3>2 DEF Suspended
  <2>4. ASSUME NEW u \in Threads, NEW d \in Cors, TimerFires(u, d) PROVE at[c] \in Suspended
    BY <2>4 DEF TimerFires, TimerInv, Suspended
  <2>5. ASSUME NEW u \in Threads, NEW d \in Cors,
               Yield(u, d) \/ YieldForever(u, d) \/ Sleep(u, d)
        PROVE  FALSE
    BY <2>1, <2>5 DEF Yield, YieldForever, Sleep
  <2>6. ASSUME current' = current PROVE FALSE
    BY <2>6
  <2> QED
    BY <2>2, <2>3, <2>4, <2>5 DEF Next, Environment, ThreadStep, LoopStep, CorStep,
       Accept, PeerSend, PeerClose, PeerReset, LoopTop, StealFrom, StealDone, PopSome,
       BatchDone, SwapTasks, TasksDone, EpollWait, HandleEvent, HandleErrorEvent,
       EventsDone, ApplyPending, RecvReady, RecvMiss, ToEpoll, Disarm, Reread,
       ClearClient, OpenClient, CloseClient
<1> QED
  BY <1>1, Inductive, PTL DEF Spec, ResumeSaved

----------------------------------------------------------------------------
(* Every wait of a coroutine has exactly one wake-up, no connection is     *)
(* closed without need and no thread sleeps over its own queue, for        *)
(* servers whose handlers open no client sockets.  That no wait has two    *)
(* wake-ups is a matter of counting what IndInv says; that none is lost    *)
(* needs an invariant of its own.                                          *)

----------------------------------------------------------------------------
(* The invariants.                                                         *)

\* Where a thread may hold something, and that it looks for work before it waits.
PlaceInv ==
    \A t \in Threads :
        /\ batch[t] # <<>> => pc[t] \in {"steal", "stolen", "popped"}
        /\ tmpTasks[t] # <<>> => pc[t] = "runTasks"
        /\ due[t] # {} \/ errEvents[t] # {} => pc[t] = "events"
        /\ pc[t] \in {"steal", "stolen", "tasks", "runTasks", "wait"} => queue[t] = <<>>

\* A hang-up that is still to be handled never meets a new registration: either
\* there are none, or no coroutine runs between epoll_wait and the last event.
HangInv ==
    /\ \A t \in Threads : \A f \in errEvents[t] : epoll[t][f] # "armed"
    /\ ~PeersReset => /\ \A f \in Fds : sock[f] # "reset"
                      /\ \A t \in Threads : errEvents[t] = {}
    /\ ~HandlersSleep => \A t \in Threads :
          timers[t] = {} /\ due[t] = {} /\ (pc[t] = "events" => current[t] = Main)

Queued(f) == \E t \in Threads : f \in ToSet(queue[t]) \cup ToSet(batch[t])
Armed(f)  == \E t \in Threads : epoll[t][f] = "armed"
Tasked(c) == \E t \in Threads : c \in ToSet(pendingTasks[t]) \cup ToSet(tmpTasks[t])
Timed(c)  == \E t \in Threads : c \in timers[t] \cup due[t]

\* A coroutine that waits has something that will resume it.
Provided(c) ==
    /\ at[c] = "start" => Tasked(c)
    /\ at[c] = "sleep" => Timed(c)
    /\ at[c] \in {"yield", "parked"} =>
          cor[waitFd[c]] = c /\ (Armed(waitFd[c]) \/ (at[c] = "parked" /\ Queued(waitFd[c])))

\* A new wait is never skipped as one the reactor already has.
WakeInv ==
    /\ \A f \in Fds : listen[f] => cor[f] # NoCor
    /\ \A c \in Cors : Provided(c)

Ready(f) == sock[f] \in {"data", "eof", "reset"}

\* A coroutine is on its way to be resumed only when its socket is ready, which
\* it stays until the coroutine reads from it.
ReadyInv ==
    /\ \A f \in Fds : Queued(f) \/ (\E t \in Threads : f \in inEvents[t]) => Ready(f)
    /\ \A c \in Cors : at[c] \in {"woken", "reread"} => Ready(waitFd[c])
    /\ NoSpuriousClose

----------------------------------------------------------------------------
(* What threads hold, and the queue they leave when they wait.             *)

\* Every step keeps things where they belong.
LEMMA PlaceStep ==
    TypeOK /\ PlaceInv /\ [Next]_vars => PlaceInv'
<1> SUFFICES ASSUME TypeOK, PlaceInv, [Next]_vars PROVE PlaceInv'
  OBVIOUS
<1> USE DEF PlaceInv, TypeOK, InLoop
<1>1. CASE UNCHANGED <<pc, queue, batch, tmpTasks, due, errEvents>>
  BY <1>1
<1>2. ASSUME NEW t \in Threads, LoopTop(t) \/ StealDone(t) \/ BatchDone(t) \/ TasksDone(t)
      PROVE  PlaceInv'
  BY ZenonT(40), <1>2 DEF LoopTop, StealDone, BatchDone, TasksDone, queueVars, taskVars, timerVars, eventVars
<1>3. ASSUME NEW t \in Threads, EventsDone(t) \/ ApplyPending(t) PROVE PlaceInv'
  BY <1>3 DEF EventsDone, ApplyPending, queueVars, taskVars, timerVars, eventVars
<1>4. ASSUME NEW t \in Threads, NEW v \in Threads, StealFrom(t, v) PROVE PlaceInv'
  <2>1. queue[v] = <<>> => queue'[v] = <<>>
    <3>1. queue'[v] = SubSeq(queue[v], SmallerOf(Len(queue[v]), Batch - Len(batch[t])) + 1,
                             Len(queue[v]))
      BY <1>4 DEF StealFrom
    <3>2. queue[v] = <<>> => queue'[v] \in Seq(Fds) /\ Len(queue'[v]) = 0
      BY <3>1, <1>4, SchedulerAssumption DEF SmallerOf, StealFrom
    <3> QED
      BY <3>2
  <2> QED
    BY <1>4, <2>1 DEF StealFrom, taskVars, timerVars, eventVars
<1>5. ASSUME NEW t \in Threads, PopSome(t) PROVE PlaceInv'
  <2> DEFINE n == SmallerOf(Len(queue[t]), Batch)
  <2>1. /\ queue[t] \in Seq(Fds) /\ Len(queue[t]) \in Nat /\ Batch \in Nat \ {0}
        /\ queue' = [queue EXCEPT ![t] = SubSeq(queue[t], n + 1, Len(queue[t]))]
        /\ batch' = [batch EXCEPT ![t] = SubSeq(queue[t], 1, n)]
        /\ pc' = [pc EXCEPT ![t] = IF n = 0 THEN "tasks" ELSE "popped"]
    BY <1>5, SchedulerAssumption DEF PopSome
  <2>2. n = 0 => SubSeq(queue[t], n + 1, Len(queue[t])) = <<>> /\ SubSeq(queue[t], 1, n) = <<>>
    <3>1. n = 0 => Len(queue[t]) = 0
      BY <2>1 DEF SmallerOf
    <3> QED
      BY <2>1, <3>1
  <2> HIDE DEF n
  <2> QED
    BY <1>5, <2>1, <2>2 DEF PopSome, taskVars, timerVars, eventVars
<1>6. ASSUME NEW t \in Threads, ResumeTask(t) \/ SwapTasks(t) \/ RunTask(t) PROVE PlaceInv'
  <2>1. CASE ResumeTask(t)
    BY <2>1 DEF ResumeTask, taskVars, timerVars, eventVars
  <2>2. CASE SwapTasks(t)
    BY <2>2 DEF SwapTasks, queueVars, timerVars, eventVars
  <2>3. CASE RunTask(t)
    BY <2>3 DEF RunTask, queueVars, timerVars, eventVars
  <2> QED
    BY <1>6, <2>1, <2>2, <2>3
<1>7. ASSUME NEW t \in Threads, NEW D \in SUBSET Cors, EpollWait(t, D) PROVE PlaceInv'
  BY <1>7 DEF EpollWait, queueVars, taskVars
<1>8. ASSUME NEW t \in Threads, NEW f \in Fds, HandleEvent(t, f) \/ HandleErrorEvent(t, f)
      PROVE  PlaceInv'
  BY <1>8 DEF HandleEvent, HandleErrorEvent, queueVars, taskVars, timerVars
<1>9. ASSUME NEW t \in Threads, NEW c \in Cors, TimerFires(t, c) PROVE PlaceInv'
  BY <1>9 DEF TimerFires, queueVars, taskVars, eventVars
<1> HIDE DEF PlaceInv, TypeOK
<1>10. ASSUME Next PROVE PlaceInv'
  BY <1>10, <1>1, <1>2, <1>3, <1>4, <1>5, <1>6, <1>7, <1>8, <1>9 DEF Next, Environment, ThreadStep,
     LoopStep, CorStep, Accept, PeerSend, PeerClose, PeerReset, RecvReady, RecvMiss, ToEpoll, Yield,
     Disarm, Reread, ClearClient, YieldForever, Sleep, OpenClient, CloseClient,
     queueVars, taskVars, timerVars, eventVars
<1> QED
  BY <1>1, <1>10 DEF vars, queueVars, taskVars, timerVars, eventVars

----------------------------------------------------------------------------
(* What the actions on one fd of one epoll instance do, fd by fd.          *)

\* One interest changes, the others stay.
LEMMA OneInterest ==
    ASSUME TypeOK, NEW t \in Threads, NEW f \in Fds, NEW i \in Interest,
           epoll' = [epoll EXCEPT ![t][f] = i]
    PROVE  \A u \in Threads, g \in Fds :
              epoll'[u][g] = IF u = t /\ g = f THEN i ELSE epoll[u][g]
BY DEF TypeOK

\* A handled event: its fd is disarmed and enters one queue.
LEMMA HandleEventEffect ==
    ASSUME IndInv, NEW t \in Threads, NEW f \in Fds, HandleEvent(t, f)
    PROVE  /\ cor[f] \in Cors /\ at[cor[f]] = "parked" /\ owner[f] = cor[f]
           /\ \A u \in Threads, g \in Fds :
                 epoll'[u][g] = IF u = t /\ g = f THEN "none" ELSE epoll[u][g]
           /\ ToSet(queue'[t]) = ToSet(queue[t]) \cup {f}
           /\ \A u \in Threads : u # t => queue'[u] = queue[u]
<1>1. /\ cor[f] \in Cors /\ at[cor[f]] = "parked" /\ owner[f] = cor[f]
      /\ epoll[t][f] = "armed" /\ cor[f] # NoCor
  BY SchedulerAssumption DEF SchedulerAssumption, IndInv, EventInv, EpollInv, WaitInv, HandleEvent
<1>2. /\ epoll' = [epoll EXCEPT ![t][f] = "none"]
      /\ queue' = [queue EXCEPT ![t] = Append(queue[t], f)]
  BY <1>1 DEF HandleEvent
<1>3. \A u \in Threads, g \in Fds :
         epoll'[u][g] = IF u = t /\ g = f THEN "none" ELSE epoll[u][g]
  BY <1>2, OneInterest DEF IndInv, Interest
<1>4. f \notin ToSet(queue[t]) /\ IsInjective(queue[t]) /\ queue \in [Threads -> Seq(Fds)]
  BY <1>1 DEF IndInv, TypeOK, QueueInv, Waiting, Unique
<1>5. ToSet(Append(queue[t], f)) = ToSet(queue[t]) \cup {f}
  BY <1>4, AppendElements
<1> QED
  BY <1>1, <1>2, <1>3, <1>4, <1>5

\* The steps of a coroutine that waits on its own socket, whose reactor is
\* that of the thread it runs on.
LEMMA ToEpollEffect ==
    ASSUME IndInv, NEW t \in Threads, NEW c \in Cors, ToEpoll(t, c)
    PROVE  LET f == waitFd[c] IN
           /\ f \in Fds /\ owner[f] = c
           /\ cor' = [cor EXCEPT ![f] = c]
           /\ IF listen[f] THEN epoll' = epoll
              ELSE \A u \in Threads, g \in Fds :
                      epoll'[u][g] = IF u = t /\ g = f THEN "armed" ELSE epoll[u][g]
<1> DEFINE f == waitFd[c]
<1>1. f \in Fds /\ owner[f] = c /\ reactor[f] = t /\ t # NoThread
  BY SchedulerAssumption
     DEF SchedulerAssumption, IndInv, ToEpoll, Runs, WaitInv, RunInv
<1>2. /\ cor' = [cor EXCEPT ![f] = c]
      /\ IF listen[f] THEN epoll' = epoll ELSE epoll' = [epoll EXCEPT ![t][f] = "armed"]
  BY <1>1 DEF ToEpoll, UpdateToReactor, ReactorFor, epollVars
<1> HIDE DEF f
<1>3. ~listen[f] => \A u \in Threads, g \in Fds :
         epoll'[u][g] = IF u = t /\ g = f THEN "armed" ELSE epoll[u][g]
  BY <1>1, <1>2, OneInterest DEF IndInv, Interest
<1> QED
  BY <1>1, <1>2, <1>3 DEF f

\* Back from Yield: the FdEvent names nobody and its fd is not newly armed.
LEMMA DisarmEffect ==
    ASSUME IndInv, NEW t \in Threads, NEW c \in Cors, Disarm(t, c)
    PROVE  LET f == waitFd[c] IN
           /\ f \in Fds /\ owner[f] = c
           /\ cor' = [cor EXCEPT ![f] = NoCor] /\ listen' = [listen EXCEPT ![f] = FALSE]
           /\ \A u \in Threads, g \in Fds :
                 epoll'[u][g] = epoll[u][g] \/ (g = f /\ epoll'[u][g] = "idle")
<1> DEFINE f == waitFd[c]
<1>1. f \in Fds /\ owner[f] = c /\ reactor[f] = t /\ t # NoThread
  BY SchedulerAssumption
     DEF SchedulerAssumption, IndInv, Disarm, Runs, WaitInv, RunInv
<1>2. /\ cor' = [cor EXCEPT ![f] = NoCor] /\ listen' = [listen EXCEPT ![f] = FALSE]
      /\ epoll' = epoll \/ epoll' = [epoll EXCEPT ![t][f] = "idle"]
  BY <1>1 DEF Disarm, UpdateToReactor, ReactorFor, epollVars
<1> HIDE DEF f
<1>3. \A u \in Threads, g \in Fds :
         epoll'[u][g] = epoll[u][g] \/ (g = f /\ epoll'[u][g] = "idle")
  <2>1. CASE epoll' = epoll
    BY <2>1
  <2>2. CASE epoll' = [epoll EXCEPT ![t][f] = "idle"]
    <3>1. \A u \in Threads, g \in Fds :
             epoll'[u][g] = IF u = t /\ g = f THEN "idle" ELSE epoll[u][g]
      BY ZenonT(40), <1>1, <2>2, OneInterest DEF IndInv, Interest
    <3> QED
      BY <3>1
  <2> QED
    BY <1>2, <2>1, <2>2
<1> QED
  BY <1>1, <1>2, <1>3 DEF f

\* The end of a connection: its socket is closed and in no epoll instance.
LEMMA ClearClientEffect ==
    ASSUME IndInv, NEW t \in Threads, NEW c \in Cors, ClearClient(t, c)
    PROVE  LET f == waitFd[c] IN
           /\ f \in Fds /\ owner[f] = c
           /\ sock' = [sock EXCEPT ![f] = "closed"] /\ listen' = [listen EXCEPT ![f] = FALSE]
           /\ \A u \in Threads, g \in Fds :
                 epoll'[u][g] = IF u = t /\ g = f THEN "none" ELSE epoll[u][g]
<1> DEFINE f == waitFd[c]
<1>1. f \in Fds /\ owner[f] = c /\ reactor[f] = t /\ t # NoThread
  BY SchedulerAssumption
     DEF SchedulerAssumption, IndInv, ClearClient, Runs, WaitInv, RunInv
<1>2. /\ sock' = [sock EXCEPT ![f] = "closed"] /\ listen' = [listen EXCEPT ![f] = FALSE]
      /\ epoll' = [epoll EXCEPT ![t][f] = "none"]
  BY <1>1 DEF ClearClient, UnregisterFromReactor, ReactorFor
<1> HIDE DEF f
<1>3. \A u \in Threads, g \in Fds :
         epoll'[u][g] = IF u = t /\ g = f THEN "none" ELSE epoll[u][g]
  BY ZenonT(40), <1>1, <1>2, OneInterest DEF IndInv, Interest
<1> QED
  BY <1>1, <1>2, <1>3 DEF f

\* Without client sockets nothing is ever asked of another thread.
LEMMA ApplyNothing ==
    ASSUME IndInv, NEW t \in Threads, ApplyPending(t)
    PROVE  epoll' = epoll
BY DEF ApplyPending, IndInv, TypeOK, EpollInv

----------------------------------------------------------------------------
(* Hang-ups.                                                               *)

\* Steps that register nothing, report nothing and let no coroutine run
\* between epoll_wait and the last event.
LEMMA HangFrame ==
    ASSUME TypeOK, HangInv, UNCHANGED <<epoll, errEvents, timers, due>>,
           \A f \in Fds : sock'[f] = "reset" => sock[f] = "reset" \/ PeersReset,
           \A t \in Threads : pc'[t] = "events" =>
              pc[t] = "events" /\ current'[t] \in {current[t], Main}
    PROVE  HangInv'
<1>1. \A t \in Threads : \A f \in errEvents'[t] : epoll'[t][f] # "armed"
  BY DEF HangInv
<1>2. ~PeersReset => /\ \A f \in Fds : sock'[f] # "reset"
                     /\ \A t \in Threads : errEvents'[t] = {}
  BY DEF HangInv
<1>3. ~HandlersSleep => \A t \in Threads :
          timers'[t] = {} /\ due'[t] = {} /\ (pc'[t] = "events" => current'[t] = Main)
  BY DEF HangInv
<1> QED
  BY <1>1, <1>2, <1>3 DEF HangInv

\* Every step keeps stale hang-ups and new registrations apart.
LEMMA HangStep ==
    ASSUME ~(HandlersSleep /\ PeersReset), ClientFds = {}
    PROVE  IndInv /\ PlaceInv /\ HangInv /\ [Next]_vars => HangInv'
<1> SUFFICES ASSUME IndInv, PlaceInv, HangInv, [Next]_vars PROVE HangInv'
  OBVIOUS
<1>0. TypeOK /\ Main \notin Cors
  BY SchedulerAssumption DEF IndInv
<1>1. /\ \A f \in Fds : PeerSend(f) \/ PeerClose(f) \/ PeerReset(f) => HangInv'
      /\ \A t \in Threads, f \in Fds, c \in Cors : Accept(t, f, c) => HangInv'
      /\ \A t \in Threads, c \in Cors, f \in Fds :
            RecvReady(t, c, f) \/ RecvMiss(t, c, f) \/ OpenClient(t, c, f) => HangInv'
      /\ \A t \in Threads, c \in Cors : Reread(t, c) => HangInv'
  <2> USE <1>0 DEF TypeOK, timerVars, eventVars, epollVars
  <2>1. ASSUME NEW f \in Fds, PeerSend(f) \/ PeerClose(f) \/ PeerReset(f) PROVE HangInv'
    BY <2>1, HangFrame DEF PeerSend, PeerClose, PeerReset
  <2>2. ASSUME NEW t \in Threads, NEW f \in Fds, NEW c \in Cors, Accept(t, f, c) PROVE HangInv'
    BY <2>2, HangFrame DEF Accept
  <2>3. ASSUME NEW t \in Threads, NEW c \in Cors, NEW f \in Fds,
               RecvReady(t, c, f) \/ RecvMiss(t, c, f) \/ OpenClient(t, c, f)
        PROVE  HangInv'
    BY <2>3, HangFrame DEF RecvReady, RecvMiss, OpenClient
  <2>4. ASSUME NEW t \in Threads, NEW c \in Cors, Reread(t, c) PROVE HangInv'
    BY <2>4, HangFrame DEF Reread
  <2> QED
    BY <2>1, <2>2, <2>3, <2>4
<1>2. ASSUME NEW t \in Threads,
             LoopTop(t) \/ StealDone(t) \/ PopSome(t) \/ BatchDone(t) \/ TasksDone(t) \/ EventsDone(t)
             \/ SwapTasks(t) \/ \E v \in Threads : StealFrom(t, v)
      PROVE  HangInv'
  <2>1. UNCHANGED <<epoll, errEvents, timers, due, sock, current>>
    BY <1>2 DEF LoopTop, StealDone, PopSome, BatchDone, TasksDone, EventsDone, SwapTasks, StealFrom,
       fdVars, timerVars, eventVars, epollVars
  <2>2. \A u \in Threads : pc'[u] = "events" => pc[u] = "events"
    BY <1>0, <1>2 DEF TypeOK, LoopTop, StealDone, PopSome, BatchDone, TasksDone, EventsDone, SwapTasks,
       StealFrom
  <2> QED
    BY <1>0, <2>1, <2>2, HangFrame
<1>3. ASSUME NEW t \in Threads, ResumeTask(t) \/ RunTask(t) PROVE HangInv'
  <2>1. /\ UNCHANGED <<epoll, errEvents, timers, due, sock, pc>> /\ pc[t] # "events"
        /\ \A u \in Threads : u # t => current'[u] = current[u]
    BY <1>0, <1>3 DEF TypeOK, ResumeTask, RunTask, Resume, InLoop, fdVars, timerVars, eventVars, epollVars
  <2> QED
    BY <1>0, <2>1, HangFrame
<1>4. ASSUME NEW t \in Threads, NEW c \in Cors, Yield(t, c) \/ YieldForever(t, c) PROVE HangInv'
  <2>1. /\ UNCHANGED <<epoll, errEvents, timers, due, sock, pc>>
        /\ \A u \in Threads : current'[u] \in {current[u], Main}
    BY <1>0, <1>4 DEF TypeOK, Yield, YieldForever, fdVars, timerVars, eventVars, epollVars
  <2> QED
    BY <1>0, <2>1, HangFrame
<1>5. ASSUME NEW t \in Threads, NEW D \in SUBSET Cors, EpollWait(t, D) PROVE HangInv'
  <2>1. /\ UNCHANGED <<epoll, sock, current>> /\ D \subseteq timers[t] /\ current[t] = Main
        /\ timers' = [timers EXCEPT ![t] = timers[t] \ D] /\ due' = [due EXCEPT ![t] = D]
        /\ errEvents' = [errEvents EXCEPT ![t] = {f \in Fds : HungUp(t, f)}]
        /\ pc' = [pc EXCEPT ![t] = "events"]
    BY <1>5 DEF EpollWait, InLoop, fdVars, epollVars
  <2> QED
    BY <1>0, <2>1 DEF HangInv, HungUp, TypeOK
<1>6. ASSUME NEW t \in Threads, NEW f \in Fds, HandleEvent(t, f) \/ HandleErrorEvent(t, f)
      PROVE  HangInv'
  <2>1. /\ UNCHANGED <<sock, current, timers, due, pc>>
        /\ \A u \in Threads : errEvents'[u] \subseteq errEvents[u] /\ errEvents[u] \subseteq Fds
    <3>1. CASE HandleEvent(t, f)
      BY <1>0, <3>1 DEF HandleEvent, timerVars, TypeOK
    <3>2. CASE HandleErrorEvent(t, f)
      BY <1>0, <3>2 DEF HandleErrorEvent, fdVars, timerVars, TypeOK
    <3> QED
      BY <1>6, <3>1, <3>2
  <2>2. \A u \in Threads, g \in Fds : epoll'[u][g] \in {epoll[u][g], "none"}
    <3>1. CASE HandleEvent(t, f)
      BY <3>1, HandleEventEffect
    <3>2. CASE HandleErrorEvent(t, f)
      BY <1>0, <3>2, OneInterest DEF HandleErrorEvent, Interest
    <3> QED
      BY <1>6, <3>1, <3>2
  <2> QED
    BY <2>1, <2>2 DEF HangInv
<1>7. ASSUME NEW t \in Threads, NEW c \in Cors, TimerFires(t, c) PROVE HangInv'
  <2>1. /\ UNCHANGED <<epoll, errEvents, timers, sock, pc>> /\ c \in due[t]
    BY <1>7 DEF TimerFires, fdVars, eventVars, epollVars
  <2>2. HandlersSleep
    BY <2>1, SchedulerAssumption DEF HangInv, SchedulerAssumption
  <2> QED
    BY <2>1, <2>2 DEF HangInv
<1>8. ASSUME NEW t \in Threads, ApplyPending(t) PROVE HangInv'
  <2>1. /\ UNCHANGED <<errEvents, timers, due, sock, current>> /\ epoll' = epoll
        /\ \A u \in Threads : pc'[u] = "events" => pc[u] = "events"
    BY <1>0, <1>8, ApplyNothing DEF ApplyPending, TypeOK, fdVars, timerVars, eventVars
  <2> QED
    BY <1>0, <2>1, HangFrame
<1>9. ASSUME NEW t \in Threads, NEW c \in Cors, Disarm(t, c) \/ ClearClient(t, c) PROVE HangInv'
  <2>1. /\ UNCHANGED <<errEvents, timers, due, current, pc>>
        /\ \A u \in Threads : errEvents[u] \subseteq Fds
    BY <1>0, <1>9 DEF Disarm, ClearClient, timerVars, eventVars, TypeOK
  <2>2. /\ \A u \in Threads, g \in Fds : epoll'[u][g] \in {epoll[u][g], "none", "idle"}
        /\ \A g \in Fds : sock'[g] \in {sock[g], "closed"}
    <3>1. CASE Disarm(t, c)
      <4>1. sock' = sock
        BY <3>1 DEF Disarm
      <4>2. \A u \in Threads, g \in Fds : epoll'[u][g] = epoll[u][g] \/ epoll'[u][g] = "idle"
        BY <3>1, DisarmEffect
      <4> QED
        BY <4>1, <4>2
    <3>2. CASE ClearClient(t, c)
      BY <1>0, <3>2, ClearClientEffect DEF TypeOK
    <3> QED
      BY <1>9, <3>1, <3>2
  <2> QED
    BY <2>1, <2>2 DEF HangInv
<1>10. ASSUME NEW t \in Threads, NEW c \in Cors, ToEpoll(t, c) PROVE HangInv'
  <2>1. UNCHANGED <<errEvents, timers, due, current, pc, sock>> /\ current[t] = c
    BY <1>10 DEF ToEpoll, Runs, timerVars, eventVars
  <2>2. \A u \in Threads, g \in Fds : u # t => epoll'[u][g] = epoll[u][g]
    BY <1>10, ToEpollEffect
  <2>3. errEvents[t] = {}
    BY <1>0, <2>1, SchedulerAssumption DEF HangInv, PlaceInv, SchedulerAssumption
  <2> QED
    BY ZenonT(40), <1>0, <2>1, <2>2, <2>3 DEF HangInv, TypeOK
<1>11. ASSUME NEW t \in Threads, NEW c \in Cors, Sleep(t, c) PROVE HangInv'
  <2>1. /\ UNCHANGED <<errEvents, epoll, due, pc, sock>> /\ HandlersSleep
    BY <1>11 DEF Sleep, eventVars, epollVars, fdVars
  <2> QED
    BY <2>1 DEF HangInv
<1>12. \A t \in Threads, c \in Cors, f \in Fds : ~CloseClient(t, c, f)
  BY DEF CloseClient
<1>13. CASE UNCHANGED vars
  BY <1>0, <1>13, HangFrame DEF vars, fdVars, timerVars, eventVars, epollVars
<1>14. CASE Environment
  BY <1>1, <1>14 DEF Environment
<1>15. ASSUME NEW t \in Threads, LoopStep(t) PROVE HangInv'
  BY <1>2, <1>3, <1>5, <1>6, <1>7, <1>8, <1>15 DEF LoopStep
<1>16. ASSUME NEW t \in Threads, NEW c \in Cors, CorStep(t, c) PROVE HangInv'
  BY <1>1, <1>4, <1>9, <1>10, <1>11, <1>12, <1>16 DEF CorStep
<1> QED
  BY <1>13, <1>14, <1>15, <1>16 DEF Next, ThreadStep

----------------------------------------------------------------------------
(* What leaves and enters the queues and the tasks.                        *)

\* What a thread moves from a queue to a batch stays in one of the two.
LEMMA MoveStays ==
    ASSUME NEW q, NEW b, NEW q2, NEW b2, NEW X, NEW Y, NEW t \in Threads, NEW v \in Threads,
           ToSet(q[v]) = X \cup Y, ToSet(q2[v]) = Y, ToSet(b2[t]) = ToSet(b[t]) \cup X,
           \A u \in Threads : u # v => q2[u] = q[u],
           \A u \in Threads : u # t => b2[u] = b[u],
           NEW f
    PROVE  (\E u \in Threads : f \in ToSet(q2[u]) \cup ToSet(b2[u]))
           <=> \E u \in Threads : f \in ToSet(q[u]) \cup ToSet(b[u])
<1>1. \A u \in Threads : ToSet(q2[u]) \subseteq ToSet(q[u]) /\ ToSet(b[u]) \subseteq ToSet(b2[u])
  OBVIOUS
<1>2. \A u \in Threads : ToSet(q[u]) \subseteq ToSet(q2[u]) \cup X
  OBVIOUS
<1>3. \A u \in Threads : ToSet(b2[u]) \subseteq ToSet(b[u]) \cup X
  OBVIOUS
<1>4. X \subseteq ToSet(q[v]) /\ X \subseteq ToSet(b2[t])
  OBVIOUS
<1> QED
  BY <1>1, <1>2, <1>3, <1>4

\* A steal loses and doubles nothing.
LEMMA StealFromEffect ==
    ASSUME IndInv, NEW t \in Threads, NEW v \in Threads, StealFrom(t, v)
    PROVE  \A f : Queued(f)' <=> Queued(f)
<1> USE SchedulerAssumption DEF SchedulerAssumption, IndInv, TypeOK
<1> DEFINE n == SmallerOf(Len(queue[v]), Batch - Len(batch[t]))
           first == SubSeq(queue[v], 1, n)
           rest == SubSeq(queue[v], n + 1, Len(queue[v]))
<1>1. /\ IsInjective(first) /\ first \in Seq(Fds) /\ ToSet(first) \cup ToSet(rest) = ToSet(queue[v])
      /\ ToSet(batch[t]) \cap ToSet(first) = {}
  <2>1. n \in 0..Len(queue[v]) /\ queue[v] \in Seq(Fds)
    BY DEF SmallerOf, StealFrom
  <2>2. IsInjective(queue[v]) /\ ToSet(batch[t]) \cap ToSet(queue[v]) = {}
    BY DEF QueueInv, Unique, Disjoint
  <2> HIDE DEF n, IndInv, TypeOK
  <2> QED
    BY <2>1, <2>2, CutElements
<1>2. /\ batch[t] \in Seq(Fds) /\ IsInjective(batch[t])
      /\ queue' = [queue EXCEPT ![v] = rest] /\ batch' = [batch EXCEPT ![t] = batch[t] \o first]
  BY DEF StealFrom, QueueInv, Unique
<1> HIDE DEF first, rest, n, IndInv, TypeOK
<1>3. ToSet(batch[t] \o first) = ToSet(batch[t]) \cup ToSet(first)
  BY <1>1, <1>2, ConcatElements
<1>4. /\ ToSet(batch'[t]) = ToSet(batch[t]) \cup ToSet(first)
      /\ ToSet(queue'[v]) = ToSet(rest)
      /\ \A u \in Threads : u # v => queue'[u] = queue[u]
      /\ \A u \in Threads : u # t => batch'[u] = batch[u]
  BY <1>2, <1>3 DEF IndInv, TypeOK
<1> QED
  BY <1>1, <1>4, MoveStays DEF Queued

\* PopSome loses and doubles nothing, for the batch before it is used up.
LEMMA PopSomeEffect ==
    ASSUME IndInv, PlaceInv, NEW t \in Threads, PopSome(t)
    PROVE  \A f : Queued(f)' <=> Queued(f)
<1> USE SchedulerAssumption DEF SchedulerAssumption, IndInv, TypeOK
<1> DEFINE n == SmallerOf(Len(queue[t]), Batch)
           first == SubSeq(queue[t], 1, n)
           rest == SubSeq(queue[t], n + 1, Len(queue[t]))
<1>1. ToSet(first) \cup ToSet(rest) = ToSet(queue[t])
  <2>1. n \in 0..Len(queue[t]) /\ queue[t] \in Seq(Fds)
    BY DEF SmallerOf, PopSome
  <2>2. IsInjective(queue[t])
    BY DEF QueueInv, Unique
  <2> HIDE DEF n, IndInv, TypeOK
  <2> QED
    BY <2>1, <2>2, CutElements
<1>2. /\ batch[t] = <<>>
      /\ queue' = [queue EXCEPT ![t] = rest] /\ batch' = [batch EXCEPT ![t] = first]
  BY DEF PopSome, PlaceInv, InLoop
<1> HIDE DEF first, rest, n
<1>3. /\ ToSet(batch[t]) = {} /\ batch'[t] = first /\ queue'[t] = rest
      /\ \A u \in Threads : u # t => batch'[u] = batch[u]
      /\ \A u \in Threads : u # t => queue'[u] = queue[u]
  BY <1>2, EmptyElements
<1> HIDE DEF IndInv, TypeOK
<1> QED
  BY <1>1, <1>3, MoveStays DEF Queued

\* One FdEvent leaves its batch and its coroutine runs.
LEMMA ResumeTaskEffect ==
    ASSUME IndInv, NEW t \in Threads, ResumeTask(t)
    PROVE  \E f \in Fds :
              /\ Queued(f) /\ cor[f] \in Cors /\ at[cor[f]] = "parked"
              /\ owner[f] = cor[f] /\ waitFd[cor[f]] = f
              /\ at' = [at EXCEPT ![cor[f]] = "woken"]
              /\ \A g : Queued(g)' => Queued(g)
              /\ \A g : g # f /\ Queued(g) => Queued(g)'
<1> USE SchedulerAssumption DEF SchedulerAssumption, IndInv, TypeOK
<1> DEFINE f == Head(batch[t])
<1>1. /\ batch[t] # <<>> /\ batch[t] \in Seq(Fds) /\ f \in ToSet(batch[t]) /\ f \in Fds
      /\ ToSet(Tail(batch[t])) = ToSet(batch[t]) \ {f}
  BY TailElements, QueuedTypes DEF ResumeTask, QueueInv, Unique
<1>2. /\ Queued(f) /\ cor[f] \in Cors /\ at[cor[f]] = "parked" /\ owner[f] = cor[f]
      /\ waitFd[cor[f]] = f
  BY <1>1 DEF QueueInv, Waiting, WaitInv, Queued
<1>3. /\ at' = [at EXCEPT ![cor[f]] = "woken"] /\ queue' = queue
      /\ batch' = [batch EXCEPT ![t] = Tail(batch[t])]
  BY <1>2 DEF ResumeTask, Resume
<1> HIDE DEF f
<1>4. ToSet(batch'[t]) = ToSet(batch[t]) \ {f} /\ \A u \in Threads : u # t => batch'[u] = batch[u]
  BY <1>1, <1>3
<1> HIDE DEF IndInv, TypeOK
<1>5. \A g : Queued(g)' => Queued(g)
  BY <1>3, <1>4 DEF Queued
<1>6. \A g : g # f /\ Queued(g) => Queued(g)'
  BY <1>3, <1>4 DEF Queued
<1> QED
  BY <1>1, <1>2, <1>3, <1>5, <1>6

\* One coroutine leaves the tasks and runs.
LEMMA RunTaskEffect ==
    ASSUME IndInv, NEW t \in Threads, RunTask(t)
    PROVE  \E c \in Cors :
              /\ at[c] = "start" /\ at' = [at EXCEPT ![c] = "run"]
              /\ \A d : d # c /\ Tasked(d) => Tasked(d)'
<1> USE SchedulerAssumption DEF SchedulerAssumption, IndInv, TypeOK
<1> DEFINE c == Head(tmpTasks[t])
<1>1. /\ tmpTasks[t] # <<>> /\ tmpTasks[t] \in Seq(Cors) /\ c \in ToSet(tmpTasks[t]) /\ c \in Cors
      /\ ToSet(Tail(tmpTasks[t])) = ToSet(tmpTasks[t]) \ {c}
  BY TailElements, QueuedTypes DEF RunTask, TaskInv, Unique
<1>2. at[c] = "start"
  BY <1>1 DEF TaskInv, Starting
<1>3. /\ at' = [at EXCEPT ![c] = "run"] /\ pendingTasks' = pendingTasks
      /\ tmpTasks' = [tmpTasks EXCEPT ![t] = Tail(tmpTasks[t])]
  BY <1>2 DEF RunTask, Resume
<1> HIDE DEF c
<1>4. ToSet(tmpTasks'[t]) = ToSet(tmpTasks[t]) \ {c} /\ \A u \in Threads : u # t => tmpTasks'[u] = tmpTasks[u]
  BY <1>1, <1>3
<1> HIDE DEF IndInv, TypeOK
<1>5. \A d : d # c /\ Tasked(d) => Tasked(d)'
  BY <1>3, <1>4 DEF Tasked
<1> QED
  BY <1>1, <1>2, <1>3, <1>5

\* Swapping the tasks loses none, for those before are used up.
LEMMA SwapTasksEffect ==
    ASSUME IndInv, PlaceInv, NEW t \in Threads, SwapTasks(t)
    PROVE  \A d : Tasked(d) => Tasked(d)'
<1>1. tmpTasks[t] = <<>> /\ ToSet(tmpTasks[t]) = {}
  BY EmptyElements DEF SwapTasks, InLoop, PlaceInv
<1>2. /\ tmpTasks'[t] = pendingTasks[t]
      /\ \A u \in Threads : u # t => tmpTasks'[u] = tmpTasks[u] /\ pendingTasks'[u] = pendingTasks[u]
  BY DEF SwapTasks, IndInv, TypeOK
<1> QED
  BY <1>1, <1>2 DEF Tasked

\* An accepted connection has its task.
LEMMA AcceptEffect ==
    ASSUME IndInv, NEW t \in Threads, NEW f \in Fds, NEW c \in Cors, Accept(t, f, c)
    PROVE  /\ Tasked(c)' /\ \A d : Tasked(d) => Tasked(d)'
           /\ at[c] = "free" /\ at' = [at EXCEPT ![c] = "start"] /\ owner[f] = NoCor
<1>1. at[c] = "free" /\ at' = [at EXCEPT ![c] = "start"] /\ owner[f] = NoCor
  BY DEF Accept, IndInv, OwnerInv
<1>2. /\ pendingTasks[t] \in Seq(Cors) /\ IsInjective(pendingTasks[t])
      /\ c \notin ToSet(pendingTasks[t])
      /\ pendingTasks' = [pendingTasks EXCEPT ![t] = Append(pendingTasks[t], c)]
      /\ tmpTasks' = tmpTasks
  BY <1>1 DEF Accept, IndInv, TypeOK, TaskInv, Unique, Starting
<1>3. ToSet(Append(pendingTasks[t], c)) = ToSet(pendingTasks[t]) \cup {c}
  BY <1>2, AppendElements
<1>4. /\ ToSet(pendingTasks'[t]) = ToSet(pendingTasks[t]) \cup {c}
      /\ \A u \in Threads : u # t => pendingTasks'[u] = pendingTasks[u]
  BY <1>2, <1>3 DEF IndInv, TypeOK
<1>5. Tasked(c)'
  BY <1>4 DEF Tasked
<1>6. \A d : Tasked(d) => Tasked(d)'
  BY <1>2, <1>4 DEF Tasked
<1> QED
  BY <1>1, <1>5, <1>6

\* A handled event adds one fd to what is queued.
LEMMA HandleEventQueued ==
    ASSUME IndInv, NEW t \in Threads, NEW f \in Fds, HandleEvent(t, f)
    PROVE  \A g : Queued(g)' <=> Queued(g) \/ g = f
<1>1. batch' = batch
  BY DEF HandleEvent
<1>2. /\ ToSet(queue'[t]) = ToSet(queue[t]) \cup {f}
      /\ \A u \in Threads : u # t => queue'[u] = queue[u]
  BY HandleEventEffect
<1>3. \A g : Queued(g)' => Queued(g) \/ g = f
  BY <1>1, <1>2 DEF Queued
<1>4. Queued(f)'
  BY <1>2 DEF Queued
<1>5. \A g : Queued(g) => Queued(g)'
  BY <1>1, <1>2 DEF Queued
<1> QED
  BY <1>3, <1>4, <1>5

----------------------------------------------------------------------------
(* Ready sockets.                                                          *)

Coming(f) == Queued(f) \/ \E t \in Threads : f \in inEvents[t]

\* Whoever is coming is parked on a socket of its own.
LEMMA ComingParked ==
    ASSUME IndInv, NEW f \in Fds, Coming(f)
    PROVE  cor[f] \in Cors /\ at[cor[f]] = "parked" /\ owner[f] = cor[f]
<1>1. cor[f] \in Cors /\ at[cor[f]] = "parked"
  BY DEF IndInv, Coming, Queued, QueueInv, Waiting, EventInv, EpollInv
<1> QED
  BY <1>1, SchedulerAssumption DEF SchedulerAssumption, IndInv, WaitInv

\* A step of coroutine c, or of none, that takes readiness only from sockets
\* of c, which is not parked, and sends nobody off without need.
LEMMA ReadyKept ==
    ASSUME IndInv, ReadyInv, NEW c,
           \A g \in Fds : owner[g] # c \/ at[c] = "parked" =>
              /\ Ready(g) => Ready(g)'
              /\ sock[g] \in {"eof", "reset"} => sock'[g] \in {"eof", "reset"},
           \A g \in Fds : Coming(g)' => Coming(g) \/ Ready(g)',
           \A d \in Cors : d # c => at'[d] = at[d] /\ waitFd'[d] = waitFd[d],
           c \in Cors =>
              /\ at'[c] \in {"woken", "reread"} => Ready(waitFd[c])'
              /\ at'[c] = "close" => sock'[waitFd'[c]] \in {"eof", "reset"}
    PROVE  ReadyInv'
<1>1. ASSUME NEW g \in Fds, Coming(g)' PROVE Ready(g)'
  <2>1. CASE Coming(g)
    <3>1. Ready(g)
      BY <2>1 DEF ReadyInv, Coming
    <3>2. owner[g] # c \/ at[c] = "parked"
      BY <2>1, ComingParked
    <3> QED
      BY <3>1, <3>2
  <2> QED
    BY <1>1, <2>1
<1>2. ASSUME NEW d \in Cors, d # c, at[d] \in {"woken", "reread", "close"}
      PROVE  waitFd[d] \in Fds /\ owner[waitFd[d]] # c
  BY <1>2 DEF IndInv, WaitInv
<1>3. ASSUME NEW d \in Cors, at'[d] \in {"woken", "reread"} PROVE Ready(waitFd[d])'
  <2>1. CASE d # c
    <3>1. Ready(waitFd[d]) /\ waitFd[d] \in Fds /\ owner[waitFd[d]] # c
      BY <1>2, <1>3, <2>1 DEF ReadyInv
    <3>2. Ready(waitFd[d]) => sock'[waitFd[d]] \in {"data", "eof", "reset"}
      BY <3>1 DEF Ready
    <3> QED
      BY <2>1, <3>1, <3>2 DEF Ready
  <2> QED
    BY <1>3, <2>1
<1>4. ASSUME NEW d \in Cors, at'[d] = "close" PROVE sock'[waitFd'[d]] \in {"eof", "reset"}
  <2>1. CASE d # c
    <3>1. sock[waitFd[d]] \in {"eof", "reset"} /\ waitFd[d] \in Fds /\ owner[waitFd[d]] # c
      BY <1>2, <1>4, <2>1 DEF ReadyInv, NoSpuriousClose
    <3> QED
      BY <2>1, <3>1
  <2> QED
    BY <1>4, <2>1
<1> QED
  BY <1>1, <1>3, <1>4 DEF ReadyInv, NoSpuriousClose, Coming

\* A step that moves no socket, queue, event or coroutine.
LEMMA ReadyFrame ==
    ASSUME IndInv, ReadyInv, UNCHANGED <<at, waitFd>>,
           \A g \in Fds : /\ Ready(g) => Ready(g)'
                          /\ sock[g] \in {"eof", "reset"} => sock'[g] \in {"eof", "reset"},
           \A g \in Fds : Coming(g)' => Coming(g) \/ Ready(g)'
    PROVE  ReadyInv'
<1>1. Main \notin Cors
  BY SchedulerAssumption DEF SchedulerAssumption
<1> QED
  BY <1>1, ReadyKept

\* A coroutine's own step, which leaves the queues and the events alone.
LEMMA ReadyOwn ==
    ASSUME IndInv, ReadyInv, NEW c \in Cors, UNCHANGED <<queue, batch, inEvents>>,
           \A g \in Fds : owner[g] # c => sock'[g] = sock[g],
           \A d \in Cors : d # c => at'[d] = at[d] /\ waitFd'[d] = waitFd[d],
           at[c] # "parked",
           at'[c] \in {"woken", "reread"} => Ready(waitFd[c])',
           at'[c] = "close" => sock'[waitFd'[c]] \in {"eof", "reset"}
    PROVE  ReadyInv'
<1>1. \A g \in Fds : owner[g] # c \/ at[c] = "parked" =>
         /\ Ready(g) => Ready(g)'
         /\ sock[g] \in {"eof", "reset"} => sock'[g] \in {"eof", "reset"}
  BY DEF Ready
<1>2. \A g \in Fds : Coming(g)' => Coming(g) \/ Ready(g)'
  BY DEF Coming, Queued
<1> QED
  BY <1>1, <1>2, ReadyKept

\* Every step keeps the ready ones ready.
LEMMA ReadyStep ==
    ASSUME ClientFds = {}
    PROVE  IndInv /\ PlaceInv /\ ReadyInv /\ [Next]_vars => ReadyInv'
<1> SUFFICES ASSUME IndInv, PlaceInv, ReadyInv, [Next]_vars PROVE ReadyInv'
  OBVIOUS
<1>0. TypeOK
  BY DEF IndInv
<1>1. ASSUME NEW f \in Fds, PeerSend(f) \/ PeerClose(f) \/ PeerReset(f) PROVE ReadyInv'
  <2>1. /\ UNCHANGED <<at, waitFd, queue, batch, inEvents>>
        /\ \A g \in Fds : sock'[g] = sock[g] \/ sock'[g] \in {"data", "eof", "reset"}
        /\ \A g \in Fds : sock[g] \in {"eof", "reset"} => sock'[g] = sock[g]
    BY <1>0, <1>1 DEF TypeOK, PeerSend, PeerClose, PeerReset, corVars, queueVars, eventVars
  <2> QED
    BY <2>1, ReadyFrame DEF Ready, Coming, Queued
<1>2. ASSUME NEW t \in Threads,
             LoopTop(t) \/ StealDone(t) \/ BatchDone(t) \/ SwapTasks(t) \/ TasksDone(t)
             \/ EventsDone(t) \/ ApplyPending(t) \/ \E f \in Fds : HandleErrorEvent(t, f)
      PROVE  ReadyInv'
  <2>1. UNCHANGED <<at, waitFd, queue, batch, inEvents, sock>>
    BY <1>2 DEF LoopTop, StealDone, BatchDone, SwapTasks, TasksDone, EventsDone, ApplyPending,
       HandleErrorEvent, fdVars, corVars, queueVars, eventVars
  <2> QED
    BY <2>1, ReadyFrame DEF Ready, Coming, Queued
<1>3. ASSUME NEW t \in Threads, PopSome(t) \/ \E v \in Threads : StealFrom(t, v) PROVE ReadyInv'
  <2>1. \A f : Queued(f)' <=> Queued(f)
    BY <1>3, PopSomeEffect, StealFromEffect
  <2>2. UNCHANGED <<at, waitFd, inEvents, sock>>
    BY <1>3 DEF PopSome, StealFrom, fdVars, corVars, eventVars
  <2> QED
    BY <2>1, <2>2, ReadyFrame DEF Ready, Coming
<1>4. ASSUME NEW t \in Threads, ResumeTask(t) PROVE ReadyInv'
  <2>1. PICK f \in Fds : /\ Queued(f) /\ cor[f] \in Cors /\ at[cor[f]] = "parked"
                         /\ waitFd[cor[f]] = f /\ at' = [at EXCEPT ![cor[f]] = "woken"]
                         /\ \A g : Queued(g)' => Queued(g)
    BY <1>4, ResumeTaskEffect
  <2>2. UNCHANGED <<waitFd, inEvents, sock>>
    BY <1>4 DEF ResumeTask, eventVars
  <2>3. Ready(f)
    BY <2>1 DEF ReadyInv
  <2>4. \A g \in Fds : Ready(g)' <=> Ready(g)
    BY <2>2 DEF Ready
  <2>5. \A g \in Fds : Coming(g)' => Coming(g)
    BY <2>1, <2>2 DEF Coming
  <2>6. at'[cor[f]] = "woken" /\ \A d \in Cors : d # cor[f] => at'[d] = at[d]
    BY <1>0, <2>1 DEF TypeOK
  <2>7. \A c : c = cor[f] => Ready(waitFd[c])'
    BY <1>4, <2>1, <2>2, <2>3 DEF Ready, ResumeTask
  <2> QED
    BY <2>1, <2>2, <2>4, <2>5, <2>6, <2>7, ReadyKept
<1>5. ASSUME NEW t \in Threads, RunTask(t) PROVE ReadyInv'
  <2>1. PICK c \in Cors : at[c] = "start" /\ at' = [at EXCEPT ![c] = "run"]
    BY <1>5, RunTaskEffect
  <2>2. UNCHANGED <<waitFd, inEvents, sock, queue, batch>>
    BY <1>5 DEF RunTask, fdVars, queueVars, eventVars
  <2> QED
    BY <1>0, <2>1, <2>2, ReadyOwn DEF TypeOK
<1>6. ASSUME NEW t \in Threads, NEW c \in Cors, TimerFires(t, c) PROVE ReadyInv'
  <2>1. at[c] = "sleep" /\ at' = [at EXCEPT ![c] = "run"]
    BY <1>6 DEF TimerFires, IndInv, TimerInv
  <2>2. UNCHANGED <<waitFd, inEvents, sock, queue, batch>>
    BY <1>6 DEF TimerFires, fdVars, queueVars, eventVars
  <2> QED
    BY <1>0, <2>1, <2>2, ReadyOwn DEF TypeOK
<1>7. ASSUME NEW t \in Threads, NEW D \in SUBSET Cors, EpollWait(t, D) PROVE ReadyInv'
  <2>1. /\ UNCHANGED <<at, waitFd, sock, queue, batch>>
        /\ inEvents' = [inEvents EXCEPT ![t] = {f \in Fds : Readable(t, f)}]
    BY <1>7 DEF EpollWait, fdVars, corVars, queueVars
  <2>2. \A u \in Threads, g \in Fds : g \in inEvents'[u] => g \in inEvents[u] \/ Ready(g)
    BY <1>0, <2>1 DEF TypeOK, Readable, Ready
  <2>3. \A g \in Fds : Coming(g)' => Coming(g) \/ Ready(g)
    BY <2>1, <2>2 DEF Coming, Queued
  <2> QED
    BY <2>1, <2>3, ReadyFrame DEF Ready
<1>8. ASSUME NEW t \in Threads, NEW f \in Fds, HandleEvent(t, f) PROVE ReadyInv'
  <2>1. /\ UNCHANGED <<at, waitFd, sock>> /\ f \in inEvents[t]
        /\ \A u \in Threads : inEvents'[u] \subseteq inEvents[u]
    BY <1>0, <1>8 DEF HandleEvent, corVars, TypeOK
  <2>2. \A g \in Fds : Coming(g)' => Coming(g)
    BY <1>8, <2>1, HandleEventQueued DEF Coming
  <2> QED
    BY <2>1, <2>2, ReadyFrame DEF Ready
<1>9. ASSUME NEW t \in Threads, NEW f \in Fds, NEW c \in Cors, Accept(t, f, c) PROVE ReadyInv'
  <2>1. /\ at[c] = "free" /\ at' = [at EXCEPT ![c] = "start"] /\ sock[f] = "closed"
        /\ sock' = [sock EXCEPT ![f] = "idle"] /\ UNCHANGED <<waitFd, inEvents, queue, batch>>
    BY <1>9 DEF Accept, queueVars, eventVars
  <2>2. /\ at'[c] = "start" /\ \A d \in Cors : d # c => at'[d] = at[d]
        /\ \A g \in Fds : sock[g] \in {"data", "eof", "reset"} => sock'[g] = sock[g]
    BY <1>0, <2>1 DEF TypeOK
  <2>3. \A g \in Fds : Coming(g)' => Coming(g)
    BY <2>1 DEF Coming, Queued
  <2>4. \A g \in Fds : Ready(g) => Ready(g)'
    BY <2>2 DEF Ready
  <2> QED
    BY <2>1, <2>2, <2>3, <2>4, ReadyKept
<1>10. ASSUME NEW t \in Threads, NEW c \in Cors, NEW f \in Fds, RecvReady(t, c, f) PROVE ReadyInv'
  <2>1. /\ at[c] = "run" /\ owner[f] = c /\ sock' = [sock EXCEPT ![f] = "idle"]
        /\ UNCHANGED <<at, waitFd, inEvents, queue, batch>>
    BY <1>10 DEF RecvReady, CanCall, corVars, queueVars, eventVars
  <2> QED
    BY <1>0, <2>1, ReadyOwn DEF TypeOK
<1>11. ASSUME NEW t \in Threads, NEW c \in Cors, NEW f \in Fds, RecvMiss(t, c, f) PROVE ReadyInv'
  <2>1. /\ at[c] = "run" /\ at' = [at EXCEPT ![c] = "arm"] /\ waitFd' = [waitFd EXCEPT ![c] = f]
        /\ UNCHANGED <<sock, inEvents, queue, batch>>
    BY <1>11 DEF RecvMiss, queueVars, eventVars
  <2> QED
    BY <1>0, <2>1, ReadyOwn DEF TypeOK
<1>12. ASSUME NEW t \in Threads, NEW c \in Cors,
              Yield(t, c) \/ YieldForever(t, c) \/ Sleep(t, c) \/ ToEpoll(t, c)
       PROVE  ReadyInv'
  <2>1. /\ at[c] \in {"yield", "closing", "run", "arm"}
        /\ \E s \in {"parked", "done", "sleep", "yield"} : at' = [at EXCEPT ![c] = s]
        /\ UNCHANGED <<waitFd, sock, inEvents, queue, batch>>
    BY <1>12 DEF Yield, YieldForever, Sleep, ToEpoll, fdVars, queueVars, eventVars
  <2> QED
    BY <1>0, <2>1, ReadyOwn DEF TypeOK
<1>13. ASSUME NEW t \in Threads, NEW c \in Cors, Disarm(t, c) PROVE ReadyInv'
  <2>1. /\ at[c] = "woken" /\ at' = [at EXCEPT ![c] = "reread"]
        /\ UNCHANGED <<waitFd, sock, inEvents, queue, batch>>
    BY <1>13 DEF Disarm, queueVars, eventVars
  <2>2. Ready(waitFd[c])'
    BY <2>1 DEF ReadyInv, Ready
  <2> QED
    BY <1>0, <2>1, <2>2, ReadyOwn DEF TypeOK
<1>14. ASSUME NEW t \in Threads, NEW c \in Cors, Reread(t, c) PROVE ReadyInv'
  <2>1. waitFd[c] \in Fds /\ owner[waitFd[c]] = c /\ at[c] = "reread" /\ Ready(waitFd[c])
    BY <1>14 DEF Reread, IndInv, WaitInv, ReadyInv
  <2>2. UNCHANGED <<inEvents, queue, batch>>
    BY <1>14 DEF Reread, queueVars, eventVars
  <2>3. CASE sock[waitFd[c]] = "data"
    <3>1. /\ sock' = [sock EXCEPT ![waitFd[c]] = "idle"] /\ at' = [at EXCEPT ![c] = "run"]
          /\ waitFd' = [waitFd EXCEPT ![c] = NoFd]
      BY <1>14, <2>3 DEF Reread
    <3>2. /\ at'[c] = "run" /\ \A d \in Cors : d # c => at'[d] = at[d] /\ waitFd'[d] = waitFd[d]
          /\ \A g \in Fds : owner[g] # c => sock'[g] = sock[g]
      BY <1>0, <2>1, <3>1 DEF TypeOK
    <3> QED
      BY <2>1, <2>2, <3>2, ReadyOwn
  <2>4. CASE sock[waitFd[c]] # "data"
    <3>1. /\ UNCHANGED sock
          /\ \/ at' = [at EXCEPT ![c] = "close"] /\ UNCHANGED waitFd
             \/ at' = [at EXCEPT ![c] = "run"] /\ waitFd' = [waitFd EXCEPT ![c] = NoFd]
      BY <1>14, <2>4 DEF Reread
    <3>2. sock[waitFd[c]] \in {"eof", "reset"}
      BY <2>1, <2>4 DEF Ready
    <3>3. CASE at' = [at EXCEPT ![c] = "close"] /\ UNCHANGED waitFd
      <4>1. at'[c] = "close" /\ \A d \in Cors : d # c => at'[d] = at[d]
        BY <1>0, <3>3 DEF TypeOK
      <4> QED
        BY <2>1, <2>2, <3>1, <3>2, <3>3, <4>1, ReadyOwn
    <3>4. CASE at' = [at EXCEPT ![c] = "run"] /\ waitFd' = [waitFd EXCEPT ![c] = NoFd]
      <4>1. at'[c] = "run" /\ \A d \in Cors : d # c => at'[d] = at[d] /\ waitFd'[d] = waitFd[d]
        BY <1>0, <3>4 DEF TypeOK
      <4> QED
        BY <2>1, <2>2, <3>1, <4>1, ReadyOwn
    <3> QED
      BY <3>1, <3>3, <3>4
  <2> QED
    BY <2>3, <2>4
<1>15. ASSUME NEW t \in Threads, NEW c \in Cors, ClearClient(t, c) PROVE ReadyInv'
  <2>1. /\ waitFd[c] \in Fds /\ owner[waitFd[c]] = c
        /\ sock' = [sock EXCEPT ![waitFd[c]] = "closed"]
    BY <1>15, ClearClientEffect
  <2>2. /\ at[c] = "close" /\ at' = [at EXCEPT ![c] = "closing"]
        /\ waitFd' = [waitFd EXCEPT ![c] = NoFd] /\ UNCHANGED <<inEvents, queue, batch>>
    BY <1>15 DEF ClearClient, queueVars, eventVars
  <2> QED
    BY <1>0, <2>1, <2>2, ReadyOwn DEF TypeOK
<1>16. CASE UNCHANGED vars
  BY <1>16, ReadyFrame DEF vars, fdVars, corVars, queueVars, eventVars, Ready, Coming, Queued
<1>17. ASSUME NEW t \in Threads, LoopStep(t) PROVE ReadyInv'
  BY <1>2, <1>3, <1>4, <1>5, <1>6, <1>7, <1>8, <1>17 DEF LoopStep
<1>18. ASSUME NEW t \in Threads, NEW c \in Cors, CorStep(t, c) PROVE ReadyInv'
  <2>1. \A f \in Fds : ~OpenClient(t, c, f) /\ ~CloseClient(t, c, f)
    BY DEF OpenClient, CloseClient
  <2> QED
    BY <1>10, <1>11, <1>12, <1>13, <1>14, <1>15, <1>18, <2>1 DEF CorStep
<1> QED
  BY <1>1, <1>9, <1>16, <1>17, <1>18 DEF Next, Environment, ThreadStep

----------------------------------------------------------------------------
(* Wake-ups.                                                               *)

\* A step of coroutine c, or of none, takes nothing from the others: what was
\* armed stays so, or is queued for a coroutine that is parked.
LEMMA WakeKept ==
    ASSUME IndInv, WakeInv, NEW c,
           \A d \in Cors : d # c =>
              /\ at'[d] = at[d] /\ waitFd'[d] = waitFd[d]
              /\ Tasked(d) => Tasked(d)'
              /\ Timed(d) => Timed(d)',
           \A g \in Fds : owner[g] # c =>
              /\ cor'[g] = cor[g]
              /\ Queued(g) => Queued(g)'
              /\ Armed(g) => Armed(g)' \/ (Queued(g)' /\ at[owner[g]] = "parked"),
           \A g \in Fds : listen'[g] => cor'[g] # NoCor,
           c \in Cors => Provided(c)'
    PROVE  WakeInv'
<1>1. ASSUME NEW d \in Cors, d # c PROVE Provided(d)'
  <2>1. at'[d] = at[d] /\ waitFd'[d] = waitFd[d] /\ Provided(d)
    BY <1>1 DEF WakeInv
  <2>2. /\ at[d] = "start" => Tasked(d)'
        /\ at[d] = "sleep" => Timed(d)'
    BY <1>1, <2>1 DEF Provided
  <2>3. ASSUME at[d] \in {"yield", "parked"}, NEW f \in Fds, waitFd[d] = f
        PROVE  cor'[f] = d /\ (Armed(f)' \/ (at[d] = "parked" /\ Queued(f)'))
    <3>1. owner[f] = d
      BY <2>3 DEF IndInv, WaitInv
    <3>2. cor[f] = d /\ (Armed(f) \/ (at[d] = "parked" /\ Queued(f)))
      BY <2>1, <2>3 DEF Provided
    <3> QED
      BY <1>1, <3>1, <3>2
  <2>4. at[d] \in {"yield", "parked"} => waitFd[d] \in Fds
    BY DEF IndInv, WaitInv
  <2> QED
    BY <2>1, <2>2, <2>3, <2>4 DEF Provided, Armed, Queued
<1>2. \A d \in Cors : Provided(d)'
  BY <1>1
<1> QED
  BY <1>2 DEF WakeInv

\* A step of no coroutine that moves none.
LEMMA WakeFrame ==
    ASSUME IndInv, WakeInv, UNCHANGED <<at, waitFd, cor, listen>>,
           \A d \in Cors : Tasked(d) => Tasked(d)',
           \A d \in Cors : Timed(d) => Timed(d)',
           \A g \in Fds : Queued(g) => Queued(g)',
           \A g \in Fds : Armed(g) => Armed(g)' \/ (Queued(g)' /\ at[owner[g]] = "parked")
    PROVE  WakeInv'
<1>1. Main \notin Cors
  BY SchedulerAssumption DEF SchedulerAssumption
<1>2. \A g \in Fds : listen'[g] => cor'[g] # NoCor
  BY DEF WakeInv
<1> QED
  BY <1>1, <1>2, WakeKept

\* A coroutine's own step that leaves queues, tasks and timers alone.
LEMMA WakeOwn ==
    ASSUME IndInv, WakeInv, NEW c \in Cors,
           UNCHANGED <<queue, batch, pendingTasks, tmpTasks, timers, due>>,
           \A d \in Cors : d # c => at'[d] = at[d] /\ waitFd'[d] = waitFd[d],
           \A g \in Fds : owner[g] # c =>
              cor'[g] = cor[g] /\ \A u \in Threads : epoll'[u][g] = epoll[u][g],
           \A g \in Fds : listen'[g] => cor'[g] # NoCor,
           Provided(c)'
    PROVE  WakeInv'
<1>1. \A d : (Tasked(d) => Tasked(d)') /\ (Timed(d) => Timed(d)')
  BY DEF Tasked, Timed
<1>2. \A g : Queued(g) => Queued(g)'
  BY DEF Queued
<1>3. \A g \in Fds : owner[g] # c /\ Armed(g) => Armed(g)'
  BY DEF Armed
<1> QED
  BY <1>1, <1>2, <1>3, WakeKept

\* What waits for nothing needs nothing.
LEMMA NotWaiting ==
    ASSUME NEW c, at'[c] \notin {"start", "sleep", "yield", "parked"}
    PROVE  Provided(c)'
BY DEF Provided

\* Every step keeps the waiting ones provided for.
LEMMA WakeStep ==
    ASSUME ~(HandlersSleep /\ PeersReset), ClientFds = {}
    PROVE  IndInv /\ PlaceInv /\ HangInv /\ WakeInv /\ [Next]_vars => WakeInv'
<1> SUFFICES ASSUME IndInv, PlaceInv, HangInv, WakeInv, [Next]_vars PROVE WakeInv'
  OBVIOUS
<1>0. TypeOK
  BY DEF IndInv
<1>1. ASSUME NEW f \in Fds, PeerSend(f) \/ PeerClose(f) \/ PeerReset(f) PROVE WakeInv'
  <2>1. UNCHANGED <<at, waitFd, cor, listen, queue, batch, pendingTasks, tmpTasks, timers, due, epoll>>
    BY <1>1 DEF PeerSend, PeerClose, PeerReset, corVars, queueVars, taskVars, timerVars, epollVars
  <2> QED
    BY <2>1, WakeFrame DEF Tasked, Timed, Queued, Armed
<1>2. ASSUME NEW t \in Threads,
             LoopTop(t) \/ StealDone(t) \/ BatchDone(t) \/ TasksDone(t) \/ EventsDone(t)
             \/ ApplyPending(t)
      PROVE  WakeInv'
  <2>1. UNCHANGED <<at, waitFd, cor, listen, queue, batch, pendingTasks, tmpTasks, timers, due, epoll>>
    BY <1>2, ApplyNothing DEF LoopTop, StealDone, BatchDone, TasksDone, EventsDone, ApplyPending,
       fdVars, corVars, queueVars, taskVars, timerVars, epollVars
  <2> QED
    BY <2>1, WakeFrame DEF Tasked, Timed, Queued, Armed
<1>3. ASSUME NEW t \in Threads, PopSome(t) \/ \E v \in Threads : StealFrom(t, v) PROVE WakeInv'
  <2>1. \A f : Queued(f)' <=> Queued(f)
    BY <1>3, PopSomeEffect, StealFromEffect
  <2>2. UNCHANGED <<at, waitFd, cor, listen, pendingTasks, tmpTasks, timers, due, epoll>>
    BY <1>3 DEF PopSome, StealFrom, fdVars, corVars, taskVars, timerVars, epollVars
  <2> QED
    BY <2>1, <2>2, WakeFrame DEF Tasked, Timed, Armed
<1>4. ASSUME NEW t \in Threads, ResumeTask(t) PROVE WakeInv'
  <2>1. PICK f \in Fds : /\ cor[f] \in Cors /\ at[cor[f]] = "parked" /\ owner[f] = cor[f]
                         /\ at' = [at EXCEPT ![cor[f]] = "woken"]
                         /\ \A g : g # f /\ Queued(g) => Queued(g)'
    BY <1>4, ResumeTaskEffect
  <2>2. UNCHANGED <<waitFd, cor, listen, pendingTasks, tmpTasks, timers, due, epoll>>
    BY <1>4 DEF ResumeTask, taskVars, timerVars, epollVars
  <2>3. at'[cor[f]] = "woken" /\ \A d \in Cors : d # cor[f] => at'[d] = at[d]
    BY <1>0, <2>1 DEF TypeOK
  <2>4. \A d : (Tasked(d) => Tasked(d)') /\ (Timed(d) => Timed(d)')
    BY <2>2 DEF Tasked, Timed
  <2>5. \A g \in Fds : owner[g] # cor[f] => (Queued(g) => Queued(g)') /\ (Armed(g) => Armed(g)')
    BY <2>1, <2>2 DEF Armed
  <2>6. \A c : c = cor[f] => Provided(c)'
    BY <2>3, NotWaiting
  <2>7. \A g \in Fds : listen'[g] => cor'[g] # NoCor
    BY <2>2 DEF WakeInv
  <2> QED
    BY <2>1, <2>2, <2>3, <2>4, <2>5, <2>6, <2>7, WakeKept
<1>5. ASSUME NEW t \in Threads, RunTask(t) PROVE WakeInv'
  <2>1. PICK c \in Cors : /\ at[c] = "start" /\ at' = [at EXCEPT ![c] = "run"]
                          /\ \A d : d # c /\ Tasked(d) => Tasked(d)'
    BY <1>5, RunTaskEffect
  <2>2. UNCHANGED <<waitFd, cor, listen, queue, batch, timers, due, epoll>>
    BY <1>5 DEF RunTask, fdVars, queueVars, timerVars, epollVars
  <2>3. at'[c] = "run" /\ \A d \in Cors : d # c => at'[d] = at[d]
    BY <1>0, <2>1 DEF TypeOK
  <2>4. /\ \A d : Timed(d) => Timed(d)'
        /\ \A g : (Queued(g) => Queued(g)') /\ (Armed(g) => Armed(g)')
    BY <2>2 DEF Timed, Queued, Armed
  <2>5. Provided(c)'
    BY <2>3, NotWaiting
  <2>6. \A g \in Fds : listen'[g] => cor'[g] # NoCor
    BY <2>2 DEF WakeInv
  <2> QED
    BY <2>1, <2>2, <2>3, <2>4, <2>5, <2>6, WakeKept
<1>6. ASSUME NEW t \in Threads, SwapTasks(t) PROVE WakeInv'
  <2>1. \A d : Tasked(d) => Tasked(d)'
    BY <1>6, SwapTasksEffect
  <2>2. UNCHANGED <<at, waitFd, cor, listen, queue, batch, timers, due, epoll>>
    BY <1>6 DEF SwapTasks, fdVars, corVars, queueVars, timerVars, epollVars
  <2> QED
    BY <2>1, <2>2, WakeFrame DEF Timed, Queued, Armed
<1>7. ASSUME NEW t \in Threads, NEW D \in SUBSET Cors, EpollWait(t, D) PROVE WakeInv'
  <2>1. /\ UNCHANGED <<at, waitFd, cor, listen, queue, batch, pendingTasks, tmpTasks, epoll>>
        /\ D \subseteq timers[t] /\ due[t] = {}
        /\ timers' = [timers EXCEPT ![t] = timers[t] \ D] /\ due' = [due EXCEPT ![t] = D]
    BY <1>7 DEF EpollWait, InLoop, PlaceInv, fdVars, corVars, queueVars, taskVars, epollVars
  <2>2. \A u \in Threads : timers'[u] \cup due'[u] = timers[u] \cup due[u]
    BY <1>0, <2>1 DEF TypeOK
  <2>3. \A d \in Cors : Timed(d) => Timed(d)'
    BY <2>2 DEF Timed
  <2> QED
    BY <2>1, <2>3, WakeFrame DEF Tasked, Queued, Armed
<1>8. ASSUME NEW t \in Threads, NEW f \in Fds, HandleEvent(t, f) PROVE WakeInv'
  <2>1. UNCHANGED <<at, waitFd, cor, listen, pendingTasks, tmpTasks, timers, due>>
    BY <1>8 DEF HandleEvent, corVars, taskVars, timerVars
  <2>2. /\ at[cor[f]] = "parked" /\ owner[f] = cor[f]
        /\ \A u \in Threads, g \in Fds : g # f => epoll'[u][g] = epoll[u][g]
    BY <1>8, HandleEventEffect
  <2>3. \A g : Queued(g)' <=> Queued(g) \/ g = f
    BY <1>8, HandleEventQueued
  <2>4. \A g \in Fds : Armed(g) => Armed(g)' \/ (Queued(g)' /\ at[owner[g]] = "parked")
    BY <2>2, <2>3 DEF Armed
  <2> QED
    BY <2>1, <2>3, <2>4, WakeFrame DEF Tasked, Timed
<1>9. ASSUME NEW t \in Threads, NEW f \in Fds, HandleErrorEvent(t, f) PROVE WakeInv'
  <2>1. /\ UNCHANGED <<at, waitFd, cor, listen, queue, batch, pendingTasks, tmpTasks, timers, due>>
        /\ f \in errEvents[t] /\ epoll' = [epoll EXCEPT ![t][f] = "none"]
    BY <1>9 DEF HandleErrorEvent, fdVars, corVars, queueVars, taskVars, timerVars
  <2>2. \A u \in Threads, g \in Fds : epoll[u][g] = "armed" => epoll'[u][g] = "armed"
    BY <1>0, <2>1, OneInterest DEF HangInv, Interest
  <2> QED
    BY <2>1, <2>2, WakeFrame DEF Tasked, Timed, Queued, Armed
<1>10. ASSUME NEW t \in Threads, NEW c \in Cors, TimerFires(t, c) PROVE WakeInv'
  <2>1. /\ UNCHANGED <<waitFd, cor, listen, queue, batch, pendingTasks, tmpTasks, timers, epoll>>
        /\ due' = [due EXCEPT ![t] = due[t] \ {c}] /\ at' = [at EXCEPT ![c] = "run"]
    BY <1>10 DEF TimerFires, fdVars, queueVars, taskVars, epollVars
  <2>2. at'[c] = "run" /\ \A d \in Cors : d # c => at'[d] = at[d]
    BY <1>0, <2>1 DEF TypeOK
  <2>3. \A d : d # c /\ Timed(d) => Timed(d)'
    BY <1>0, <2>1 DEF Timed, TypeOK
  <2>4. \A d : (Tasked(d) => Tasked(d)') /\ (Queued(d) => Queued(d)') /\ (Armed(d) => Armed(d)')
    BY <2>1 DEF Tasked, Queued, Armed
  <2>5. Provided(c)'
    BY <2>2, NotWaiting
  <2>6. \A g \in Fds : listen'[g] => cor'[g] # NoCor
    BY <2>1 DEF WakeInv
  <2> QED
    BY <2>1, <2>2, <2>3, <2>4, <2>5, <2>6, WakeKept
<1>11. ASSUME NEW t \in Threads, NEW f \in Fds, NEW c \in Cors, Accept(t, f, c) PROVE WakeInv'
  <2>1. UNCHANGED <<waitFd, cor, listen, queue, batch, timers, due, epoll>>
    BY <1>11 DEF Accept, queueVars, timerVars, epollVars
  <2>2. /\ Tasked(c)' /\ \A d : Tasked(d) => Tasked(d)'
        /\ at' = [at EXCEPT ![c] = "start"]
    BY <1>11, AcceptEffect
  <2>3. at'[c] = "start" /\ \A d \in Cors : d # c => at'[d] = at[d]
    BY <1>0, <2>2 DEF TypeOK
  <2>4. \A d : (Timed(d) => Timed(d)') /\ (Queued(d) => Queued(d)') /\ (Armed(d) => Armed(d)')
    BY <2>1 DEF Timed, Queued, Armed
  <2>5. Provided(c)'
    BY <2>2, <2>3 DEF Provided
  <2>6. \A g \in Fds : listen'[g] => cor'[g] # NoCor
    BY <2>1 DEF WakeInv
  <2> QED
    BY <2>1, <2>2, <2>3, <2>4, <2>5, <2>6, WakeKept
<1>12. ASSUME NEW t \in Threads, NEW c \in Cors,
              Reread(t, c) \/ YieldForever(t, c)
              \/ \E f \in Fds : RecvReady(t, c, f) \/ RecvMiss(t, c, f)
       PROVE  WakeInv'
  <2>1. /\ UNCHANGED <<cor, listen, queue, batch, pendingTasks, tmpTasks, timers, due, epoll>>
        /\ \A d \in Cors : d # c => at'[d] = at[d] /\ waitFd'[d] = waitFd[d]
        /\ at'[c] \in {"run", "close", "done", "arm"}
    BY <1>0, <1>12 DEF TypeOK, Reread, YieldForever, RecvReady, RecvMiss, corVars, fdVars, queueVars,
       taskVars, timerVars, epollVars
  <2>2. Provided(c)'
    BY <2>1, NotWaiting
  <2>3. \A g \in Fds : listen'[g] => cor'[g] # NoCor
    BY <2>1 DEF WakeInv
  <2> QED
    BY <2>1, <2>2, <2>3, WakeOwn
<1>13. ASSUME NEW t \in Threads, NEW c \in Cors, Sleep(t, c) PROVE WakeInv'
  <2>1. /\ UNCHANGED <<waitFd, cor, listen, queue, batch, pendingTasks, tmpTasks, due, epoll>>
        /\ timers' = [timers EXCEPT ![t] = timers[t] \cup {c}] /\ at' = [at EXCEPT ![c] = "sleep"]
    BY <1>13 DEF Sleep, fdVars, queueVars, taskVars, epollVars
  <2>2. at'[c] = "sleep" /\ \A d \in Cors : d # c => at'[d] = at[d]
    BY <1>0, <2>1 DEF TypeOK
  <2>3. Timed(c)' /\ \A d : Timed(d) => Timed(d)'
    BY <1>0, <2>1 DEF Timed, TypeOK
  <2>4. \A d : (Tasked(d) => Tasked(d)') /\ (Queued(d) => Queued(d)') /\ (Armed(d) => Armed(d)')
    BY <2>1 DEF Tasked, Queued, Armed
  <2>5. Provided(c)'
    BY <2>2, <2>3 DEF Provided
  <2>6. \A g \in Fds : listen'[g] => cor'[g] # NoCor
    BY <2>1 DEF WakeInv
  <2> QED
    BY <2>1, <2>2, <2>3, <2>4, <2>5, <2>6, WakeKept
<1>14. ASSUME NEW t \in Threads, NEW c \in Cors, ToEpoll(t, c) PROVE WakeInv'
  <2> DEFINE f == waitFd[c]
  <2>1. /\ f \in Fds /\ owner[f] = c /\ cor' = [cor EXCEPT ![f] = c]
        /\ IF listen[f] THEN epoll' = epoll
           ELSE \A u \in Threads, g \in Fds :
                   epoll'[u][g] = IF u = t /\ g = f THEN "armed" ELSE epoll[u][g]
    BY <1>14, ToEpollEffect
  <2>2. /\ UNCHANGED <<waitFd, queue, batch, pendingTasks, tmpTasks, timers, due>>
        /\ at[c] = "arm" /\ at' = [at EXCEPT ![c] = "yield"]
        /\ listen' = [listen EXCEPT ![f] = TRUE]
    BY <1>14 DEF ToEpoll, queueVars, taskVars, timerVars
  <2> HIDE DEF f
  <2>3. ~listen[f]
    <3>1. cor[f] # c
      BY <2>1, <2>2, NotNamed
    <3>2. cor[f] # NoCor => owner[f] = cor[f]
      BY <2>1 DEF IndInv, WaitInv
    <3> QED
      BY <2>1, <3>1, <3>2 DEF WakeInv
  <2>4. /\ cor'[f] = c /\ epoll'[t][f] = "armed" /\ at'[c] = "yield"
        /\ \A d \in Cors : d # c => at'[d] = at[d]
        /\ \A g \in Fds : g # f => /\ cor'[g] = cor[g] /\ listen'[g] = listen[g]
                                   /\ \A u \in Threads : epoll'[u][g] = epoll[u][g]
    BY <1>0, <2>1, <2>2, <2>3 DEF TypeOK
  <2>5. Provided(c)'
    <3>1. waitFd'[c] = f
      BY <2>2 DEF f
    <3> QED
      BY <2>4, <3>1 DEF Provided, Armed
  <2>6. \A g \in Fds : listen'[g] => cor'[g] # NoCor
    BY <2>4, SchedulerAssumption DEF WakeInv, SchedulerAssumption
  <2> QED
    BY <2>1, <2>2, <2>4, <2>5, <2>6, WakeOwn
<1>15. ASSUME NEW t \in Threads, NEW c \in Cors, Yield(t, c) PROVE WakeInv'
  <2>1. /\ UNCHANGED <<waitFd, cor, listen, queue, batch, pendingTasks, tmpTasks, timers, due, epoll>>
        /\ at[c] = "yield" /\ at' = [at EXCEPT ![c] = "parked"]
    BY <1>15 DEF Yield, fdVars, queueVars, taskVars, timerVars, epollVars
  <2>2. at'[c] = "parked" /\ \A d \in Cors : d # c => at'[d] = at[d]
    BY <1>0, <2>1 DEF TypeOK
  <2>3. cor[waitFd[c]] = c /\ Armed(waitFd[c])
    BY <2>1 DEF WakeInv, Provided
  <2>4. Provided(c)'
    BY <2>1, <2>2, <2>3 DEF Provided, Armed
  <2>5. \A g \in Fds : listen'[g] => cor'[g] # NoCor
    BY <2>1 DEF WakeInv
  <2> QED
    BY <2>1, <2>2, <2>4, <2>5, WakeOwn
<1>16. ASSUME NEW t \in Threads, NEW c \in Cors, Disarm(t, c) PROVE WakeInv'
  <2> DEFINE f == waitFd[c]
  <2>1. /\ f \in Fds /\ owner[f] = c
        /\ cor' = [cor EXCEPT ![f] = NoCor] /\ listen' = [listen EXCEPT ![f] = FALSE]
        /\ \A u \in Threads, g \in Fds : g # f => epoll'[u][g] = epoll[u][g]
    BY <1>16, DisarmEffect
  <2>2. /\ UNCHANGED <<waitFd, queue, batch, pendingTasks, tmpTasks, timers, due>>
        /\ at' = [at EXCEPT ![c] = "reread"]
    BY <1>16 DEF Disarm, queueVars, taskVars, timerVars
  <2> HIDE DEF f
  <2>3. /\ at'[c] = "reread" /\ ~listen'[f]
        /\ \A d \in Cors : d # c => at'[d] = at[d]
        /\ \A g \in Fds : g # f => cor'[g] = cor[g] /\ listen'[g] = listen[g]
    BY <1>0, <2>1, <2>2 DEF TypeOK
  <2>4. Provided(c)'
    BY <2>3, NotWaiting
  <2>5. \A g \in Fds : listen'[g] => cor'[g] # NoCor
    BY <2>3 DEF WakeInv
  <2> QED
    BY <2>1, <2>2, <2>3, <2>4, <2>5, WakeOwn
<1>17. ASSUME NEW t \in Threads, NEW c \in Cors, ClearClient(t, c) PROVE WakeInv'
  <2> DEFINE f == waitFd[c]
  <2>1. /\ f \in Fds /\ owner[f] = c /\ listen' = [listen EXCEPT ![f] = FALSE]
        /\ \A u \in Threads, g \in Fds : g # f => epoll'[u][g] = epoll[u][g]
    BY <1>17, ClearClientEffect
  <2>2. /\ UNCHANGED <<cor, queue, batch, pendingTasks, tmpTasks, timers, due>>
        /\ at' = [at EXCEPT ![c] = "closing"] /\ waitFd' = [waitFd EXCEPT ![c] = NoFd]
    BY <1>17 DEF ClearClient, queueVars, taskVars, timerVars
  <2> HIDE DEF f
  <2>3. /\ at'[c] = "closing" /\ ~listen'[f]
        /\ \A d \in Cors : d # c => at'[d] = at[d] /\ waitFd'[d] = waitFd[d]
        /\ \A g \in Fds : g # f => listen'[g] = listen[g]
    BY <1>0, <2>1, <2>2 DEF TypeOK
  <2>4. Provided(c)'
    BY <2>3, NotWaiting
  <2>5. \A g \in Fds : listen'[g] => cor'[g] # NoCor
    BY <2>2, <2>3 DEF WakeInv
  <2> QED
    BY <2>1, <2>2, <2>3, <2>4, <2>5, WakeOwn
<1>18. CASE UNCHANGED vars
  BY <1>18, WakeFrame DEF vars, fdVars, corVars, queueVars, taskVars, timerVars, epollVars, Tasked,
     Timed, Queued, Armed
<1>19. ASSUME NEW t \in Threads, LoopStep(t) PROVE WakeInv'
  BY <1>2, <1>3, <1>4, <1>5, <1>6, <1>7, <1>8, <1>9, <1>10, <1>19 DEF LoopStep
<1>20. ASSUME NEW t \in Threads, NEW c \in Cors, CorStep(t, c) PROVE WakeInv'
  <2>1. \A f \in Fds : ~OpenClient(t, c, f) /\ ~CloseClient(t, c, f)
    BY DEF OpenClient, CloseClient
  <2> QED
    BY <1>12, <1>13, <1>14, <1>15, <1>16, <1>17, <1>20, <2>1 DEF CorStep
<1> QED
  BY <1>1, <1>11, <1>18, <1>19, <1>20 DEF Next, Environment, ThreadStep

----------------------------------------------------------------------------
(* Counting wake-ups.                                                      *)

\* A set without two different elements has none or one.
LEMMA AtMostOne ==
    ASSUME NEW S, \A x, y \in S : x = y
    PROVE  Cardinality(S) = IF S = {} THEN 0 ELSE 1
<1>1. CASE S = {}
  BY <1>1, FS_EmptySet
<1>2. CASE S # {}
  <2>1. PICK x \in S : TRUE
    BY <1>2
  <2>2. S = {x}
    BY <2>1
  <2> QED
    BY <2>2, FS_Singleton
<1> QED
  BY <1>1, <1>2

\* The places in the sequences of s that hold one of the values X.
Places(s, X) == UNION {{t} \X {i \in DOMAIN s[t] : s[t][i] \in X} : t \in Threads}

\* A value of sequences without repetition has at most one place.
LEMMA OnePlace ==
    ASSUME NEW s, NEW X, Unique(s), \A x, y \in X : x = y
    PROVE  /\ \A p, q \in Places(s, X) : p = q
           /\ Places(s, X) = {} <=> \A t \in Threads : \A x \in X : x \notin ToSet(s[t])
<1>1. \A p : p \in Places(s, X) <=>
         \E t \in Threads : \E i \in DOMAIN s[t] : p = <<t, i>> /\ s[t][i] \in X
  BY DEF Places
<1>2. ASSUME NEW t \in Threads, NEW u \in Threads, NEW i \in DOMAIN s[t], NEW j \in DOMAIN s[u],
             s[t][i] \in X, s[u][j] \in X
      PROVE  t = u /\ i = j
  <2>1. s[t][i] = s[u][j] /\ s[t][i] \in ToSet(s[t]) /\ s[u][j] \in ToSet(s[u])
    BY <1>2 DEF ToSet
  <2>2. t = u
    BY <2>1 DEF Unique
  <2> QED
    BY <2>1, <2>2 DEF Unique, IsInjective
<1>3. \A p, q \in Places(s, X) : p = q
  <2> SUFFICES ASSUME NEW p \in Places(s, X), NEW q \in Places(s, X) PROVE p = q
    OBVIOUS
  <2>1. PICK t \in Threads : \E i \in DOMAIN s[t] : p = <<t, i>> /\ s[t][i] \in X
    BY <1>1
  <2>2. PICK i \in DOMAIN s[t] : p = <<t, i>> /\ s[t][i] \in X
    BY <2>1
  <2>3. PICK u \in Threads : \E j \in DOMAIN s[u] : q = <<u, j>> /\ s[u][j] \in X
    BY <1>1
  <2>4. PICK j \in DOMAIN s[u] : q = <<u, j>> /\ s[u][j] \in X
    BY <2>3
  <2> QED
    BY <1>2, <2>2, <2>4
<1>4. (\A t \in Threads : \A x \in X : x \notin ToSet(s[t])) => Places(s, X) = {}
  BY <1>1 DEF ToSet
<1>5. Places(s, X) = {} => \A t \in Threads : \A x \in X : x \notin ToSet(s[t])
  BY <1>1 DEF ToSet
<1> QED
  BY <1>3, <1>4, <1>5

\* What IndInv makes of the sum: a wake-up of c is one armed registration, one
\* place in a queue, in a batch or among the tasks, or one timer.
LEMMA WakeupsSum ==
    ASSUME IndInv, NEW c \in Cors
    PROVE  LET Fd == {f \in Fds : cor[f] = c}
               Num(p) == IF p THEN 1 ELSE 0
           IN  Wakeups(c) = Num(\E f \in Fd : Armed(f)) + 0
                 + Num(\E f \in Fd, t \in Threads : f \in ToSet(queue[t]))
                 + Num(\E f \in Fd, t \in Threads : f \in ToSet(batch[t]))
                 + Num(\E t \in Threads : c \in ToSet(pendingTasks[t]))
                 + Num(\E t \in Threads : c \in ToSet(tmpTasks[t]))
                 + Num(Timed(c))
<1> DEFINE Fd == {f \in Fds : cor[f] = c}
           Reg(e) == {x \in Threads \X Fd : e[x[1]][x[2]] = "armed"}
           Timers == {t \in Threads : c \in timers[t] \cup due[t]}
<1>1. \A f, g \in Fd : f = g
  BY SchedulerAssumption DEF SchedulerAssumption, IndInv, WaitInv
<1>2. Wakeups(c) = Cardinality(Reg(epoll)) + Cardinality(Reg(pendingAdd))
                   + Cardinality(Places(queue, Fd)) + Cardinality(Places(batch, Fd))
                   + Cardinality(Places(pendingTasks, {c})) + Cardinality(Places(tmpTasks, {c}))
                   + Cardinality(Timers)
  BY DEF Wakeups, Places
<1>3. Cardinality(Reg(epoll)) = IF \E f \in Fd : Armed(f) THEN 1 ELSE 0
  <2>1. \A x, y \in Reg(epoll) : x = y
    <3> SUFFICES ASSUME NEW x \in Reg(epoll), NEW y \in Reg(epoll) PROVE x = y
      OBVIOUS
    <3>1. /\ x = <<x[1], x[2]>> /\ x[1] \in Threads /\ x[2] \in Fd /\ epoll[x[1]][x[2]] = "armed"
          /\ y = <<y[1], y[2]>> /\ y[1] \in Threads /\ y[2] \in Fd /\ epoll[y[1]][y[2]] = "armed"
      OBVIOUS
    <3>2. x[2] = y[2]
      BY <1>1, <3>1
    <3>3. reactor[x[2]] = x[1] /\ reactor[y[2]] = y[1]
      BY <3>1 DEF IndInv, EpollInv, RegisteredWithOwnReactor
    <3> QED
      BY <3>1, <3>2, <3>3
  <2>2. Reg(epoll) = {} <=> ~\E f \in Fd : Armed(f)
    <3>1. ASSUME NEW f \in Fd, NEW t \in Threads, epoll[t][f] = "armed" PROVE Reg(epoll) # {}
      <4>1. <<t, f>> \in Reg(epoll)
        BY <3>1
      <4> QED
        BY <4>1
    <3>2. ASSUME NEW x \in Reg(epoll) PROVE \E f \in Fd : Armed(f)
      BY DEF Armed
    <3> QED
      BY <3>1, <3>2 DEF Armed
  <2> HIDE DEF Reg
  <2> QED
    BY <2>1, <2>2, AtMostOne
<1>4. Cardinality(Reg(pendingAdd)) = 0
  <2>1. Reg(pendingAdd) = {}
    BY DEF IndInv, EpollInv
  <2> QED
    BY <2>1, FS_EmptySet
<1>5. Cardinality(Timers) = IF Timed(c) THEN 1 ELSE 0
  <2>1. \A t, u \in Timers : t = u
    BY DEF IndInv, TimerInv
  <2>2. Timers = {} <=> ~Timed(c)
    BY DEF Timed
  <2> HIDE DEF Timers
  <2> QED
    BY <2>1, <2>2, AtMostOne
<1> HIDE DEF Fd, Reg, Timers
<1>6. /\ Unique(queue) /\ Unique(batch) /\ Unique(pendingTasks) /\ Unique(tmpTasks)
      /\ \A x, y \in {c} : x = y
  BY DEF IndInv, QueueInv, TaskInv
<1>7. /\ Cardinality(Places(queue, Fd))
          = IF \E f \in Fd, t \in Threads : f \in ToSet(queue[t]) THEN 1 ELSE 0
      /\ Cardinality(Places(batch, Fd))
          = IF \E f \in Fd, t \in Threads : f \in ToSet(batch[t]) THEN 1 ELSE 0
  <2>1. ASSUME NEW s, Unique(s)
        PROVE  Cardinality(Places(s, Fd))
               = IF \E f \in Fd, t \in Threads : f \in ToSet(s[t]) THEN 1 ELSE 0
    BY <1>1, <2>1, OnePlace, AtMostOne
  <2> QED
    BY <1>6, <2>1
<1>8. /\ Cardinality(Places(pendingTasks, {c}))
          = IF \E t \in Threads : c \in ToSet(pendingTasks[t]) THEN 1 ELSE 0
      /\ Cardinality(Places(tmpTasks, {c}))
          = IF \E t \in Threads : c \in ToSet(tmpTasks[t]) THEN 1 ELSE 0
  <2>1. ASSUME NEW s, Unique(s)
        PROVE  Cardinality(Places(s, {c})) = IF \E t \in Threads : c \in ToSet(s[t]) THEN 1 ELSE 0
    BY <1>6, <2>1, OnePlace, AtMostOne
  <2> QED
    BY <1>6, <2>1
<1> QED
  BY <1>2, <1>3, <1>4, <1>5, <1>7, <1>8 DEF Fd

\* The sum is one for who is suspended and none for who runs.
LEMMA CountedOnce ==
    ASSUME IndInv, WakeInv
    PROVE  OneWakeup
<1>0. NoneWithout
  <2> SUFFICES ASSUME NEW t \in Threads, batch[t] # <<>> PROVE cor[Head(batch[t])] # NoCor
    BY DEF NoneWithout
  <2>1. batch[t] \in Seq(Fds)
    BY DEF IndInv, TypeOK
  <2>2. Head(batch[t]) \in ToSet(batch[t])
    BY <2>1 DEF ToSet
  <2> QED
    BY <2>2, SchedulerAssumption DEF IndInv, QueueInv, Waiting
<1> SUFFICES ASSUME NEW c \in Cors
             PROVE  /\ at[c] \in Suspended => Wakeups(c) >= 1
                    /\ Wakeups(c) <= IF at[c] \in Suspended \cup {"yield"} THEN 1 ELSE 0
  BY <1>0 DEF OneWakeup, NoLostWakeup, NoDoubleWakeup
<1> DEFINE Fd == {f \in Fds : cor[f] = c}
           Num(p) == IF p THEN 1 ELSE 0
           Reg == \E f \in Fd : Armed(f)
           InQueue == \E f \in Fd, t \in Threads : f \in ToSet(queue[t])
           InBatch == \E f \in Fd, t \in Threads : f \in ToSet(batch[t])
           Pending == \E t \in Threads : c \in ToSet(pendingTasks[t])
           Swapped == \E t \in Threads : c \in ToSet(tmpTasks[t])
           Slept == Timed(c)
<1>1. Wakeups(c) = Num(Reg) + 0 + Num(InQueue) + Num(InBatch) + Num(Pending) + Num(Swapped)
                   + Num(Slept)
  BY WakeupsSum
<1>2. \A f, g \in Fd : f = g
  BY SchedulerAssumption DEF SchedulerAssumption, IndInv, WaitInv
<1>3. Reg => at[c] \in {"yield", "parked"} /\ ~InQueue /\ ~InBatch
  BY <1>2 DEF Armed, IndInv, EpollInv, QueueInv, Waiting
<1>4. InQueue => at[c] = "parked" /\ ~InBatch
  BY <1>2 DEF IndInv, QueueInv, Waiting, Disjoint
<1>5. InBatch => at[c] = "parked"
  BY DEF IndInv, QueueInv, Waiting
<1>6. Pending => at[c] = "start" /\ ~Swapped
  BY DEF IndInv, TaskInv, Starting, Disjoint
<1>7. Swapped => at[c] = "start"
  BY DEF IndInv, TaskInv, Starting
<1>8. Slept => at[c] = "sleep"
  BY DEF Timed, IndInv, TimerInv
<1>9. /\ at[c] = "start" => Pending \/ Swapped
      /\ at[c] = "sleep" => Slept
  BY DEF WakeInv, Provided, Tasked
<1>10. at[c] = "parked" => Reg \/ InQueue \/ InBatch
  <2>1. at[c] = "parked" => /\ waitFd[c] \in Fds /\ cor[waitFd[c]] = c
                            /\ Armed(waitFd[c]) \/ Queued(waitFd[c])
    BY DEF WakeInv, Provided, IndInv, WaitInv
  <2> QED
    BY <2>1 DEF Queued
<1> HIDE DEF Reg, InQueue, InBatch, Pending, Swapped, Slept
<1>11. at[c] \in Suspended => Wakeups(c) >= 1
  BY <1>1, <1>9, <1>10 DEF Suspended
<1>12. Wakeups(c) <= IF at[c] \in Suspended \cup {"yield"} THEN 1 ELSE 0
  BY <1>1, <1>3, <1>4, <1>5, <1>6, <1>7, <1>8 DEF Suspended
<1> QED
  BY <1>11, <1>12

----------------------------------------------------------------------------
(* The theorems.                                                           *)

\* Initially nothing is held.
LEMMA PlaceInit == Init => PlaceInv
BY DEF Init, PlaceInv

\* Initially nothing hangs up.
LEMMA HangInit == Init => HangInv
BY SchedulerAssumption DEF SchedulerAssumption, Init, HangInv

\* Initially nobody waits.
LEMMA WakeInit == Init => WakeInv
BY DEF Init, WakeInv, Provided

\* Initially nobody is coming.
LEMMA ReadyInit == Init => ReadyInv
BY EmptyElements DEF Init, ReadyInv, NoSpuriousClose, Queued

\* No thread blocks in epoll_wait while coroutines wait in its own queue.
THEOREM NoneLeftBehind == Spec => []NoWorkLeftAtWait
<1>1. Init => TypeOK /\ HookFd /\ PlaceInv
  BY TypeInit, PlaceInit DEF Init, HookFd
<1>2. TypeOK /\ HookFd /\ PlaceInv /\ [Next]_vars => (TypeOK /\ HookFd /\ PlaceInv)'
  BY TypeStep, HookStep, PlaceStep
<1>3. PlaceInv => NoWorkLeftAtWait
  BY DEF PlaceInv, NoWorkLeftAtWait
<1> QED
  BY <1>1, <1>2, <1>3, PTL DEF Spec

\* A connection is closed only when its peer ended it: each coroutine that is
\* resumed finds its socket ready, so an empty second read is the end.
THEOREM NeverClosedEarly ==
    ASSUME ClientFds = {}
    PROVE  Spec => []NoSpuriousClose
<1> DEFINE Inv == IndInv /\ PlaceInv /\ ReadyInv
<1>1. Init => Inv
  BY InitInd, PlaceInit, ReadyInit
<1>2. Inv /\ [Next]_vars => Inv'
  BY IndStep, PlaceStep, ReadyStep DEF IndInv
<1>3. Inv => NoSpuriousClose
  BY DEF ReadyInv
<1> QED
  BY <1>1, <1>2, <1>3, PTL DEF Spec

\* Every wait has exactly one wake-up, when no handler sleeps or no peer
\* resets: with both, a hang-up that was reported before a sleeper of the same
\* turn registered its socket takes that registration away.
THEOREM OneWakeupEach ==
    ASSUME ClientFds = {}, ~(HandlersSleep /\ PeersReset)
    PROVE  Spec => []OneWakeup
<1> DEFINE Inv == IndInv /\ PlaceInv /\ HangInv /\ WakeInv
<1>1. Init => Inv
  BY InitInd, PlaceInit, HangInit, WakeInit
<1>2. Inv /\ [Next]_vars => Inv'
  BY IndStep, PlaceStep, HangStep, WakeStep DEF IndInv
<1>3. Inv => OneWakeup
  BY CountedOnce
<1> QED
  BY <1>1, <1>2, <1>3, PTL DEF Spec

=============================================================================
