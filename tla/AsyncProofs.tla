----------------------------- MODULE AsyncProofs -----------------------------
(* What asynchronous calls keep, for any number of calls and threads and    *)
(* any size of the coroutine pool, and what other threads hand to an IO     *)
(* thread, for any number of them.                                          *)
EXTENDS AsyncCall, IOThread, FiniteSetTheorems, SequenceTheorems, TLAPS

----------------------------------------------------------------------------
(* AsyncCall: the invariant.                                               *)

TaskKinds == {"resume", "callback"} \X Calls

\* The shape of the state without the count of what a thread runs.
CallTypes ==
    /\ faults \in AsyncFaults
    /\ used \in [Stacks -> BOOLEAN] /\ inCo \in [Stacks -> BOOLEAN] /\ fresh \in [Stacks -> BOOLEAN]
    /\ conn \in Stacks \cup {None} /\ open \in BOOLEAN
    /\ handler \in [Calls -> {"new", "begun", "called", "away", "again", "yield", "waiting", "back", "done", "torn",
                           "failed", "crashed"}]
    /\ handlerOn \in [Calls -> Threads \cup {None}] /\ origin \in [Calls -> Threads \cup {None}]
    /\ need \in [Calls -> BOOLEAN] /\ finished \in [Calls -> BOOLEAN]
    /\ holders \in [Calls -> SUBSET {"handler", "coroutine", "callback"}]
    /\ stack \in [Calls -> Stacks \cup {None}]
    /\ stage \in [Calls -> {"none", "queued", "started", "rpc", "answered", "posted", "dropped",
                            "leaving", "ended", "lost"}]
    /\ stageOn \in [Calls -> Threads \cup {None}]
    /\ tasks \in [Threads -> Seq(TaskKinds)]
    /\ inCallback \in [Threads -> Calls \cup {None}]

\* A thread runs one coroutine at a time.
OneRuns ==
    /\ \A h, k \in Calls : h # k /\ handlerOn[h] # None => handlerOn[h] # handlerOn[k]
    /\ \A h, k \in Calls : h # k /\ stageOn[h] # None => stageOn[h] # stageOn[k]
    /\ \A h, k \in Calls : handlerOn[h] # None => handlerOn[h] # stageOn[k]

\* What goes with each place a handler and a call's coroutine can be in.
PlaceInv ==
    \A h \in Calls :
        /\ handlerOn[h] # None <=> handler[h] \in {"begun", "called", "again", "yield", "back", "torn", "failed", "crashed"}
        /\ stageOn[h] # None <=> stage[h] \in {"started", "answered", "posted", "dropped", "leaving"}
        /\ handler[h] # "new" => origin[h] # None
        /\ stack[h] = None <=> handler[h] \in {"new", "begun", "failed", "crashed"}
        /\ stage[h] = "none" <=> handler[h] \in {"new", "begun", "failed", "crashed"}
        /\ handler[h] \in {"new", "begun", "called", "away", "again", "failed", "crashed"} => ~need[h]
        /\ need[h] /\ handler[h] \in {"back", "done"} => finished[h]

\* Who holds a channel.
HolderInv ==
    \A h \in Calls :
        /\ "handler" \in holders[h] <=> handler[h] \notin {"new", "done"}
        /\ "coroutine" \in holders[h] <=> stage[h] \in {"queued", "started", "rpc", "answered", "posted", "lost"}
        /\ "callback" \in holders[h] => stage[h] \in {"posted", "dropped", "leaving", "ended"}
        /\ finished[h] => \/ stage[h] \in {"posted", "dropped", "leaving", "ended"}
                          \/ handler[h] \in {"failed", "crashed"}

\* A task resumes a coroutine that was queued, or is a call-back that has not
\* run, on the thread where the channel was made.
PostedInv ==
    \A t \in Threads : \A i \in DOMAIN tasks[t] :
        LET h == tasks[t][i][2] IN
        /\ tasks[t][i][1] = "resume" => stage[h] = "queued"
        /\ tasks[t][i][1] = "callback" => t = origin[h] /\ ~finished[h] /\ "callback" \in holders[h]

\* No task is posted twice.
OnceInv ==
    \A t, u \in Threads : \A i \in DOMAIN tasks[t], j \in DOMAIN tasks[u] :
        tasks[t][i] = tasks[u][j] => t = u /\ i = j

\* A call-back that has not returned holds its channel.
CallbackInv ==
    \A t \in Threads : inCallback[t] # None =>
        LET h == inCallback[t] IN t = origin[h] /\ finished[h] /\ "callback" \in holders[h]

\* The stack of a channel that somebody holds is in use, for this call only.
OwnerInv ==
    /\ \A h, k \in Calls : h # k /\ holders[h] # {} /\ holders[k] # {} /\ stack[h] # None => stack[h] # stack[k]
    /\ \A h \in Calls : holders[h] # {} /\ stack[h] # None => used[stack[h]] /\ (open => stack[h] # conn)
    /\ open => conn # None /\ used[conn]

\* A stack in use is the open connection's or that of a channel somebody holds.
UsedInv ==
    \A s \in Stacks : used[s] /\ (~open \/ s # conn) => \E h \in Calls : stack[h] = s /\ holders[h] # {}

\* A coroutine in CoFunction is the connection's or that of a call under way.
InCoInv ==
    \A s \in Stacks : inCo[s] /\ s # conn =>
        \E h \in Calls : stack[h] = s /\ stage[h] \notin {"none", "queued", "leaving", "ended"}

\* Without preemption the call-back holds the channel until the coroutine has
\* yielded, and a queued coroutine has the context SetCallBack wrote.
UndisturbedInv ==
    "preempt" \notin faults =>
        \A h \in Calls :
            /\ stage[h] \in {"posted", "dropped", "leaving"} => "callback" \in holders[h]
            /\ stage[h] = "queued" => fresh[stack[h]]
            /\ stage[h] # "lost"

\* A handler that is not stolen stays on its thread.
StayInv ==
    "stolen" \notin faults =>
        \A h \in Calls : handler[h] # "torn" /\ handlerOn[h] \in {None, origin[h]}

\* All of it.
AsyncInv ==
    /\ CallTypes /\ OneRuns /\ PlaceInv /\ HolderInv
    /\ PostedInv /\ OnceInv /\ CallbackInv
    /\ OwnerInv /\ UsedInv /\ InCoInv
    /\ UndisturbedInv /\ StayInv

----------------------------------------------------------------------------
(* The pool, the tasks and the holders.                                    *)

\* The number of stacks is a number.
LEMMA StacksAre == \A s \in Stacks : s \in Nat
BY AsyncAssumption, FS_CardinalityType DEF Stacks

\* A coroutine that may be chosen is not in use, nor in CoFunction if it is one
\* of the pool's own.
LEMMA InstanceFree ==
    ASSUME CallTypes, NEW s \in Instance
    PROVE  s \in Stacks /\ ~used[s] /\ ~(inCo[s] /\ s <= PoolSize)
<1> DEFINE entries == {r \in 1 .. PoolSize : Free(r)}
<1>1. PoolSize \in Nat /\ Cardinality(Calls) \in Nat
  BY AsyncAssumption, FS_CardinalityType
<1>2. CASE entries # {}
  BY <1>1, <1>2 DEF Instance, First, Free, Stacks
<1>3. CASE entries = {}
  BY <1>1, <1>3 DEF Instance, GetBlock, First, Stacks
<1> QED
  BY <1>2, <1>3

\* What is posted is a task.
LEMMA TasksAre ==
    ASSUME CallTypes
    PROVE  \A t \in Threads : \A i \in DOMAIN tasks[t] :
              tasks[t][i][1] \in {"resume", "callback"} /\ tasks[t][i][2] \in Calls
<1> SUFFICES ASSUME NEW t \in Threads, NEW i \in DOMAIN tasks[t]
             PROVE  tasks[t][i][1] \in {"resume", "callback"} /\ tasks[t][i][2] \in Calls
  OBVIOUS
<1>1. tasks[t] \in Seq(TaskKinds)
  BY DEF CallTypes
<1>2. tasks[t][i] \in TaskKinds
  BY <1>1
<1> QED
  BY <1>2 DEF TaskKinds

\* A task is put behind the others of a thread.
LEMMA TaskPosted ==
    ASSUME NEW q \in [Threads -> Seq(TaskKinds)], NEW t \in Threads, NEW x \in TaskKinds,
           NEW r, r = [q EXCEPT ![t] = Append(@, x)]
    PROVE  /\ r \in [Threads -> Seq(TaskKinds)]
           /\ \A u \in Threads : \A i \in DOMAIN r[u] :
                 \/ i \in DOMAIN q[u] /\ r[u][i] = q[u][i]
                 \/ u = t /\ i = Len(q[t]) + 1 /\ r[u][i] = x
<1>1. /\ Append(q[t], x) \in Seq(TaskKinds) /\ Len(q[t]) \in Nat
      /\ DOMAIN q[t] = 1 .. Len(q[t]) /\ DOMAIN Append(q[t], x) = 1 .. (Len(q[t]) + 1)
      /\ \A i \in 1 .. Len(q[t]) : Append(q[t], x)[i] = q[t][i]
      /\ Append(q[t], x)[Len(q[t]) + 1] = x
  BY AppendProperties
<1>2. r[t] = Append(q[t], x) /\ \A u \in Threads : u # t => r[u] = q[u]
  OBVIOUS
<1>3. r \in [Threads -> Seq(TaskKinds)]
  BY <1>1
<1>4. ASSUME NEW i \in DOMAIN r[t]
      PROVE  (i \in DOMAIN q[t] /\ r[t][i] = q[t][i]) \/ (i = Len(q[t]) + 1 /\ r[t][i] = x)
  <2>1. i \in 1 .. Len(q[t]) \/ i = Len(q[t]) + 1
    BY <1>1, <1>2
  <2> QED
    BY <1>1, <1>2, <2>1
<1> QED
  BY <1>2, <1>3, <1>4

\* A thread takes its first task.
LEMMA TaskTaken ==
    ASSUME NEW q \in [Threads -> Seq(TaskKinds)], NEW t \in Threads, q[t] # <<>>,
           NEW r, r = [q EXCEPT ![t] = Tail(@)]
    PROVE  /\ r \in [Threads -> Seq(TaskKinds)]
           /\ 1 \in DOMAIN q[t] /\ Head(q[t]) = q[t][1] /\ q[t][1] \in TaskKinds
           /\ \A u \in Threads : \A i \in DOMAIN r[u] :
                 IF u = t THEN i + 1 \in DOMAIN q[t] /\ i + 1 # 1 /\ r[t][i] = q[t][i + 1]
                          ELSE i \in DOMAIN q[u] /\ r[u][i] = q[u][i]
<1>1. /\ Tail(q[t]) \in Seq(TaskKinds) /\ Len(q[t]) \in Nat \ {0} /\ Len(Tail(q[t])) = Len(q[t]) - 1
      /\ Head(q[t]) = q[t][1] /\ \A i \in 1 .. (Len(q[t]) - 1) : Tail(q[t])[i] = q[t][i + 1]
  BY HeadTailProperties
<1>2. /\ DOMAIN q[t] = 1 .. Len(q[t]) /\ DOMAIN Tail(q[t]) = 1 .. (Len(q[t]) - 1)
      /\ \A i \in 1 .. Len(q[t]) : q[t][i] \in TaskKinds
  BY <1>1
<1>3. r[t] = Tail(q[t]) /\ \A u \in Threads : u # t => r[u] = q[u]
  OBVIOUS
<1>4. r \in [Threads -> Seq(TaskKinds)]
  BY <1>1
<1>5. ASSUME NEW i \in DOMAIN r[t]
      PROVE  i + 1 \in DOMAIN q[t] /\ i + 1 # 1 /\ r[t][i] = q[t][i + 1]
  BY <1>1, <1>2, <1>3
<1> QED
  BY <1>1, <1>2, <1>3, <1>4, <1>5

\* The task that was taken is not there any more, the others were there before.
LEMMA NotTwice ==
    ASSUME CallTypes, OnceInv, NEW t \in Threads, tasks[t] # <<>>,
           tasks' = [tasks EXCEPT ![t] = Tail(@)]
    PROVE  /\ tasks' \in [Threads -> Seq(TaskKinds)] /\ OnceInv'
           /\ 1 \in DOMAIN tasks[t] /\ Head(tasks[t]) = tasks[t][1]
           /\ tasks[t][1] = <<tasks[t][1][1], tasks[t][1][2]>> /\ tasks[t][1][2] \in Calls
           /\ \A u \in Threads : \A i \in DOMAIN tasks'[u] :
                 /\ tasks'[u][i] \in TaskKinds
                 /\ tasks'[u][i] # tasks[t][1]
                 /\ \E j \in DOMAIN tasks[u] : tasks'[u][i] = tasks[u][j]
<1>1. /\ tasks' \in [Threads -> Seq(TaskKinds)]
      /\ 1 \in DOMAIN tasks[t] /\ Head(tasks[t]) = tasks[t][1] /\ tasks[t][1] \in TaskKinds
      /\ \A u \in Threads : \A i \in DOMAIN tasks'[u] :
            IF u = t THEN i + 1 \in DOMAIN tasks[t] /\ i + 1 # 1 /\ tasks'[t][i] = tasks[t][i + 1]
                     ELSE i \in DOMAIN tasks[u] /\ tasks'[u][i] = tasks[u][i]
  BY TaskTaken DEF CallTypes
<1>2. tasks[t][1] = <<tasks[t][1][1], tasks[t][1][2]>> /\ tasks[t][1][2] \in Calls
  BY <1>1 DEF TaskKinds
<1>3. OnceInv'
  BY <1>1 DEF OnceInv
<1>4. ASSUME NEW u \in Threads, NEW i \in DOMAIN tasks'[u]
      PROVE  /\ tasks'[u][i] \in TaskKinds
             /\ tasks'[u][i] # tasks[t][1]
             /\ \E j \in DOMAIN tasks[u] : tasks'[u][i] = tasks[u][j]
  <2>1. tasks'[u][i] \in TaskKinds
    <3>1. tasks'[u] \in Seq(TaskKinds)
      BY <1>1
    <3> QED
      BY <3>1
  <2>2. CASE u = t
    BY <1>1, <2>1, <2>2 DEF OnceInv
  <2>3. CASE u # t
    BY <1>1, <2>1, <2>3 DEF OnceInv
  <2> QED
    BY <2>2, <2>3
<1> QED
  BY <1>1, <1>2, <1>3, <1>4

\* Somebody lets go of a channel.
LEMMA LetGoes ==
    ASSUME CallTypes, OwnerInv, NEW h \in Calls, NEW who \in holders[h], stack[h] \in Stacks,
           LetGo(h, who), UNCHANGED <<stack, conn, open>>
    PROVE  /\ used' \in [Stacks -> BOOLEAN]
           /\ holders' \in [Calls -> SUBSET {"handler", "coroutine", "callback"}]
           /\ holders' = [holders EXCEPT ![h] = @ \ {who}]
           /\ \A k \in Calls : holders'[k] # {} => holders[k] # {}
           /\ OwnerInv'
<1>1. /\ holders' = [holders EXCEPT ![h] = @ \ {who}]
      /\ \A k \in Calls : k # h => holders'[k] = holders[k]
      /\ holders' \in [Calls -> SUBSET {"handler", "coroutine", "callback"}]
  BY DEF LetGo, CallTypes
<1>2. \A k \in Calls : holders'[k] # {} => holders[k] # {}
  BY <1>1
<1>3. /\ used' \in [Stacks -> BOOLEAN]
      /\ \A s \in Stacks : used[s] /\ ~used'[s] => s = stack[h] /\ holders'[h] = {}
  BY DEF LetGo, BackBlock, CallTypes
<1>4. stack[h] # None /\ holders[h] # {}
  BY AsyncAssumption, StacksAre
<1>5. ASSUME NEW k \in Calls, holders'[k] # {}, stack[k] # None
      PROVE  used'[stack[k]] /\ (open => stack[k] # conn)
  <2>1. stack[k] \in Stacks /\ used[stack[k]] /\ (open => stack[k] # conn)
    BY <1>2, <1>5 DEF OwnerInv, CallTypes
  <2>2. k # h => stack[k] # stack[h]
    BY <1>2, <1>4, <1>5 DEF OwnerInv
  <2> QED
    BY <1>3, <1>5, <2>1, <2>2
<1>6. open => conn # None /\ used'[conn]
  BY <1>3, <1>4 DEF OwnerInv, CallTypes
<1>7. OwnerInv'
  BY <1>2, <1>5, <1>6 DEF OwnerInv
<1> QED
  BY <1>1, <1>2, <1>3, <1>7

----------------------------------------------------------------------------
(* Every step keeps it.                                                    *)

\* A connection takes a coroutine.
LEMMA OpenConnectionKeeps ==
    ASSUME AsyncInv, OpenConnection
    PROVE  AsyncInv'
<1>1. conn = None /\ CallTypes
  BY DEF OpenConnection, AsyncInv
<1>2. PICK s \in Instance :
         /\ conn' = s
         /\ used' = [used EXCEPT ![s] = TRUE] /\ inCo' = [inCo EXCEPT ![s] = TRUE]
  BY DEF OpenConnection
<1>3. s \in Stacks /\ ~used[s] /\ s # None /\ \A x \in Stacks : x # None
  BY <1>1, InstanceFree, StacksAre, AsyncAssumption
<1>4. /\ \A x \in Stacks : used'[x] <=> (used[x] \/ x = s)
      /\ \A x \in Stacks : inCo'[x] => (inCo[x] \/ x = s)
      /\ used' \in [Stacks -> BOOLEAN] /\ inCo' \in [Stacks -> BOOLEAN]
  BY <1>1, <1>2, <1>3 DEF CallTypes
<1>5. open' /\ UNCHANGED <<faults, fresh, handlerVars, finished, holders, stack, stage, stageOn, tasks, inCallback>>
  BY DEF OpenConnection
<1>11. CallTypes'
  BY <1>1, <1>2, <1>3, <1>4, <1>5 DEF CallTypes, handlerVars
<1>12. OneRuns'
  BY AsyncAssumption DEF AsyncInv, CallTypes, OneRuns, PlaceInv, InLoop, OnMain, OpenConnection, poolVars, handlerVars
<1>13. PlaceInv'
  BY AsyncAssumption DEF AsyncInv, CallTypes, PlaceInv, PostedInv, HolderInv, OpenConnection, poolVars, handlerVars
<1>14. HolderInv'
  BY AsyncAssumption DEF AsyncInv, CallTypes, PlaceInv, HolderInv, PostedInv, OpenConnection, poolVars, handlerVars
<1>15. PostedInv'
  BY AsyncAssumption DEF AsyncInv, CallTypes, PlaceInv, HolderInv, PostedInv, OpenConnection, poolVars, handlerVars
<1>16. OnceInv'
  BY AsyncAssumption DEF AsyncInv, CallTypes, OnceInv, PostedInv, PlaceInv, OpenConnection, poolVars, handlerVars
<1>17. CallbackInv'
  BY AsyncAssumption DEF AsyncInv, CallTypes, CallbackInv, PostedInv, PlaceInv, HolderInv, OpenConnection, poolVars, handlerVars
<1>18. OwnerInv'
  BY <1>1, <1>2, <1>3, <1>4, <1>5 DEF AsyncInv, CallTypes, OwnerInv
<1>19. UsedInv'
  BY <1>1, <1>2, <1>3, <1>4, <1>5 DEF AsyncInv, UsedInv
<1>20. InCoInv'
  BY <1>1, <1>2, <1>3, <1>4, <1>5 DEF AsyncInv, InCoInv
<1>21. UndisturbedInv'
  BY AsyncAssumption DEF AsyncInv, CallTypes, PlaceInv, HolderInv, OwnerInv, UndisturbedInv, OneRuns, InLoop, OnMain, MayGo, OpenConnection, poolVars, handlerVars
<1>22. StayInv'
  BY AsyncAssumption DEF AsyncInv, CallTypes, PlaceInv, StayInv, PostedInv, InLoop, OnMain, OpenConnection, poolVars, handlerVars
<1> QED
  BY <1>11, <1>12, <1>13, <1>14, <1>15, <1>16, <1>17, <1>18, <1>19, <1>20, <1>21, <1>22 DEF AsyncInv

\* The connection gives it back.
LEMMA CloseConnectionKeeps ==
    ASSUME AsyncInv, CloseConnection
    PROVE  AsyncInv'
<1>1. CallTypes /\ OwnerInv /\ open
  BY DEF AsyncInv, CloseConnection
<1>2. conn \in Stacks /\ \A x \in Stacks : used'[x] <=> (used[x] /\ x # conn)
  BY <1>1 DEF CloseConnection, BackBlock, CallTypes, OwnerInv
<1>3. ~open' /\ UNCHANGED <<conn, handlerVars, holders, stack>>
  BY DEF CloseConnection
<1>11. CallTypes'
  BY AsyncAssumption DEF AsyncInv, CallTypes, Stacks, CloseConnection, poolVars, handlerVars, LetGo, BackBlock
<1>12. OneRuns'
  BY AsyncAssumption DEF AsyncInv, CallTypes, OneRuns, PlaceInv, InLoop, OnMain, CloseConnection, poolVars, handlerVars, LetGo, BackBlock
<1>13. PlaceInv'
  BY AsyncAssumption DEF AsyncInv, CallTypes, PlaceInv, PostedInv, HolderInv, CloseConnection, poolVars, handlerVars, LetGo, BackBlock
<1>14. HolderInv'
  BY AsyncAssumption DEF AsyncInv, CallTypes, PlaceInv, HolderInv, PostedInv, CloseConnection, poolVars, handlerVars, LetGo, BackBlock
<1>15. PostedInv'
  BY AsyncAssumption DEF AsyncInv, CallTypes, PlaceInv, HolderInv, PostedInv, CloseConnection, poolVars, handlerVars, LetGo, BackBlock
<1>16. OnceInv'
  BY AsyncAssumption DEF AsyncInv, CallTypes, OnceInv, PostedInv, PlaceInv, CloseConnection, poolVars, handlerVars, LetGo, BackBlock
<1>17. CallbackInv'
  BY AsyncAssumption DEF AsyncInv, CallTypes, CallbackInv, PostedInv, PlaceInv, HolderInv, CloseConnection, poolVars, handlerVars, LetGo, BackBlock
<1>18. OwnerInv'
  BY <1>1, <1>2, <1>3, StacksAre, AsyncAssumption DEF CallTypes, OwnerInv
<1>19. UsedInv'
  BY AsyncAssumption DEF AsyncInv, CallTypes, PlaceInv, HolderInv, OwnerInv, UsedInv, CloseConnection, poolVars, handlerVars, LetGo, BackBlock
<1>20. InCoInv'
  BY AsyncAssumption DEF AsyncInv, CallTypes, PlaceInv, InCoInv, CloseConnection, poolVars, handlerVars, LetGo, BackBlock
<1>21. UndisturbedInv'
  BY AsyncAssumption DEF AsyncInv, CallTypes, PlaceInv, HolderInv, OwnerInv, UndisturbedInv, OneRuns, InLoop, OnMain, MayGo, CloseConnection, poolVars, handlerVars, LetGo, BackBlock
<1>22. StayInv'
  BY AsyncAssumption DEF AsyncInv, CallTypes, PlaceInv, StayInv, PostedInv, InLoop, OnMain, CloseConnection, poolVars, handlerVars, LetGo, BackBlock
<1> QED
  BY <1>11, <1>12, <1>13, <1>14, <1>15, <1>16, <1>17, <1>18, <1>19, <1>20, <1>21, <1>22 DEF AsyncInv

\* A handler makes its channel.
LEMMA BeginKeeps ==
    ASSUME AsyncInv, NEW h \in Calls, NEW t \in Threads, Begin(h, t)
    PROVE  AsyncInv'
<1>1. CallTypes /\ stage[h] = "none" /\ stack[h] = None /\ holders[h] = {}
  <2>1. CallTypes /\ handler[h] = "new" /\ stage[h] = "none" /\ stack[h] = None
    BY DEF AsyncInv, Begin, PlaceInv
  <2>2. "handler" \notin holders[h] /\ "coroutine" \notin holders[h] /\ "callback" \notin holders[h]
    BY <2>1 DEF AsyncInv, HolderInv
  <2>3. holders[h] \subseteq {"handler", "coroutine", "callback"}
    BY <2>1 DEF CallTypes
  <2> QED
    BY <2>1, <2>2, <2>3
<1>2. /\ holders' = [holders EXCEPT ![h] = {"handler"}] /\ origin' = [origin EXCEPT ![h] = t]
      /\ UNCHANGED <<poolVars, finished, stack, stage, tasks, inCallback>>
  BY DEF Begin
<1>3. \A k \in Calls : k # h => holders'[k] = holders[k] /\ origin'[k] = origin[k]
  BY <1>1, <1>2 DEF CallTypes
<1>4. \A u \in Threads : inCallback[u] # h
  BY <1>1, AsyncAssumption DEF AsyncInv, CallbackInv
<1>5. \A u \in Threads : \A i \in DOMAIN tasks[u] :
        tasks[u][i][2] # h /\ tasks[u][i][2] \in Calls
  BY <1>1, TasksAre DEF AsyncInv, PostedInv
<1>11. CallTypes'
  BY AsyncAssumption DEF AsyncInv, CallTypes, Stacks, Begin, poolVars, handlerVars
<1>12. OneRuns'
  BY AsyncAssumption DEF AsyncInv, CallTypes, OneRuns, PlaceInv, InLoop, OnMain, Begin, poolVars, handlerVars
<1>13. PlaceInv'
  BY AsyncAssumption DEF AsyncInv, CallTypes, PlaceInv, PostedInv, HolderInv, Begin, poolVars, handlerVars
<1>14. HolderInv'
  BY AsyncAssumption DEF AsyncInv, CallTypes, PlaceInv, HolderInv, PostedInv, Begin, poolVars, handlerVars
<1>15. PostedInv'
  BY <1>2, <1>3, <1>5 DEF AsyncInv, PostedInv
<1>16. OnceInv'
  BY AsyncAssumption DEF AsyncInv, CallTypes, OnceInv, PostedInv, PlaceInv, Begin, poolVars, handlerVars
<1>17. CallbackInv'
  BY <1>1, <1>2, <1>3, <1>4 DEF AsyncInv, CallTypes, CallbackInv
<1>18. OwnerInv'
  BY <1>1, <1>2, <1>3 DEF AsyncInv, OwnerInv, poolVars
<1>19. UsedInv'
  BY AsyncAssumption DEF AsyncInv, CallTypes, PlaceInv, HolderInv, OwnerInv, UsedInv, Begin, poolVars, handlerVars
<1>20. InCoInv'
  BY AsyncAssumption DEF AsyncInv, CallTypes, PlaceInv, InCoInv, Begin, poolVars, handlerVars
<1>21. UndisturbedInv'
  BY AsyncAssumption DEF AsyncInv, CallTypes, PlaceInv, HolderInv, OwnerInv, UndisturbedInv, OneRuns, InLoop, OnMain, MayGo, Begin, poolVars, handlerVars
<1>22. StayInv'
  BY AsyncAssumption DEF AsyncInv, CallTypes, PlaceInv, StayInv, PostedInv, InLoop, OnMain, Begin, poolVars, handlerVars
<1> QED
  BY <1>11, <1>12, <1>13, <1>14, <1>15, <1>16, <1>17, <1>18, <1>19, <1>20, <1>21, <1>22 DEF AsyncInv

\* A coroutine is chosen and handed over.
LEMMA CallMethodKeeps ==
    ASSUME AsyncInv, NEW h \in Calls, CallMethod(h)
    PROVE  AsyncInv'
<1>1. /\ CallTypes /\ handler[h] = "begun" /\ stage[h] = "none" /\ stack[h] = None
      /\ "handler" \in holders[h]
  BY DEF AsyncInv, CallMethod, PlaceInv, HolderInv
<1>2. PICK s \in Instance, t \in OtherThread(handlerOn[h]) :
         /\ stack' = [stack EXCEPT ![h] = s]
         /\ used' = [used EXCEPT ![s] = TRUE]
         /\ inCo' = [inCo EXCEPT ![s] = @ /\ s <= PoolSize]
         /\ fresh' = IF inCo'[s] THEN fresh ELSE [fresh EXCEPT ![s] = TRUE]
         /\ tasks' = [tasks EXCEPT ![t] = Append(@, <<"resume", h>>)]
  BY DEF CallMethod
<1>3. /\ s \in Stacks /\ ~used[s] /\ s # None /\ \A x \in Stacks : x # None
      /\ t \in Threads
  <2>1. handlerOn[h] \in Threads
    BY <1>1 DEF AsyncInv, CallTypes, PlaceInv
  <2> QED
    BY <1>1, <2>1, InstanceFree, StacksAre, AsyncAssumption DEF OtherThread
<1>4. /\ used' \in [Stacks -> BOOLEAN] /\ \A x \in Stacks : used'[x] <=> (used[x] \/ x = s)
      /\ inCo' \in [Stacks -> BOOLEAN] /\ \A x \in Stacks : inCo'[x] <=> (inCo[x] /\ x # s)
      /\ fresh' \in [Stacks -> BOOLEAN] /\ \A x \in Stacks : fresh'[x] <=> (fresh[x] \/ x = s)
  <2>1. ~(inCo[s] /\ s <= PoolSize)
    BY <1>1, InstanceFree
  <2>2. /\ inCo' \in [Stacks -> BOOLEAN] /\ \A x \in Stacks : inCo'[x] <=> (inCo[x] /\ x # s)
    BY <1>1, <1>2, <1>3, <2>1 DEF CallTypes
  <2>3. fresh' = [fresh EXCEPT ![s] = TRUE]
    BY <1>2, <1>3, <2>2
  <2> QED
    BY <1>1, <1>2, <1>3, <2>2, <2>3 DEF CallTypes
<1>5. /\ tasks' \in [Threads -> Seq(TaskKinds)]
      /\ \A u \in Threads : \A i \in DOMAIN tasks'[u] :
            \/ i \in DOMAIN tasks[u] /\ tasks'[u][i] = tasks[u][i]
            \/ u = t /\ i = Len(tasks[t]) + 1 /\ tasks'[u][i] = <<"resume", h>>
  <2>1. <<"resume", h>> \in TaskKinds /\ tasks \in [Threads -> Seq(TaskKinds)]
    BY <1>1 DEF TaskKinds, CallTypes
  <2> QED
    BY <1>2, <1>3, <2>1, TaskPosted
<1>6. \A u \in Threads : \A i \in DOMAIN tasks[u] :
        /\ tasks[u][i][2] # h /\ tasks[u][i] # <<"resume", h>>
        /\ tasks[u][i][2] \in Calls
  BY <1>1, TasksAre DEF AsyncInv, PostedInv, HolderInv
<1>7. /\ stack' \in [Calls -> Stacks \cup {None}] /\ stack'[h] = s
      /\ \A k \in Calls : k # h => stack'[k] = stack[k] /\ stage'[k] = stage[k] /\ holders'[k] = holders[k]
      /\ stage'[h] = "queued" /\ holders'[h] = holders[h] \cup {"coroutine"}
  BY <1>1, <1>2, <1>3 DEF CallTypes, CallMethod
<1>8. UNCHANGED <<faults, conn, open, handlerOn, origin, need, finished, stageOn, inCallback>>
  BY DEF CallMethod
<1>11. CallTypes'
  <2>1. /\ holders' \in [Calls -> SUBSET {"handler", "coroutine", "callback"}]
        /\ stage' \in [Calls -> {"none", "queued", "started", "rpc", "answered", "posted", "dropped",
                                 "leaving", "ended", "lost"}]
        /\ handler' \in [Calls -> {"new", "begun", "called", "away", "again", "yield", "waiting", "back", "done", "torn",
                           "failed", "crashed"}]
    BY <1>1 DEF CallMethod, CallTypes
  <2> QED
    BY <1>1, <1>4, <1>5, <1>7, <1>8, <2>1 DEF CallTypes
<1>12. OneRuns'
  BY <1>8 DEF AsyncInv, OneRuns
<1>13. PlaceInv'
  <2>1. handler'[h] = "called" /\ \A k \in Calls : k # h => handler'[k] = handler[k]
    BY <1>1 DEF CallMethod, CallTypes
  <2> QED
    BY <1>1, <1>3, <1>7, <1>8, <2>1 DEF AsyncInv, PlaceInv
<1>14. HolderInv'
  <2>1. handler'[h] = "called" /\ \A k \in Calls : k # h => handler'[k] = handler[k]
    BY <1>1 DEF CallMethod, CallTypes
  <2> QED
    BY <1>1, <1>7, <1>8, <2>1 DEF AsyncInv, HolderInv
<1>15. PostedInv'
  <2> SUFFICES ASSUME NEW u \in Threads, NEW i \in DOMAIN tasks'[u]
               PROVE  /\ tasks'[u][i][1] = "resume" => stage'[tasks'[u][i][2]] = "queued"
                      /\ tasks'[u][i][1] = "callback" =>
                            /\ u = origin'[tasks'[u][i][2]] /\ ~finished'[tasks'[u][i][2]]
                            /\ "callback" \in holders'[tasks'[u][i][2]]
    BY DEF PostedInv
  <2>1. CASE i \in DOMAIN tasks[u] /\ tasks'[u][i] = tasks[u][i]
    BY <1>6, <1>7, <1>8, <2>1 DEF AsyncInv, PostedInv
  <2>2. CASE tasks'[u][i] = <<"resume", h>>
    BY <1>7, <2>2
  <2> QED
    BY <1>5, <2>1, <2>2
<1>16. OnceInv'
  BY <1>5, <1>6 DEF AsyncInv, OnceInv
<1>17. CallbackInv'
  BY <1>1, <1>7, <1>8 DEF AsyncInv, CallTypes, CallbackInv
<1>18. OwnerInv'
  <2>1. /\ \A k \in Calls : holders[k] # {} /\ stack[k] # None => used[stack[k]] /\ stack[k] # s
        /\ \A k \in Calls : stack[k] # None => stack[k] \in Stacks
    BY <1>1, <1>3 DEF AsyncInv, CallTypes, OwnerInv
  <2>2. open => s # conn /\ conn \in Stacks
    BY <1>1, <1>3 DEF AsyncInv, CallTypes, OwnerInv
  <2> QED
    BY <1>3, <1>4, <1>7, <1>8, <2>1, <2>2 DEF AsyncInv, OwnerInv
<1>19. UsedInv'
  BY <1>1, <1>3, <1>4, <1>7, <1>8 DEF AsyncInv, UsedInv
<1>20. InCoInv'
  BY <1>1, <1>4, <1>7, <1>8 DEF AsyncInv, InCoInv
<1>21. UndisturbedInv'
  <2>1. \A k \in Calls : stage[k] = "queued" => stack[k] \in Stacks
    BY <1>1 DEF AsyncInv, CallTypes, PlaceInv
  <2> QED
    BY <1>3, <1>4, <1>7, <1>8, <2>1 DEF AsyncInv, UndisturbedInv
<1>22. StayInv'
  BY AsyncAssumption DEF AsyncInv, CallTypes, PlaceInv, StayInv, PostedInv, InLoop, OnMain, CallMethod, poolVars, handlerVars, OtherThread
<1> QED
  BY <1>11, <1>12, <1>13, <1>14, <1>15, <1>16, <1>17, <1>18, <1>19, <1>20, <1>21, <1>22 DEF AsyncInv

\* A handler that has set no callee is not heard of again by tasks or call-backs.
LEMMA CallUnsetKeeps ==
    ASSUME AsyncInv, NEW h \in Calls, CallUnset(h)
    PROVE  AsyncInv'
<1>1. CallTypes'
  BY AsyncAssumption DEF AsyncInv, CallTypes, Stacks, CallUnset, poolVars, handlerVars
<1>2. OneRuns'
  BY AsyncAssumption DEF AsyncInv, CallTypes, OneRuns, PlaceInv, InLoop, OnMain, CallUnset, poolVars, handlerVars
<1>3. PlaceInv'
  BY AsyncAssumption DEF AsyncInv, CallTypes, PlaceInv, PostedInv, HolderInv, CallUnset, poolVars, handlerVars
<1>4. HolderInv'
  <2>1. /\ UNCHANGED <<holders, stage>>
        /\ \A k \in Calls : k # h => handler'[k] = handler[k] /\ finished'[k] = finished[k]
        /\ handler[h] = "begun" /\ handler'[h] = "failed"
    BY DEF AsyncInv, CallTypes, CallUnset
  <2> QED
    BY <2>1 DEF AsyncInv, HolderInv
<1>5. PostedInv'
  <2>1. /\ UNCHANGED <<holders, stage, tasks, origin>>
        /\ \A k \in Calls : k # h => finished'[k] = finished[k]
        /\ handler[h] = "begun"
    BY DEF AsyncInv, CallTypes, CallUnset
  <2>2. stage[h] = "none" /\ "callback" \notin holders[h]
    BY <2>1 DEF AsyncInv, PlaceInv, HolderInv
  <2>3. \A t \in Threads : \A i \in DOMAIN tasks[t] : tasks[t][i][2] \in Calls
    BY TasksAre DEF AsyncInv
  <2> QED
    BY <2>1, <2>2, <2>3 DEF AsyncInv, PostedInv
<1>6. OnceInv'
  BY AsyncAssumption DEF AsyncInv, CallTypes, OnceInv, PostedInv, PlaceInv, CallUnset, poolVars, handlerVars
<1>7. CallbackInv'
  BY AsyncAssumption DEF AsyncInv, CallTypes, CallbackInv, PostedInv, PlaceInv, HolderInv, CallUnset, poolVars, handlerVars
<1>8. OwnerInv'
  BY AsyncAssumption DEF AsyncInv, CallTypes, PlaceInv, HolderInv, OwnerInv, PostedInv, CallUnset, poolVars, handlerVars
<1>9. UsedInv'
  BY AsyncAssumption DEF AsyncInv, CallTypes, PlaceInv, HolderInv, OwnerInv, UsedInv, CallUnset, poolVars, handlerVars
<1>10. InCoInv'
  BY AsyncAssumption DEF AsyncInv, CallTypes, PlaceInv, InCoInv, CallUnset, poolVars, handlerVars
<1>11. UndisturbedInv'
  BY AsyncAssumption DEF AsyncInv, CallTypes, PlaceInv, HolderInv, OwnerInv, UndisturbedInv, OneRuns, InLoop, OnMain, MayGo, CallUnset, poolVars, handlerVars
<1>12. StayInv'
  BY AsyncAssumption DEF AsyncInv, CallTypes, PlaceInv, StayInv, PostedInv, InLoop, OnMain, CallUnset, poolVars, handlerVars
<1> QED
  BY <1>1, <1>2, <1>3, <1>4, <1>5, <1>6, <1>7, <1>8, <1>9, <1>10, <1>11, <1>12 DEF AsyncInv

\* Its channel ends the program.
LEMMA LetGoUnsetKeeps ==
    ASSUME AsyncInv, NEW h \in Calls, LetGoUnset(h)
    PROVE  AsyncInv'
<1>1. CallTypes'
  BY AsyncAssumption DEF AsyncInv, CallTypes, Stacks, LetGoUnset, poolVars, handlerVars
<1>2. OneRuns'
  BY AsyncAssumption DEF AsyncInv, CallTypes, OneRuns, PlaceInv, InLoop, OnMain, LetGoUnset, poolVars, handlerVars
<1>3. PlaceInv'
  BY AsyncAssumption DEF AsyncInv, CallTypes, PlaceInv, PostedInv, HolderInv, LetGoUnset, poolVars, handlerVars
<1>4. HolderInv'
  BY AsyncAssumption DEF AsyncInv, CallTypes, PlaceInv, HolderInv, PostedInv, LetGoUnset, poolVars, handlerVars
<1>5. PostedInv'
  BY AsyncAssumption DEF AsyncInv, CallTypes, PlaceInv, HolderInv, PostedInv, LetGoUnset, poolVars, handlerVars
<1>6. OnceInv'
  BY AsyncAssumption DEF AsyncInv, CallTypes, OnceInv, PostedInv, PlaceInv, LetGoUnset, poolVars, handlerVars
<1>7. CallbackInv'
  BY AsyncAssumption DEF AsyncInv, CallTypes, CallbackInv, PostedInv, PlaceInv, HolderInv, LetGoUnset, poolVars, handlerVars
<1>8. OwnerInv'
  BY AsyncAssumption DEF AsyncInv, CallTypes, PlaceInv, HolderInv, OwnerInv, PostedInv, LetGoUnset, poolVars, handlerVars
<1>9. UsedInv'
  BY AsyncAssumption DEF AsyncInv, CallTypes, PlaceInv, HolderInv, OwnerInv, UsedInv, LetGoUnset, poolVars, handlerVars
<1>10. InCoInv'
  BY AsyncAssumption DEF AsyncInv, CallTypes, PlaceInv, InCoInv, LetGoUnset, poolVars, handlerVars
<1>11. UndisturbedInv'
  BY AsyncAssumption DEF AsyncInv, CallTypes, PlaceInv, HolderInv, OwnerInv, UndisturbedInv, OneRuns, InLoop, OnMain, MayGo, LetGoUnset, poolVars, handlerVars
<1>12. StayInv'
  BY AsyncAssumption DEF AsyncInv, CallTypes, PlaceInv, StayInv, PostedInv, InLoop, OnMain, LetGoUnset, poolVars, handlerVars
<1> QED
  BY <1>1, <1>2, <1>3, <1>4, <1>5, <1>6, <1>7, <1>8, <1>9, <1>10, <1>11, <1>12 DEF AsyncInv

\* The handler waits for something else.
LEMMA PauseKeeps ==
    ASSUME AsyncInv, NEW h \in Calls, Pause(h)
    PROVE  AsyncInv'
<1>1. CallTypes'
  BY AsyncAssumption DEF AsyncInv, CallTypes, Stacks, Pause, poolVars, handlerVars
<1>2. OneRuns'
  BY AsyncAssumption DEF AsyncInv, CallTypes, OneRuns, PlaceInv, InLoop, OnMain, Pause, poolVars, handlerVars
<1>3. PlaceInv'
  BY AsyncAssumption DEF AsyncInv, CallTypes, PlaceInv, PostedInv, HolderInv, Pause, poolVars, handlerVars
<1>4. HolderInv'
  BY AsyncAssumption DEF AsyncInv, CallTypes, PlaceInv, HolderInv, PostedInv, Pause, poolVars, handlerVars
<1>5. PostedInv'
  BY AsyncAssumption DEF AsyncInv, CallTypes, PlaceInv, HolderInv, PostedInv, Pause, poolVars, handlerVars
<1>6. OnceInv'
  BY AsyncAssumption DEF AsyncInv, CallTypes, OnceInv, PostedInv, PlaceInv, Pause, poolVars, handlerVars
<1>7. CallbackInv'
  BY AsyncAssumption DEF AsyncInv, CallTypes, CallbackInv, PostedInv, PlaceInv, HolderInv, Pause, poolVars, handlerVars
<1>8. OwnerInv'
  BY AsyncAssumption DEF AsyncInv, CallTypes, PlaceInv, HolderInv, OwnerInv, PostedInv, Pause, poolVars, handlerVars
<1>9. UsedInv'
  BY AsyncAssumption DEF AsyncInv, CallTypes, PlaceInv, HolderInv, OwnerInv, UsedInv, Pause, poolVars, handlerVars
<1>10. InCoInv'
  BY AsyncAssumption DEF AsyncInv, CallTypes, PlaceInv, InCoInv, Pause, poolVars, handlerVars
<1>11. UndisturbedInv'
  BY AsyncAssumption DEF AsyncInv, CallTypes, PlaceInv, HolderInv, OwnerInv, UndisturbedInv, OneRuns, InLoop, OnMain, MayGo, Pause, poolVars, handlerVars
<1>12. StayInv'
  BY AsyncAssumption DEF AsyncInv, CallTypes, PlaceInv, StayInv, PostedInv, InLoop, OnMain, Pause, poolVars, handlerVars
<1> QED
  BY <1>1, <1>2, <1>3, <1>4, <1>5, <1>6, <1>7, <1>8, <1>9, <1>10, <1>11, <1>12 DEF AsyncInv

\* And goes on.
LEMMA ContinueKeeps ==
    ASSUME AsyncInv, NEW h \in Calls, NEW t \in Threads, Continue(h, t)
    PROVE  AsyncInv'
<1>1. CallTypes'
  BY AsyncAssumption DEF AsyncInv, CallTypes, Stacks, Continue, poolVars, handlerVars
<1>2. OneRuns'
  BY AsyncAssumption DEF AsyncInv, CallTypes, OneRuns, PlaceInv, InLoop, OnMain, Continue, poolVars, handlerVars
<1>3. PlaceInv'
  BY AsyncAssumption DEF AsyncInv, CallTypes, PlaceInv, PostedInv, HolderInv, Continue, poolVars, handlerVars
<1>4. HolderInv'
  BY AsyncAssumption DEF AsyncInv, CallTypes, PlaceInv, HolderInv, PostedInv, Continue, poolVars, handlerVars
<1>5. PostedInv'
  BY AsyncAssumption DEF AsyncInv, CallTypes, PlaceInv, HolderInv, PostedInv, Continue, poolVars, handlerVars
<1>6. OnceInv'
  BY AsyncAssumption DEF AsyncInv, CallTypes, OnceInv, PostedInv, PlaceInv, Continue, poolVars, handlerVars
<1>7. CallbackInv'
  BY AsyncAssumption DEF AsyncInv, CallTypes, CallbackInv, PostedInv, PlaceInv, HolderInv, Continue, poolVars, handlerVars
<1>8. OwnerInv'
  BY AsyncAssumption DEF AsyncInv, CallTypes, PlaceInv, HolderInv, OwnerInv, PostedInv, Continue, poolVars, handlerVars
<1>9. UsedInv'
  BY AsyncAssumption DEF AsyncInv, CallTypes, PlaceInv, HolderInv, OwnerInv, UsedInv, Continue, poolVars, handlerVars
<1>10. InCoInv'
  BY AsyncAssumption DEF AsyncInv, CallTypes, PlaceInv, InCoInv, Continue, poolVars, handlerVars
<1>11. UndisturbedInv'
  BY AsyncAssumption DEF AsyncInv, CallTypes, PlaceInv, HolderInv, OwnerInv, UndisturbedInv, OneRuns, InLoop, OnMain, MayGo, Continue, poolVars, handlerVars
<1>12. StayInv'
  BY AsyncAssumption DEF AsyncInv, CallTypes, PlaceInv, StayInv, PostedInv, InLoop, OnMain, Continue, poolVars, handlerVars
<1> QED
  BY <1>1, <1>2, <1>3, <1>4, <1>5, <1>6, <1>7, <1>8, <1>9, <1>10, <1>11, <1>12 DEF AsyncInv

\* The handler looks at finished.
LEMMA WaitKeeps ==
    ASSUME AsyncInv, NEW h \in Calls, Wait(h)
    PROVE  AsyncInv'
<1>1. CallTypes'
  BY AsyncAssumption DEF AsyncInv, CallTypes, Stacks, Wait, poolVars, handlerVars
<1>2. OneRuns'
  BY AsyncAssumption DEF AsyncInv, CallTypes, OneRuns, PlaceInv, InLoop, OnMain, Wait, poolVars, handlerVars
<1>3. PlaceInv'
  BY AsyncAssumption DEF AsyncInv, CallTypes, PlaceInv, PostedInv, HolderInv, Wait, poolVars, handlerVars
<1>4. HolderInv'
  BY AsyncAssumption DEF AsyncInv, CallTypes, PlaceInv, HolderInv, PostedInv, Wait, poolVars, handlerVars
<1>5. PostedInv'
  BY AsyncAssumption DEF AsyncInv, CallTypes, PlaceInv, HolderInv, PostedInv, Wait, poolVars, handlerVars
<1>6. OnceInv'
  BY AsyncAssumption DEF AsyncInv, CallTypes, OnceInv, PostedInv, PlaceInv, Wait, poolVars, handlerVars
<1>7. CallbackInv'
  BY AsyncAssumption DEF AsyncInv, CallTypes, CallbackInv, PostedInv, PlaceInv, HolderInv, Wait, poolVars, handlerVars
<1>8. OwnerInv'
  BY AsyncAssumption DEF AsyncInv, CallTypes, PlaceInv, HolderInv, OwnerInv, PostedInv, Wait, poolVars, handlerVars
<1>9. UsedInv'
  BY AsyncAssumption DEF AsyncInv, CallTypes, PlaceInv, HolderInv, OwnerInv, UsedInv, Wait, poolVars, handlerVars
<1>10. InCoInv'
  BY AsyncAssumption DEF AsyncInv, CallTypes, PlaceInv, InCoInv, Wait, poolVars, handlerVars
<1>11. UndisturbedInv'
  BY AsyncAssumption DEF AsyncInv, CallTypes, PlaceInv, HolderInv, OwnerInv, UndisturbedInv, OneRuns, InLoop, OnMain, MayGo, Wait, poolVars, handlerVars
<1>12. StayInv'
  BY AsyncAssumption DEF AsyncInv, CallTypes, PlaceInv, StayInv, PostedInv, InLoop, OnMain, Wait, poolVars, handlerVars
<1> QED
  BY <1>1, <1>2, <1>3, <1>4, <1>5, <1>6, <1>7, <1>8, <1>9, <1>10, <1>11, <1>12 DEF AsyncInv

\* And yields.
LEMMA YieldKeeps ==
    ASSUME AsyncInv, NEW h \in Calls, Yield(h)
    PROVE  AsyncInv'
<1>1. CallTypes'
  BY AsyncAssumption DEF AsyncInv, CallTypes, Stacks, Yield, poolVars, handlerVars
<1>2. OneRuns'
  BY AsyncAssumption DEF AsyncInv, CallTypes, OneRuns, PlaceInv, InLoop, OnMain, Yield, poolVars, handlerVars
<1>3. PlaceInv'
  BY AsyncAssumption DEF AsyncInv, CallTypes, PlaceInv, PostedInv, HolderInv, Yield, poolVars, handlerVars
<1>4. HolderInv'
  BY AsyncAssumption DEF AsyncInv, CallTypes, PlaceInv, HolderInv, PostedInv, Yield, poolVars, handlerVars
<1>5. PostedInv'
  BY AsyncAssumption DEF AsyncInv, CallTypes, PlaceInv, HolderInv, PostedInv, Yield, poolVars, handlerVars
<1>6. OnceInv'
  BY AsyncAssumption DEF AsyncInv, CallTypes, OnceInv, PostedInv, PlaceInv, Yield, poolVars, handlerVars
<1>7. CallbackInv'
  BY AsyncAssumption DEF AsyncInv, CallTypes, CallbackInv, PostedInv, PlaceInv, HolderInv, Yield, poolVars, handlerVars
<1>8. OwnerInv'
  BY AsyncAssumption DEF AsyncInv, CallTypes, PlaceInv, HolderInv, OwnerInv, PostedInv, Yield, poolVars, handlerVars
<1>9. UsedInv'
  BY AsyncAssumption DEF AsyncInv, CallTypes, PlaceInv, HolderInv, OwnerInv, UsedInv, Yield, poolVars, handlerVars
<1>10. InCoInv'
  BY AsyncAssumption DEF AsyncInv, CallTypes, PlaceInv, InCoInv, Yield, poolVars, handlerVars
<1>11. UndisturbedInv'
  BY AsyncAssumption DEF AsyncInv, CallTypes, PlaceInv, HolderInv, OwnerInv, UndisturbedInv, OneRuns, InLoop, OnMain, MayGo, Yield, poolVars, handlerVars
<1>12. StayInv'
  BY AsyncAssumption DEF AsyncInv, CallTypes, PlaceInv, StayInv, PostedInv, InLoop, OnMain, Yield, poolVars, handlerVars
<1> QED
  BY <1>1, <1>2, <1>3, <1>4, <1>5, <1>6, <1>7, <1>8, <1>9, <1>10, <1>11, <1>12 DEF AsyncInv

\* The handler ends.
LEMMA ReturnKeeps ==
    ASSUME AsyncInv, NEW h \in Calls, Return(h)
    PROVE  AsyncInv'
<1>1. CallTypes /\ OwnerInv
  BY DEF AsyncInv
<1>2. "handler" \in holders[h] /\ stack[h] \in Stacks
  BY <1>1 DEF AsyncInv, Return, CallTypes, PlaceInv, HolderInv
<1>11. CallTypes'
  BY AsyncAssumption DEF AsyncInv, CallTypes, Stacks, Return, poolVars, handlerVars, LetGo, BackBlock
<1>12. OneRuns'
  BY AsyncAssumption DEF AsyncInv, CallTypes, OneRuns, PlaceInv, InLoop, OnMain, Return, poolVars, handlerVars, LetGo, BackBlock
<1>13. PlaceInv'
  BY AsyncAssumption DEF AsyncInv, CallTypes, PlaceInv, PostedInv, HolderInv, Return, poolVars, handlerVars, LetGo, BackBlock
<1>14. HolderInv'
  BY AsyncAssumption DEF AsyncInv, CallTypes, PlaceInv, HolderInv, PostedInv, Return, poolVars, handlerVars, LetGo, BackBlock
<1>15. PostedInv'
  BY AsyncAssumption DEF AsyncInv, CallTypes, PlaceInv, HolderInv, PostedInv, Return, poolVars, handlerVars, LetGo, BackBlock
<1>16. OnceInv'
  BY AsyncAssumption DEF AsyncInv, CallTypes, OnceInv, PostedInv, PlaceInv, Return, poolVars, handlerVars, LetGo, BackBlock
<1>17. CallbackInv'
  BY AsyncAssumption DEF AsyncInv, CallTypes, CallbackInv, PostedInv, PlaceInv, HolderInv, Return, poolVars, handlerVars, LetGo, BackBlock
<1>18. OwnerInv'
  BY <1>1, <1>2, LetGoes DEF Return
<1>19. UsedInv'
  BY AsyncAssumption DEF AsyncInv, CallTypes, PlaceInv, HolderInv, OwnerInv, UsedInv, Return, poolVars, handlerVars, LetGo, BackBlock
<1>20. InCoInv'
  BY AsyncAssumption DEF AsyncInv, CallTypes, PlaceInv, InCoInv, Return, poolVars, handlerVars, LetGo, BackBlock
<1>21. UndisturbedInv'
  BY AsyncAssumption DEF AsyncInv, CallTypes, PlaceInv, HolderInv, OwnerInv, UndisturbedInv, OneRuns, InLoop, OnMain, MayGo, Return, poolVars, handlerVars, LetGo, BackBlock
<1>22. StayInv'
  BY AsyncAssumption DEF AsyncInv, CallTypes, PlaceInv, StayInv, PostedInv, InLoop, OnMain, Return, poolVars, handlerVars, LetGo, BackBlock
<1> QED
  BY <1>11, <1>12, <1>13, <1>14, <1>15, <1>16, <1>17, <1>18, <1>19, <1>20, <1>21, <1>22 DEF AsyncInv

\* A task resumes the coroutine.
LEMMA RunResumeKeeps ==
    ASSUME AsyncInv, NEW t \in Threads, RunResume(t)
    PROVE  AsyncInv'
<1>1. CallTypes /\ OnceInv /\ tasks[t] # <<>> /\ tasks' = [tasks EXCEPT ![t] = Tail(@)]
  BY DEF AsyncInv, RunResume
<1>2. /\ tasks' \in [Threads -> Seq(TaskKinds)] /\ OnceInv'
      /\ 1 \in DOMAIN tasks[t] /\ Head(tasks[t]) = tasks[t][1]
      /\ tasks[t][1] = <<tasks[t][1][1], tasks[t][1][2]>> /\ tasks[t][1][2] \in Calls
      /\ \A u \in Threads : \A i \in DOMAIN tasks'[u] :
            /\ tasks'[u][i] \in TaskKinds
            /\ tasks'[u][i] # tasks[t][1]
            /\ \E j \in DOMAIN tasks[u] : tasks'[u][i] = tasks[u][j]
  BY <1>1, NotTwice
<1> DEFINE h == tasks[t][1][2]
<1>3. /\ h \in Calls /\ tasks[t][1] = <<"resume", h>> /\ Head(tasks[t])[2] = h
      /\ stage[h] = "queued"
  BY <1>2 DEF RunResume, AsyncInv, PostedInv
<1>4. /\ stack[h] \in Stacks /\ stageOn[h] = None /\ "coroutine" \in holders[h]
  <2>1. handler[h] \notin {"new", "begun", "failed", "crashed"} /\ stageOn[h] = None
    BY <1>1, <1>3 DEF AsyncInv, CallTypes, PlaceInv
  <2>2. stack[h] # None /\ stack[h] \in Stacks \cup {None}
    BY <1>1, <1>3, <2>1 DEF AsyncInv, CallTypes, PlaceInv
  <2>3. "coroutine" \in holders[h]
    BY <1>3 DEF AsyncInv, HolderInv
  <2> QED
    BY <2>1, <2>2, <2>3
<1>5. /\ \A u \in Threads : \A i \in DOMAIN tasks'[u] :
            /\ tasks'[u][i][2] \in Calls
            /\ tasks'[u][i][1] = "resume" => tasks'[u][i][2] # h
            /\ \E j \in DOMAIN tasks[u] : tasks'[u][i] = tasks[u][j]
  <2> SUFFICES ASSUME NEW u \in Threads, NEW i \in DOMAIN tasks'[u]
               PROVE  /\ tasks'[u][i][2] \in Calls
                      /\ tasks'[u][i][1] = "resume" => tasks'[u][i][2] # h
    BY <1>2
  <2>1. tasks'[u][i] \in TaskKinds /\ tasks'[u][i] # <<"resume", h>>
    <3>1. tasks'[u][i] \in TaskKinds /\ tasks'[u][i] # tasks[t][1]
      BY <1>2
    <3> QED
      BY <1>3, <3>1
  <2> QED
    BY <2>1 DEF TaskKinds
<1>6. \/ /\ fresh[stack[h]]
         /\ stage' = [stage EXCEPT ![h] = "started"] /\ stageOn' = [stageOn EXCEPT ![h] = t]
         /\ inCo' = [inCo EXCEPT ![stack[h]] = TRUE] /\ fresh' = [fresh EXCEPT ![stack[h]] = FALSE]
      \/ /\ ~fresh[stack[h]]
         /\ stage' = [stage EXCEPT ![h] = "lost"] /\ UNCHANGED <<stageOn, inCo, fresh>>
  BY <1>3 DEF RunResume
<1>7. UNCHANGED <<faults, used, conn, open, handlerVars, finished, holders, stack, inCallback>>
  BY DEF RunResume
<1>8. /\ \A k \in Calls : k # h => stage'[k] = stage[k] /\ stageOn'[k] = stageOn[k]
      /\ \/ stage'[h] = "started" /\ stageOn'[h] = t /\ fresh[stack[h]]
         \/ stage'[h] = "lost" /\ stageOn'[h] = None /\ ~fresh[stack[h]]
      /\ stage' \in [Calls -> {"none", "queued", "started", "rpc", "answered", "posted", "dropped",
                               "leaving", "ended", "lost"}]
      /\ stageOn' \in [Calls -> Threads \cup {None}]
  <2>1. CASE fresh[stack[h]]
    <3>1. stage' = [stage EXCEPT ![h] = "started"] /\ stageOn' = [stageOn EXCEPT ![h] = t]
      BY <1>6, <2>1
    <3> HIDE DEF h
    <3> QED
      BY <1>1, <1>3, <2>1, <3>1 DEF CallTypes
  <2>2. CASE ~fresh[stack[h]]
    <3>1. stage' = [stage EXCEPT ![h] = "lost"] /\ stageOn' = stageOn
      BY <1>6, <2>2
    <3> HIDE DEF h
    <3> QED
      BY <1>1, <1>3, <1>4, <2>2, <3>1 DEF CallTypes
  <2> QED
    BY <2>1, <2>2
<1>9. /\ fresh' \in [Stacks -> BOOLEAN] /\ inCo' \in [Stacks -> BOOLEAN]
      /\ \A x \in Stacks : x # stack[h] => fresh'[x] = fresh[x] /\ inCo'[x] = inCo[x]
      /\ inCo'[stack[h]] => inCo[stack[h]] \/ stage'[h] = "started"
  BY ZenonT(40), <1>1, <1>3, <1>4, <1>6, <1>8 DEF CallTypes
<1>10. handlerOn[h] \in Threads \cup {None} /\ \A k \in Calls : handlerOn[k] # t /\ stageOn[k] # t
  BY <1>1, <1>3 DEF RunResume, InLoop, OnMain, CallTypes
<1> HIDE DEF h
<1>11. CallTypes'
  BY <1>1, <1>2, <1>7, <1>8, <1>9 DEF CallTypes, handlerVars
<1>12. OneRuns'
  <2>1. t # None
    BY AsyncAssumption
  <2> QED
    BY <1>3, <1>7, <1>8, <1>10, <2>1 DEF AsyncInv, OneRuns, handlerVars
<1>13. PlaceInv'
  BY <1>3, <1>4, <1>7, <1>8, AsyncAssumption DEF AsyncInv, PlaceInv, handlerVars
<1>14. HolderInv'
  BY <1>3, <1>4, <1>7, <1>8 DEF AsyncInv, HolderInv, handlerVars
<1>15. PostedInv'
  <2> SUFFICES ASSUME NEW u \in Threads, NEW i \in DOMAIN tasks'[u]
               PROVE  /\ tasks'[u][i][1] = "resume" => stage'[tasks'[u][i][2]] = "queued"
                      /\ tasks'[u][i][1] = "callback" =>
                            /\ u = origin'[tasks'[u][i][2]] /\ ~finished'[tasks'[u][i][2]]
                            /\ "callback" \in holders'[tasks'[u][i][2]]
    BY DEF PostedInv
  <2>1. PICK j \in DOMAIN tasks[u] : tasks'[u][i] = tasks[u][j]
    BY <1>5
  <2> QED
    BY <1>5, <1>7, <1>8, <2>1 DEF AsyncInv, PostedInv, handlerVars
<1>16. OnceInv'
  BY <1>2
<1>17. CallbackInv'
  BY <1>7 DEF AsyncInv, CallbackInv, handlerVars
<1>18. OwnerInv'
  BY <1>7 DEF AsyncInv, OwnerInv
<1>19. UsedInv'
  BY <1>7 DEF AsyncInv, UsedInv
<1>20. InCoInv'
  <2> SUFFICES ASSUME NEW x \in Stacks, inCo'[x], x # conn
               PROVE  \E k \in Calls : stack[k] = x /\ stage'[k] \notin {"none", "queued", "leaving", "ended"}
    BY <1>7 DEF InCoInv
  <2>1. CASE inCo[x]
    <3>1. PICK k \in Calls : stack[k] = x /\ stage[k] \notin {"none", "queued", "leaving", "ended"}
      BY <2>1 DEF AsyncInv, InCoInv
    <3> QED
      BY <1>3, <1>8, <3>1
  <2>2. CASE ~inCo[x]
    BY <1>3, <1>8, <1>9, <2>2
  <2> QED
    BY <2>1, <2>2
<1>21. UndisturbedInv'
  <2> SUFFICES ASSUME "preempt" \notin faults, NEW k \in Calls
               PROVE  /\ stage'[k] \in {"posted", "dropped", "leaving"} => "callback" \in holders[k]
                      /\ stage'[k] = "queued" => fresh'[stack[k]]
                      /\ stage'[k] # "lost"
    BY <1>7 DEF UndisturbedInv
  <2>1. fresh[stack[h]] /\ (stage[k] = "queued" => fresh[stack[k]]) /\ stage[k] # "lost"
    BY <1>3 DEF AsyncInv, UndisturbedInv
  <2>2. CASE k = h
    BY <1>8, <2>1, <2>2
  <2>3. CASE k # h /\ stage[k] = "queued"
    <3>1. "coroutine" \in holders[k] /\ stack[k] \in Stacks
      BY <1>1, <2>3 DEF AsyncInv, CallTypes, PlaceInv, HolderInv
    <3>2. stack[h] # stack[k]
      BY <1>3, <1>4, <2>3, <3>1, StacksAre, AsyncAssumption DEF AsyncInv, OwnerInv
    <3> QED
      BY <1>8, <1>9, <2>1, <2>3, <3>1, <3>2
  <2>4. CASE k # h /\ stage[k] # "queued"
    BY <1>8, <2>1, <2>4 DEF AsyncInv, UndisturbedInv
  <2> QED
    BY <2>2, <2>3, <2>4
<1>22. StayInv'
  BY <1>7 DEF AsyncInv, StayInv, handlerVars
<1> QED
  BY <1>11, <1>12, <1>13, <1>14, <1>15, <1>16, <1>17, <1>18, <1>19, <1>20, <1>21, <1>22 DEF AsyncInv

\* The coroutine waits for the answer.
LEMMA SuspendKeeps ==
    ASSUME AsyncInv, NEW h \in Calls, Suspend(h)
    PROVE  AsyncInv'
<1>1. CallTypes'
  BY AsyncAssumption DEF AsyncInv, CallTypes, Stacks, Suspend, poolVars, handlerVars
<1>2. OneRuns'
  BY AsyncAssumption DEF AsyncInv, CallTypes, OneRuns, PlaceInv, InLoop, OnMain, Suspend, poolVars, handlerVars
<1>3. PlaceInv'
  BY AsyncAssumption DEF AsyncInv, CallTypes, PlaceInv, PostedInv, HolderInv, Suspend, poolVars, handlerVars
<1>4. HolderInv'
  BY AsyncAssumption DEF AsyncInv, CallTypes, PlaceInv, HolderInv, PostedInv, Suspend, poolVars, handlerVars
<1>5. PostedInv'
  BY AsyncAssumption DEF AsyncInv, CallTypes, PlaceInv, HolderInv, PostedInv, Suspend, poolVars, handlerVars
<1>6. OnceInv'
  BY AsyncAssumption DEF AsyncInv, CallTypes, OnceInv, PostedInv, PlaceInv, Suspend, poolVars, handlerVars
<1>7. CallbackInv'
  BY AsyncAssumption DEF AsyncInv, CallTypes, CallbackInv, PostedInv, PlaceInv, HolderInv, Suspend, poolVars, handlerVars
<1>8. OwnerInv'
  BY AsyncAssumption DEF AsyncInv, CallTypes, PlaceInv, HolderInv, OwnerInv, PostedInv, Suspend, poolVars, handlerVars
<1>9. UsedInv'
  BY AsyncAssumption DEF AsyncInv, CallTypes, PlaceInv, HolderInv, OwnerInv, UsedInv, Suspend, poolVars, handlerVars
<1>10. InCoInv'
  BY AsyncAssumption DEF AsyncInv, CallTypes, PlaceInv, InCoInv, Suspend, poolVars, handlerVars
<1>11. UndisturbedInv'
  BY AsyncAssumption DEF AsyncInv, CallTypes, PlaceInv, HolderInv, OwnerInv, UndisturbedInv, OneRuns, InLoop, OnMain, MayGo, Suspend, poolVars, handlerVars
<1>12. StayInv'
  BY AsyncAssumption DEF AsyncInv, CallTypes, PlaceInv, StayInv, PostedInv, InLoop, OnMain, Suspend, poolVars, handlerVars
<1> QED
  BY <1>1, <1>2, <1>3, <1>4, <1>5, <1>6, <1>7, <1>8, <1>9, <1>10, <1>11, <1>12 DEF AsyncInv

\* The answer comes.
LEMMA AnsweredKeeps ==
    ASSUME AsyncInv, NEW h \in Calls, NEW t \in Threads, Answered(h, t)
    PROVE  AsyncInv'
<1>1. CallTypes'
  BY AsyncAssumption DEF AsyncInv, CallTypes, Stacks, Answered, poolVars, handlerVars
<1>2. OneRuns'
  BY AsyncAssumption DEF AsyncInv, CallTypes, OneRuns, PlaceInv, InLoop, OnMain, Answered, poolVars, handlerVars
<1>3. PlaceInv'
  BY AsyncAssumption DEF AsyncInv, CallTypes, PlaceInv, PostedInv, HolderInv, Answered, poolVars, handlerVars
<1>4. HolderInv'
  BY AsyncAssumption DEF AsyncInv, CallTypes, PlaceInv, HolderInv, PostedInv, Answered, poolVars, handlerVars
<1>5. PostedInv'
  BY AsyncAssumption DEF AsyncInv, CallTypes, PlaceInv, HolderInv, PostedInv, Answered, poolVars, handlerVars
<1>6. OnceInv'
  BY AsyncAssumption DEF AsyncInv, CallTypes, OnceInv, PostedInv, PlaceInv, Answered, poolVars, handlerVars
<1>7. CallbackInv'
  BY AsyncAssumption DEF AsyncInv, CallTypes, CallbackInv, PostedInv, PlaceInv, HolderInv, Answered, poolVars, handlerVars
<1>8. OwnerInv'
  BY AsyncAssumption DEF AsyncInv, CallTypes, PlaceInv, HolderInv, OwnerInv, PostedInv, Answered, poolVars, handlerVars
<1>9. UsedInv'
  BY AsyncAssumption DEF AsyncInv, CallTypes, PlaceInv, HolderInv, OwnerInv, UsedInv, Answered, poolVars, handlerVars
<1>10. InCoInv'
  BY AsyncAssumption DEF AsyncInv, CallTypes, PlaceInv, InCoInv, Answered, poolVars, handlerVars
<1>11. UndisturbedInv'
  BY AsyncAssumption DEF AsyncInv, CallTypes, PlaceInv, HolderInv, OwnerInv, UndisturbedInv, OneRuns, InLoop, OnMain, MayGo, Answered, poolVars, handlerVars
<1>12. StayInv'
  BY AsyncAssumption DEF AsyncInv, CallTypes, PlaceInv, StayInv, PostedInv, InLoop, OnMain, Answered, poolVars, handlerVars
<1> QED
  BY <1>1, <1>2, <1>3, <1>4, <1>5, <1>6, <1>7, <1>8, <1>9, <1>10, <1>11, <1>12 DEF AsyncInv

\* The call-back is posted.
LEMMA PostKeeps ==
    ASSUME AsyncInv, NEW h \in Calls, Post(h)
    PROVE  AsyncInv'
<1>1. CallTypes /\ stage[h] = "answered" /\ origin[h] \in Threads
  BY DEF AsyncInv, Post, CallTypes, PlaceInv
<1>2. "coroutine" \in holders[h] /\ "callback" \notin holders[h] /\ ~finished[h] /\ stack[h] \in Stacks
  BY <1>1 DEF AsyncInv, CallTypes, PlaceInv, HolderInv
<1>3. tasks' = [tasks EXCEPT ![origin[h]] = Append(@, <<"callback", h>>)]
  BY DEF Post
<1>4. /\ tasks' \in [Threads -> Seq(TaskKinds)]
      /\ \A u \in Threads : \A i \in DOMAIN tasks'[u] :
            \/ i \in DOMAIN tasks[u] /\ tasks'[u][i] = tasks[u][i]
            \/ u = origin[h] /\ i = Len(tasks[origin[h]]) + 1 /\ tasks'[u][i] = <<"callback", h>>
  <2>1. <<"callback", h>> \in TaskKinds /\ tasks \in [Threads -> Seq(TaskKinds)]
    BY <1>1 DEF TaskKinds, CallTypes
  <2> QED
    BY <1>1, <1>3, <2>1, TaskPosted
<1>5. \A u \in Threads : \A i \in DOMAIN tasks[u] :
        /\ tasks[u][i][2] # h /\ tasks[u][i] # <<"callback", h>>
        /\ tasks[u][i][2] \in Calls
  BY <1>1, <1>2, TasksAre DEF AsyncInv, PostedInv
<1>6. /\ holders'[h] = holders[h] \cup {"callback"} /\ stage'[h] = "posted"
      /\ \A k \in Calls : k # h => stage'[k] = stage[k] /\ holders'[k] = holders[k]
      /\ holders' \in [Calls -> SUBSET {"handler", "coroutine", "callback"}]
      /\ stage' \in [Calls -> {"none", "queued", "started", "rpc", "answered", "posted", "dropped",
                               "leaving", "ended", "lost"}]
  BY <1>1 DEF CallTypes, Post
<1>7. UNCHANGED <<faults, poolVars, handlerVars, finished, stack, stageOn, inCallback>>
  BY DEF Post
<1>11. CallTypes'
  BY <1>1, <1>4, <1>6, <1>7 DEF CallTypes, poolVars, handlerVars
<1>12. OneRuns'
  BY AsyncAssumption DEF AsyncInv, CallTypes, OneRuns, PlaceInv, InLoop, OnMain, Post, poolVars, handlerVars
<1>13. PlaceInv'
  BY AsyncAssumption DEF AsyncInv, CallTypes, PlaceInv, PostedInv, HolderInv, Post, poolVars, handlerVars
<1>14. HolderInv'
  BY AsyncAssumption DEF AsyncInv, CallTypes, PlaceInv, HolderInv, PostedInv, Post, poolVars, handlerVars
<1>15. PostedInv'
  <2> SUFFICES ASSUME NEW u \in Threads, NEW i \in DOMAIN tasks'[u]
               PROVE  /\ tasks'[u][i][1] = "resume" => stage'[tasks'[u][i][2]] = "queued"
                      /\ tasks'[u][i][1] = "callback" =>
                            /\ u = origin'[tasks'[u][i][2]] /\ ~finished'[tasks'[u][i][2]]
                            /\ "callback" \in holders'[tasks'[u][i][2]]
    BY DEF PostedInv
  <2>1. CASE i \in DOMAIN tasks[u] /\ tasks'[u][i] = tasks[u][i]
    BY <1>5, <1>6, <1>7, <2>1 DEF AsyncInv, PostedInv, handlerVars
  <2>2. CASE tasks'[u][i] = <<"callback", h>>
    BY <1>2, <1>4, <1>5, <1>6, <1>7, <2>2 DEF handlerVars
  <2> QED
    BY <1>4, <2>1, <2>2
<1>16. OnceInv'
  BY <1>4, <1>5 DEF AsyncInv, OnceInv
<1>17. CallbackInv'
  BY AsyncAssumption DEF AsyncInv, CallTypes, CallbackInv, PostedInv, PlaceInv, HolderInv, Post, poolVars, handlerVars
<1>18. OwnerInv'
  BY <1>2, <1>6, <1>7 DEF AsyncInv, OwnerInv, poolVars
<1>19. UsedInv'
  BY AsyncAssumption DEF AsyncInv, CallTypes, PlaceInv, HolderInv, OwnerInv, UsedInv, Post, poolVars, handlerVars
<1>20. InCoInv'
  BY AsyncAssumption DEF AsyncInv, CallTypes, PlaceInv, InCoInv, Post, poolVars, handlerVars
<1>21. UndisturbedInv'
  BY AsyncAssumption DEF AsyncInv, CallTypes, PlaceInv, HolderInv, OwnerInv, UndisturbedInv, OneRuns, InLoop, OnMain, MayGo, Post, poolVars, handlerVars
<1>22. StayInv'
  BY AsyncAssumption DEF AsyncInv, CallTypes, PlaceInv, StayInv, PostedInv, InLoop, OnMain, Post, poolVars, handlerVars
<1> QED
  BY <1>11, <1>12, <1>13, <1>14, <1>15, <1>16, <1>17, <1>18, <1>19, <1>20, <1>21, <1>22 DEF AsyncInv

\* The coroutine lets go of the channel.
LEMMA ResetKeeps ==
    ASSUME AsyncInv, NEW h \in Calls, Reset(h)
    PROVE  AsyncInv'
<1>1. CallTypes /\ OwnerInv
  BY DEF AsyncInv
<1>2. "coroutine" \in holders[h] /\ stack[h] \in Stacks
  BY <1>1 DEF AsyncInv, Reset, CallTypes, PlaceInv, HolderInv
<1>11. CallTypes'
  BY AsyncAssumption DEF AsyncInv, CallTypes, Stacks, Reset, poolVars, handlerVars, LetGo, BackBlock
<1>12. OneRuns'
  BY AsyncAssumption DEF AsyncInv, CallTypes, OneRuns, PlaceInv, InLoop, OnMain, Reset, poolVars, handlerVars, LetGo, BackBlock
<1>13. PlaceInv'
  BY AsyncAssumption DEF AsyncInv, CallTypes, PlaceInv, PostedInv, HolderInv, Reset, poolVars, handlerVars, LetGo, BackBlock
<1>14. HolderInv'
  BY AsyncAssumption DEF AsyncInv, CallTypes, PlaceInv, HolderInv, PostedInv, Reset, poolVars, handlerVars, LetGo, BackBlock
<1>15. PostedInv'
  BY AsyncAssumption DEF AsyncInv, CallTypes, PlaceInv, HolderInv, PostedInv, Reset, poolVars, handlerVars, LetGo, BackBlock
<1>16. OnceInv'
  BY AsyncAssumption DEF AsyncInv, CallTypes, OnceInv, PostedInv, PlaceInv, Reset, poolVars, handlerVars, LetGo, BackBlock
<1>17. CallbackInv'
  BY AsyncAssumption DEF AsyncInv, CallTypes, CallbackInv, PostedInv, PlaceInv, HolderInv, Reset, poolVars, handlerVars, LetGo, BackBlock
<1>18. OwnerInv'
  BY <1>1, <1>2, LetGoes DEF Reset
<1>19. UsedInv'
  BY AsyncAssumption DEF AsyncInv, CallTypes, PlaceInv, HolderInv, OwnerInv, UsedInv, Reset, poolVars, handlerVars, LetGo, BackBlock
<1>20. InCoInv'
  BY AsyncAssumption DEF AsyncInv, CallTypes, PlaceInv, InCoInv, Reset, poolVars, handlerVars, LetGo, BackBlock
<1>21. UndisturbedInv'
  BY AsyncAssumption DEF AsyncInv, CallTypes, PlaceInv, HolderInv, OwnerInv, UndisturbedInv, OneRuns, InLoop, OnMain, MayGo, Reset, poolVars, handlerVars, LetGo, BackBlock
<1>22. StayInv'
  BY AsyncAssumption DEF AsyncInv, CallTypes, PlaceInv, StayInv, PostedInv, InLoop, OnMain, Reset, poolVars, handlerVars, LetGo, BackBlock
<1> QED
  BY <1>11, <1>12, <1>13, <1>14, <1>15, <1>16, <1>17, <1>18, <1>19, <1>20, <1>21, <1>22 DEF AsyncInv

\* It is marked as over.
LEMMA LeaveCoFuncKeeps ==
    ASSUME AsyncInv, NEW h \in Calls, LeaveCoFunc(h)
    PROVE  AsyncInv'
<1>1. CallTypes'
  BY AsyncAssumption DEF AsyncInv, CallTypes, Stacks, LeaveCoFunc, poolVars, handlerVars
<1>2. OneRuns'
  BY AsyncAssumption DEF AsyncInv, CallTypes, OneRuns, PlaceInv, InLoop, OnMain, LeaveCoFunc, poolVars, handlerVars
<1>3. PlaceInv'
  BY AsyncAssumption DEF AsyncInv, CallTypes, PlaceInv, PostedInv, HolderInv, LeaveCoFunc, poolVars, handlerVars
<1>4. HolderInv'
  BY AsyncAssumption DEF AsyncInv, CallTypes, PlaceInv, HolderInv, PostedInv, LeaveCoFunc, poolVars, handlerVars
<1>5. PostedInv'
  BY AsyncAssumption DEF AsyncInv, CallTypes, PlaceInv, HolderInv, PostedInv, LeaveCoFunc, poolVars, handlerVars
<1>6. OnceInv'
  BY AsyncAssumption DEF AsyncInv, CallTypes, OnceInv, PostedInv, PlaceInv, LeaveCoFunc, poolVars, handlerVars
<1>7. CallbackInv'
  BY AsyncAssumption DEF AsyncInv, CallTypes, CallbackInv, PostedInv, PlaceInv, HolderInv, LeaveCoFunc, poolVars, handlerVars
<1>8. OwnerInv'
  BY AsyncAssumption DEF AsyncInv, CallTypes, PlaceInv, HolderInv, OwnerInv, PostedInv, LeaveCoFunc, poolVars, handlerVars
<1>9. UsedInv'
  BY AsyncAssumption DEF AsyncInv, CallTypes, PlaceInv, HolderInv, OwnerInv, UsedInv, LeaveCoFunc, poolVars, handlerVars
<1>10. InCoInv'
  BY AsyncAssumption DEF AsyncInv, CallTypes, PlaceInv, InCoInv, LeaveCoFunc, poolVars, handlerVars
<1>11. UndisturbedInv'
  BY AsyncAssumption DEF AsyncInv, CallTypes, PlaceInv, HolderInv, OwnerInv, UndisturbedInv, OneRuns, InLoop, OnMain, MayGo, LeaveCoFunc, poolVars, handlerVars
<1>12. StayInv'
  BY AsyncAssumption DEF AsyncInv, CallTypes, PlaceInv, StayInv, PostedInv, InLoop, OnMain, LeaveCoFunc, poolVars, handlerVars
<1> QED
  BY <1>1, <1>2, <1>3, <1>4, <1>5, <1>6, <1>7, <1>8, <1>9, <1>10, <1>11, <1>12 DEF AsyncInv

\* It yields for the last time.
LEMMA LastYieldKeeps ==
    ASSUME AsyncInv, NEW h \in Calls, LastYield(h)
    PROVE  AsyncInv'
<1>1. CallTypes'
  BY AsyncAssumption DEF AsyncInv, CallTypes, Stacks, LastYield, poolVars, handlerVars
<1>2. OneRuns'
  BY AsyncAssumption DEF AsyncInv, CallTypes, OneRuns, PlaceInv, InLoop, OnMain, LastYield, poolVars, handlerVars
<1>3. PlaceInv'
  BY AsyncAssumption DEF AsyncInv, CallTypes, PlaceInv, PostedInv, HolderInv, LastYield, poolVars, handlerVars
<1>4. HolderInv'
  BY AsyncAssumption DEF AsyncInv, CallTypes, PlaceInv, HolderInv, PostedInv, LastYield, poolVars, handlerVars
<1>5. PostedInv'
  BY AsyncAssumption DEF AsyncInv, CallTypes, PlaceInv, HolderInv, PostedInv, LastYield, poolVars, handlerVars
<1>6. OnceInv'
  BY AsyncAssumption DEF AsyncInv, CallTypes, OnceInv, PostedInv, PlaceInv, LastYield, poolVars, handlerVars
<1>7. CallbackInv'
  BY AsyncAssumption DEF AsyncInv, CallTypes, CallbackInv, PostedInv, PlaceInv, HolderInv, LastYield, poolVars, handlerVars
<1>8. OwnerInv'
  BY AsyncAssumption DEF AsyncInv, CallTypes, PlaceInv, HolderInv, OwnerInv, PostedInv, LastYield, poolVars, handlerVars
<1>9. UsedInv'
  BY AsyncAssumption DEF AsyncInv, CallTypes, PlaceInv, HolderInv, OwnerInv, UsedInv, LastYield, poolVars, handlerVars
<1>10. InCoInv'
  BY AsyncAssumption DEF AsyncInv, CallTypes, PlaceInv, InCoInv, LastYield, poolVars, handlerVars
<1>11. UndisturbedInv'
  <2>1. CallTypes /\ stage[h] = "leaving" /\ stack[h] \in Stacks
    BY DEF AsyncInv, LastYield, CallTypes, PlaceInv
  <2>2. /\ stage'[h] = "ended" /\ \A k \in Calls : k # h => stage'[k] = stage[k]
        /\ \A x \in Stacks : x # stack[h] => fresh'[x] = fresh[x]
        /\ UNCHANGED <<faults, holders, stack>>
    BY <2>1 DEF LastYield, CallTypes
  <2> SUFFICES ASSUME "preempt" \notin faults, NEW k \in Calls, stage[k] = "queued", k # h
               PROVE  fresh'[stack[k]]
    BY <2>2 DEF AsyncInv, UndisturbedInv
  <2>3. "callback" \in holders[h] /\ fresh[stack[k]]
    BY <2>1 DEF AsyncInv, UndisturbedInv
  <2>4. "coroutine" \in holders[k] /\ stack[k] \in Stacks
    BY <2>1 DEF AsyncInv, CallTypes, PlaceInv, HolderInv
  <2>5. stack[k] # stack[h]
    BY <2>3, <2>4, StacksAre, AsyncAssumption DEF AsyncInv, OwnerInv
  <2> QED
    BY <2>2, <2>3, <2>4, <2>5
<1>12. StayInv'
  BY AsyncAssumption DEF AsyncInv, CallTypes, PlaceInv, StayInv, PostedInv, InLoop, OnMain, LastYield, poolVars, handlerVars
<1> QED
  BY <1>1, <1>2, <1>3, <1>4, <1>5, <1>6, <1>7, <1>8, <1>9, <1>10, <1>11, <1>12 DEF AsyncInv

\* The call-back resumes the handler.
LEMMA RunCallbackKeeps ==
    ASSUME AsyncInv, NEW t \in Threads, RunCallback(t)
    PROVE  AsyncInv'
<1>1. CallTypes /\ OnceInv /\ tasks[t] # <<>> /\ tasks' = [tasks EXCEPT ![t] = Tail(@)]
  BY DEF AsyncInv, RunCallback
<1>2. /\ tasks' \in [Threads -> Seq(TaskKinds)] /\ OnceInv'
      /\ 1 \in DOMAIN tasks[t] /\ Head(tasks[t]) = tasks[t][1]
      /\ tasks[t][1] = <<tasks[t][1][1], tasks[t][1][2]>> /\ tasks[t][1][2] \in Calls
      /\ \A u \in Threads : \A i \in DOMAIN tasks'[u] :
            /\ tasks'[u][i] \in TaskKinds
            /\ tasks'[u][i] # tasks[t][1]
            /\ \E j \in DOMAIN tasks[u] : tasks'[u][i] = tasks[u][j]
  BY <1>1, NotTwice
<1> DEFINE h == tasks[t][1][2]
<1>3. /\ h \in Calls /\ tasks[t][1] = <<"callback", h>> /\ Head(tasks[t])[2] = h
      /\ t = origin[h] /\ ~finished[h] /\ "callback" \in holders[h]
  BY <1>2 DEF RunCallback, AsyncInv, PostedInv
<1>4. /\ stage[h] \in {"posted", "dropped", "leaving", "ended"} /\ t # None
      /\ handler[h] \notin {"new", "begun"}
      /\ need[h] => handler[h] \in {"yield", "waiting", "torn"}
  BY <1>1, <1>3, AsyncAssumption DEF AsyncInv, CallTypes, PlaceInv, HolderInv
<1>5. /\ \A u \in Threads : \A i \in DOMAIN tasks'[u] :
            /\ tasks'[u][i][2] \in Calls
            /\ tasks'[u][i][1] = "callback" => tasks'[u][i][2] # h
            /\ \E j \in DOMAIN tasks[u] : tasks'[u][i] = tasks[u][j]
  <2> SUFFICES ASSUME NEW u \in Threads, NEW i \in DOMAIN tasks'[u]
               PROVE  /\ tasks'[u][i][2] \in Calls
                      /\ tasks'[u][i][1] = "callback" => tasks'[u][i][2] # h
    BY <1>2
  <2>1. tasks'[u][i] \in TaskKinds /\ tasks'[u][i] # <<"callback", h>>
    <3>1. tasks'[u][i] \in TaskKinds /\ tasks'[u][i] # tasks[t][1]
      BY <1>2
    <3> QED
      BY <1>3, <3>1
  <2> QED
    BY <2>1 DEF TaskKinds
<1>6. /\ finished' = [finished EXCEPT ![h] = TRUE]
      /\ inCallback' = [inCallback EXCEPT ![t] = h]
      /\ \/ /\ need[h]
            /\ handler' = [handler EXCEPT ![h] = IF @ = "waiting" THEN "back" ELSE "torn"]
            /\ handlerOn' = [handlerOn EXCEPT ![h] = t]
         \/ ~need[h] /\ UNCHANGED <<handler, handlerOn>>
  BY <1>3 DEF RunCallback
<1>7. UNCHANGED <<faults, poolVars, origin, need, holders, stack, stage, stageOn>>
  BY DEF RunCallback
<1>8. /\ \A k \in Calls : k # h => finished'[k] = finished[k] /\ handler'[k] = handler[k] /\ handlerOn'[k] = handlerOn[k]
      /\ finished'[h] /\ finished' \in [Calls -> BOOLEAN]
      /\ inCallback'[t] = h /\ \A u \in Threads : u # t => inCallback'[u] = inCallback[u]
      /\ inCallback' \in [Threads -> Calls \cup {None}]
  BY <1>1, <1>3, <1>6 DEF CallTypes
<1>9. /\ \/ /\ need[h] /\ handlerOn'[h] = t
            /\ handler'[h] = IF handler[h] = "waiting" THEN "back" ELSE "torn"
         \/ ~need[h] /\ handler'[h] = handler[h] /\ handlerOn'[h] = handlerOn[h]
      /\ handler' \in [Calls -> {"new", "begun", "called", "away", "again", "yield", "waiting", "back", "done", "torn",
                           "failed", "crashed"}]
      /\ handlerOn' \in [Calls -> Threads \cup {None}]
  <2> HIDE DEF h
  <2>1. CASE need[h]
    <3>1. /\ handler' = [handler EXCEPT ![h] = IF handler[h] = "waiting" THEN "back" ELSE "torn"]
          /\ handlerOn' = [handlerOn EXCEPT ![h] = t]
      BY <1>6, <2>1
    <3> QED
      BY <1>1, <1>3, <2>1, <3>1 DEF CallTypes
  <2>2. CASE ~need[h]
    BY <1>1, <1>3, <1>6, <2>2 DEF CallTypes
  <2> QED
    BY <2>1, <2>2
<1>10. \A k \in Calls : handlerOn[k] # t /\ stageOn[k] # t
  BY DEF RunCallback, InLoop, OnMain
<1> HIDE DEF h
<1>11. CallTypes'
  BY <1>1, <1>2, <1>7, <1>8, <1>9 DEF CallTypes, poolVars
<1>12. OneRuns'
  BY <1>3, <1>4, <1>7, <1>8, <1>9, <1>10 DEF AsyncInv, OneRuns
<1>13. PlaceInv'
  BY <1>3, <1>4, <1>7, <1>8, <1>9 DEF AsyncInv, PlaceInv
<1>14. HolderInv'
  BY <1>3, <1>4, <1>7, <1>8, <1>9 DEF AsyncInv, HolderInv
<1>15. PostedInv'
  <2> SUFFICES ASSUME NEW u \in Threads, NEW i \in DOMAIN tasks'[u]
               PROVE  /\ tasks'[u][i][1] = "resume" => stage'[tasks'[u][i][2]] = "queued"
                      /\ tasks'[u][i][1] = "callback" =>
                            /\ u = origin'[tasks'[u][i][2]] /\ ~finished'[tasks'[u][i][2]]
                            /\ "callback" \in holders'[tasks'[u][i][2]]
    BY DEF PostedInv
  <2>1. PICK j \in DOMAIN tasks[u] : tasks'[u][i] = tasks[u][j]
    BY <1>5
  <2> QED
    BY <1>5, <1>7, <1>8, <2>1 DEF AsyncInv, PostedInv
<1>16. OnceInv'
  BY <1>2
<1>17. CallbackInv'
  <2>1. ASSUME NEW u \in Threads, inCallback'[u] # None
        PROVE  /\ u = origin'[inCallback'[u]] /\ finished'[inCallback'[u]]
               /\ "callback" \in holders'[inCallback'[u]]
    <3>1. CASE u = t
      BY <1>3, <1>7, <1>8, <3>1
    <3>2. CASE u # t
      <4>1. inCallback'[u] = inCallback[u] /\ inCallback[u] \in Calls
        BY <1>1, <1>8, <2>1, <3>2 DEF CallTypes
      <4>2. /\ u = origin[inCallback[u]] /\ finished[inCallback[u]]
            /\ "callback" \in holders[inCallback[u]]
        BY <2>1, <4>1 DEF AsyncInv, CallbackInv
      <4> QED
        BY <1>7, <1>8, <4>1, <4>2
    <3> QED
      BY <3>1, <3>2
  <2> QED
    BY <2>1 DEF CallbackInv
<1>18. OwnerInv'
  BY <1>7 DEF AsyncInv, OwnerInv, poolVars
<1>19. UsedInv'
  BY <1>7 DEF AsyncInv, UsedInv, poolVars
<1>20. InCoInv'
  BY <1>7 DEF AsyncInv, InCoInv, poolVars
<1>21. UndisturbedInv'
  BY <1>7 DEF AsyncInv, UndisturbedInv, poolVars
<1>22. StayInv'
  <2> SUFFICES ASSUME "stolen" \notin faults, NEW k \in Calls
               PROVE  handler'[k] # "torn" /\ handlerOn'[k] \in {None, origin[k]}
    BY <1>7 DEF StayInv
  <2>1. handler[k] # "torn" /\ handlerOn[k] \in {None, origin[k]} /\ handler[h] # "torn" /\ handlerOn[h] \in {None, origin[h]}
    BY <1>3 DEF AsyncInv, StayInv
  <2>2. need[h] => handler[h] = "waiting"
    <3>1. handler[h] = "yield" => handlerOn[h] = origin[h]
      BY <1>3, <2>1 DEF AsyncInv, PlaceInv
    <3> QED
      BY <1>3, <1>4, <1>10, <2>1, <3>1
  <2> QED
    BY <1>3, <1>7, <1>8, <1>9, <2>1, <2>2
<1> QED
  BY <1>11, <1>12, <1>13, <1>14, <1>15, <1>16, <1>17, <1>18, <1>19, <1>20, <1>21, <1>22 DEF AsyncInv

\* The call-back lets go of the channel.
LEMMA EndCallbackKeeps ==
    ASSUME AsyncInv, NEW t \in Threads, EndCallback(t)
    PROVE  AsyncInv'
<1>1. CallTypes /\ OwnerInv /\ inCallback[t] \in Calls
  BY DEF AsyncInv, EndCallback, CallTypes
<1> DEFINE h == inCallback[t]
<1>2. "callback" \in holders[h] /\ finished[h] /\ stack[h] \in Stacks /\ t = origin[h]
  BY <1>1, AsyncAssumption DEF AsyncInv, CallTypes, PlaceInv, HolderInv, CallbackInv
<1>3. /\ OwnerInv' /\ holders' = [holders EXCEPT ![h] = @ \ {"callback"}]
  BY <1>1, <1>2, LetGoes DEF EndCallback
<1>4. /\ holders'[h] = holders[h] \ {"callback"} /\ \A k \in Calls : k # h => holders'[k] = holders[k]
      /\ UNCHANGED <<faults, handlerVars, finished, stage, tasks>>
  BY <1>1, <1>3 DEF EndCallback, CallTypes
<1>11. CallTypes'
  BY AsyncAssumption DEF AsyncInv, CallTypes, Stacks, EndCallback, poolVars, handlerVars, LetGo, BackBlock
<1>12. OneRuns'
  BY AsyncAssumption DEF AsyncInv, CallTypes, OneRuns, PlaceInv, InLoop, OnMain, EndCallback, poolVars, handlerVars, LetGo, BackBlock
<1>13. PlaceInv'
  BY AsyncAssumption DEF AsyncInv, CallTypes, PlaceInv, PostedInv, HolderInv, EndCallback, poolVars, handlerVars, LetGo, BackBlock
<1>14. HolderInv'
  BY AsyncAssumption DEF AsyncInv, CallTypes, PlaceInv, HolderInv, PostedInv, EndCallback, poolVars, handlerVars, LetGo, BackBlock
<1>15. PostedInv'
  <2>1. \A u \in Threads : \A i \in DOMAIN tasks[u] :
          tasks[u][i][2] \in Calls /\ (tasks[u][i][1] = "callback" => tasks[u][i][2] # h)
    BY <1>1, <1>2, TasksAre DEF AsyncInv, PostedInv
  <2> QED
    BY <1>4, <2>1 DEF AsyncInv, PostedInv, handlerVars
<1>16. OnceInv'
  BY AsyncAssumption DEF AsyncInv, CallTypes, OnceInv, PostedInv, PlaceInv, EndCallback, poolVars, handlerVars, LetGo, BackBlock
<1>17. CallbackInv'
  BY AsyncAssumption DEF AsyncInv, CallTypes, CallbackInv, PostedInv, PlaceInv, HolderInv, EndCallback, poolVars, handlerVars, LetGo, BackBlock
<1>18. OwnerInv'
  BY <1>3
<1>19. UsedInv'
  BY AsyncAssumption DEF AsyncInv, CallTypes, PlaceInv, HolderInv, OwnerInv, UsedInv, EndCallback, poolVars, handlerVars, LetGo, BackBlock
<1>20. InCoInv'
  BY AsyncAssumption DEF AsyncInv, CallTypes, PlaceInv, InCoInv, EndCallback, poolVars, handlerVars, LetGo, BackBlock
<1>21. UndisturbedInv'
  BY AsyncAssumption DEF AsyncInv, CallTypes, PlaceInv, HolderInv, OwnerInv, UndisturbedInv, OneRuns, InLoop, OnMain, MayGo, EndCallback, poolVars, handlerVars, LetGo, BackBlock
<1>22. StayInv'
  BY AsyncAssumption DEF AsyncInv, CallTypes, PlaceInv, StayInv, PostedInv, InLoop, OnMain, EndCallback, poolVars, handlerVars, LetGo, BackBlock
<1> QED
  BY <1>11, <1>12, <1>13, <1>14, <1>15, <1>16, <1>17, <1>18, <1>19, <1>20, <1>21, <1>22 DEF AsyncInv

----------------------------------------------------------------------------
(* The invariant and what it gives.                                        *)

\* It holds at first.
LEMMA AsyncInit == Init => AsyncInv
<1> SUFFICES ASSUME Init PROVE AsyncInv
  OBVIOUS
<1>1. CallTypes
  <2>1. tasks \in [Threads -> Seq(TaskKinds)] /\ stack \in [Calls -> Stacks \cup {None}]
    BY DEF Init
  <2>2. /\ used \in [Stacks -> BOOLEAN] /\ inCo \in [Stacks -> BOOLEAN] /\ fresh \in [Stacks -> BOOLEAN]
        /\ inCallback \in [Threads -> Calls \cup {None}]
    BY DEF Init
  <2> QED
    BY <2>1, <2>2 DEF Init, CallTypes
<1>2. OneRuns /\ PlaceInv /\ HolderInv
  BY DEF Init, OneRuns, PlaceInv, HolderInv
<1>3. PostedInv /\ OnceInv /\ CallbackInv
  BY DEF Init, PostedInv, OnceInv, CallbackInv
<1>4. OwnerInv /\ UsedInv /\ InCoInv
  BY DEF Init, OwnerInv, UsedInv, InCoInv
<1>5. UndisturbedInv /\ StayInv
  BY DEF Init, UndisturbedInv, StayInv
<1> QED
  BY <1>1, <1>2, <1>3, <1>4, <1>5 DEF AsyncInv

\* What one thread runs at a time counts one at most.
LEMMA OneAtATime ==
    ASSUME CallTypes, OneRuns, NEW t \in Threads
    PROVE  Cardinality({h \in Calls : handlerOn[h] = t})
              + Cardinality({h \in Calls : stageOn[h] = t}) <= 1
<1> DEFINE H == {h \in Calls : handlerOn[h] = t}
           S == {h \in Calls : stageOn[h] = t}
<1>1. t # None
  BY AsyncAssumption
<1>2. H = {} \/ \E h : H = {h}
  BY <1>1 DEF OneRuns
<1>3. S = {} \/ \E h : S = {h}
  BY <1>1 DEF OneRuns
<1>4. H = {} \/ S = {}
  BY <1>1 DEF OneRuns
<1>5. Cardinality(H) \in {0, 1} /\ (H = {} => Cardinality(H) = 0)
  BY <1>2, FS_EmptySet, FS_Singleton
<1>6. Cardinality(S) \in {0, 1} /\ (S = {} => Cardinality(S) = 0)
  BY <1>3, FS_EmptySet, FS_Singleton
<1> HIDE DEF H, S
<1>7. Cardinality(H) + Cardinality(S) <= 1
  BY <1>4, <1>5, <1>6
<1> QED
  BY <1>7 DEF H, S

\* It is what the calls promise.
LEMMA AsyncSound == AsyncInv => Sound
<1> SUFFICES ASSUME AsyncInv PROVE Sound
  OBVIOUS
<1>1. TypeOK
  BY OneAtATime DEF AsyncInv, CallTypes, TaskKinds, TypeOK
<1>2. OneOwner
  <2> SUFFICES ASSUME "preempt" \notin faults
               PROVE  /\ \A h, k \in Active : h # k => stack[h] # stack[k]
                      /\ \A h \in Active : (open => stack[h] # conn) /\ stage[h] # "lost"
    BY DEF OneOwner
  <2>1. ASSUME NEW h \in Active
        PROVE  h \in Calls /\ holders[h] # {} /\ stack[h] # None /\ stage[h] # "lost"
    <3>1. h \in Calls /\ stage[h] \notin {"none", "ended"}
      BY DEF Active
    <3>2. "coroutine" \in holders[h] \/ "callback" \in holders[h]
      BY <3>1 DEF AsyncInv, CallTypes, HolderInv, UndisturbedInv
    <3> QED
      BY <3>1, <3>2 DEF AsyncInv, PlaceInv, UndisturbedInv
  <2> QED
    BY <2>1 DEF AsyncInv, OwnerInv
<1>3. ResumesWaiting
  BY DEF AsyncInv, StayInv, ResumesWaiting
<1>4. AllComeBack
  <2> SUFFICES ASSUME \A h \in Calls :
                         handler[h] = "done" /\ stage[h] \in {"none", "ended"} /\ holders[h] = {},
                      NEW s \in Stacks, s # conn
               PROVE  Free(s)
    BY DEF AllComeBack
  <2>1. ~used[s]
    BY DEF AsyncInv, UsedInv
  <2>2. ~inCo[s]
    BY DEF AsyncInv, InCoInv
  <2> QED
    BY <2>1, <2>2 DEF Free
<1> QED
  BY <1>1, <1>2, <1>3, <1>4 DEF Sound

\* Calls made by coroutines of the pool keep apart: while no thread is
\* preempted in the last statements of a coroutine, no two calls, nor a call
\* and the open connection, have one stack, and a task resumes the coroutine of
\* its own call; the call-back resumes a handler that waits in Yield unless it
\* was stolen; and when all is over every stack may be chosen again.
THEOREM AsyncSoundHolds == Spec => []Sound
<1>1. ASSUME AsyncInv, Next PROVE AsyncInv'
  <2>1. CASE OpenConnection
    BY <1>1, <2>1, OpenConnectionKeeps
  <2>2. CASE CloseConnection
    BY <1>1, <2>2, CloseConnectionKeeps
  <2>3. ASSUME NEW h \in Calls, Handle(h) PROVE AsyncInv'
    BY <1>1, <2>3, CallMethodKeeps, CallUnsetKeeps, LetGoUnsetKeeps, WaitKeeps, YieldKeeps, ReturnKeeps DEF Handle
  <2>4. ASSUME NEW h \in Calls, Coroutine(h) PROVE AsyncInv'
    BY <1>1, <2>4, SuspendKeeps, PostKeeps, ResetKeeps, LeaveCoFuncKeeps, LastYieldKeeps DEF Coroutine
  <2>5. ASSUME NEW h \in Calls, Pause(h) PROVE AsyncInv'
    BY <1>1, <2>5, PauseKeeps
  <2>6. ASSUME NEW t \in Threads, LoopStep(t) PROVE AsyncInv'
    BY <1>1, <2>6, RunResumeKeeps, RunCallbackKeeps, EndCallbackKeeps, AnsweredKeeps, ContinueKeeps DEF LoopStep
  <2>7. ASSUME NEW t \in Threads, NEW h \in Calls, Begin(h, t) PROVE AsyncInv'
    BY <1>1, <2>7, BeginKeeps
  <2> QED
    BY <1>1, <2>1, <2>2, <2>3, <2>4, <2>5, <2>6, <2>7 DEF Next
<1>2. ASSUME AsyncInv, UNCHANGED asyncVars PROVE AsyncInv'
  <2> USE <1>2 DEF asyncVars, poolVars, handlerVars
  <2>1. CallTypes' /\ OneRuns' /\ PlaceInv' /\ HolderInv'
    BY DEF AsyncInv, CallTypes, OneRuns, PlaceInv, HolderInv
  <2>2. PostedInv' /\ OnceInv' /\ CallbackInv'
    BY DEF AsyncInv, PostedInv, OnceInv, CallbackInv
  <2>3. OwnerInv' /\ UsedInv' /\ InCoInv' /\ UndisturbedInv' /\ StayInv'
    BY DEF AsyncInv, OwnerInv, UsedInv, InCoInv, UndisturbedInv, StayInv
  <2> QED
    BY <2>1, <2>2, <2>3 DEF AsyncInv
<1> QED
  BY <1>1, <1>2, AsyncInit, AsyncSound, PTL DEF Spec

----------------------------------------------------------------------------
(* IOThread: the invariant.                                                *)

Looping == {"begun", "turn", "swap", "run", "wait", "update"}

\* A byte that ends the wait is there, or about to be written.
Wake == eventfd \/ \E c \in Callers : caller[c] \in {"wakeup", "stopwakeup"}

\* The shape of the state.
TypeInv ==
    /\ thread \in {"new", "made", "started", "ended"} \cup Looping
    /\ isLooping \in BOOLEAN /\ stopping \in BOOLEAN /\ eventfd \in BOOLEAN
    /\ pendingDel \in BOOLEAN /\ overlapped \in BOOLEAN /\ unheard \in BOOLEAN
    /\ pendingAdd \in Events \cup {Gone}
    /\ caller \in [Callers -> {"making", "outside", "idle", "wakeup", "stopwakeup", "join"}]

\* What comes after the loop's look at it is announced; nobody calls before
\* the thread is made.
WakeInv ==
    /\ isLooping <=> thread \in Looping
    /\ caller[Owner] = "making" => \A c \in Callers : caller[c] \in {"making", "outside"}
    /\ thread \in {"run", "wait"} /\ pendingTasks # <<>> => Wake
    /\ thread \in {"swap", "run", "wait"} /\ stopping => Wake
    /\ thread \notin {"update", "ended"} /\ ~unheard /\ (pendingAdd # Gone \/ pendingDel) => Wake

\* Tasks that ran, that are taken and that are pending are numbered through.
TaskInv ==
    /\ added \in Nat
    /\ pendingTasks \in Seq(Nat) /\ taken \in Seq(Nat) /\ ranTasks \in Seq(Nat)
    /\ thread # "run" => taken = <<>>
    /\ added = Len(ranTasks) + Len(taken) + Len(pendingTasks)
    /\ \A i \in 1 .. Len(ranTasks) : ranTasks[i] = i
    /\ \A i \in 1 .. Len(taken) : taken[i] = Len(ranTasks) + i
    /\ \A i \in 1 .. Len(pendingTasks) : pendingTasks[i] = Len(ranTasks) + Len(taken) + i

\* The last call is what is pending, or what is registered.
WatchInv ==
    ~overlapped =>
        /\ pendingDel => pendingAdd = Gone /\ asked = Gone
        /\ pendingAdd # Gone => asked = pendingAdd
        /\ pendingAdd = Gone /\ ~pendingDel => asked = registered

\* All of it.
IOInv == TypeInv /\ WakeInv /\ TaskInv /\ WatchInv

----------------------------------------------------------------------------
\* It holds at first.
LEMMA IOInit == ThreadInit => IOInv
<1> SUFFICES ASSUME ThreadInit PROVE IOInv
  OBVIOUS
<1> USE DEF ThreadInit
<1>1. TypeInv
  BY DEF TypeInv, Looping, Gone
<1>2. WakeInv
  BY DEF WakeInv, Looping, Gone
<1>3. TaskInv
  BY DEF TaskInv
<1>4. WatchInv
  BY DEF WatchInv
<1> QED
  BY <1>1, <1>2, <1>3, <1>4 DEF IOInv

\* Every step keeps the shape.
LEMMA TypeStep == TypeInv /\ [ThreadNext]_threadVars => TypeInv'
<1> SUFFICES ASSUME TypeInv, [ThreadNext]_threadVars PROVE TypeInv'
  OBVIOUS
<1> USE DEF TypeInv, Looping
<1>1. ASSUME NEW c \in Callers, AddTask(c) \/ Wakeup(c) PROVE TypeInv'
  BY <1>1 DEF AddTask, Wakeup, GoTo, fdVars
<1>2. ASSUME NEW c \in Callers, NEW events \in Events, AddEvent(c, events) PROVE TypeInv'
  BY <1>2 DEF AddEvent, GoTo, Overlaps
<1>3. ASSUME NEW c \in Callers, DelEvent(c) PROVE TypeInv'
  BY <1>3 DEF DelEvent, GoTo, Overlaps
<1>4. CASE Stop \/ Made \/ Join
  BY <1>4 DEF Stop, Made, Join, GoTo, fdVars, Callers
<1>5. CASE Start \/ Main \/ BeginLoop \/ ResetStop \/ Turn \/ SwapTasks \/ RunTask
  BY <1>5 DEF Start, Main, BeginLoop, ResetStop, Turn, SwapTasks, RunTask, Runs, fdVars
<1>6. CASE Woken \/ TimesOut \/ Update
  BY <1>6 DEF Woken, TimesOut, Update, Runs, fdVars
<1>7. CASE UNCHANGED threadVars
  BY <1>7 DEF threadVars, fdVars
<1> QED
  BY <1>1, <1>2, <1>3, <1>4, <1>5, <1>6, <1>7 DEF ThreadNext, Goes, Loop

\* Every step keeps what a call has asked for.
LEMMA WatchStep == TypeInv /\ WatchInv /\ [ThreadNext]_threadVars => WatchInv'
<1> SUFFICES ASSUME TypeInv, WatchInv, [ThreadNext]_threadVars PROVE WatchInv'
  OBVIOUS
<1> USE DEF TypeInv, WatchInv, Gone
<1>1. ASSUME NEW c \in Callers, NEW events \in Events, AddEvent(c, events) PROVE WatchInv'
  BY <1>1 DEF AddEvent, Overlaps, Events
<1>2. ASSUME NEW c \in Callers, DelEvent(c) PROVE WatchInv'
  BY <1>2 DEF DelEvent, Overlaps
<1>3. ASSUME NEW c \in Callers, AddTask(c) \/ Wakeup(c) PROVE WatchInv'
  BY <1>3 DEF AddTask, Wakeup, fdVars
<1>4. CASE Update
  BY <1>4 DEF Update
<1>5. CASE UNCHANGED <<overlapped, pendingAdd, pendingDel, asked, registered>>
  BY <1>5
<1> QED
  BY <1>1, <1>2, <1>3, <1>4, <1>5
     DEF ThreadNext, Goes, Loop, Stop, Made, Join, Start, Main, BeginLoop, ResetStop, Turn, SwapTasks,
         RunTask, Woken, TimesOut, threadVars, fdVars

\* Steps that leave the tasks alone and do not enter or leave "run".
LEMMA TaskFrame ==
    ASSUME TaskInv, UNCHANGED taskVars, thread' = "run" <=> thread = "run"
    PROVE  TaskInv'
BY DEF TaskInv, taskVars

\* Every step keeps the order of the tasks.
LEMMA TaskStep == TaskInv /\ [ThreadNext]_threadVars => TaskInv'
<1> SUFFICES ASSUME TaskInv, [ThreadNext]_threadVars PROVE TaskInv'
  OBVIOUS
<1>1. ASSUME NEW c \in Callers, AddTask(c) PROVE TaskInv'
  <2>1. /\ added' = added + 1 /\ pendingTasks' = Append(pendingTasks, added')
        /\ UNCHANGED <<taken, ranTasks, thread>>
    BY <1>1 DEF AddTask
  <2>2. /\ pendingTasks' \in Seq(Nat) /\ Len(pendingTasks') = Len(pendingTasks) + 1
        /\ \A i \in 1 .. Len(pendingTasks) : pendingTasks'[i] = pendingTasks[i]
        /\ pendingTasks'[Len(pendingTasks) + 1] = added'
    BY <2>1, AppendProperties DEF TaskInv
  <2> QED
    <3>1. /\ Len(ranTasks) \in Nat /\ Len(taken) \in Nat /\ Len(pendingTasks) \in Nat
          /\ added = Len(ranTasks) + Len(taken) + Len(pendingTasks)
          /\ \A i \in 1 .. Len(pendingTasks) : pendingTasks[i] = Len(ranTasks) + Len(taken) + i
      BY DEF TaskInv
    <3>2. \A i \in 1 .. Len(pendingTasks') : pendingTasks'[i] = Len(ranTasks) + Len(taken) + i
      <4> SUFFICES ASSUME NEW i \in 1 .. Len(pendingTasks')
                   PROVE  pendingTasks'[i] = Len(ranTasks) + Len(taken) + i
        OBVIOUS
      <4>1. CASE i = Len(pendingTasks) + 1
        BY <2>1, <2>2, <3>1, <4>1
      <4>2. CASE i \in 1 .. Len(pendingTasks)
        BY <2>2, <3>1, <4>2
      <4> QED
        BY <2>2, <3>1, <4>1, <4>2
    <3>3. added' \in Nat /\ added' = Len(ranTasks) + Len(taken) + Len(pendingTasks')
      BY <2>1, <2>2, <3>1
    <3> QED
      BY <2>1, <2>2, <3>2, <3>3 DEF TaskInv
<1>2. CASE SwapTasks
  BY <1>2 DEF SwapTasks, Runs, TaskInv
<1>3. CASE RunTask
  <2>1. CASE taken = <<>>
    BY <1>3, <2>1 DEF RunTask, Runs, TaskInv
  <2>2. CASE taken # <<>>
    <3>1. /\ ranTasks' = Append(ranTasks, Head(taken)) /\ taken' = Tail(taken)
          /\ UNCHANGED <<thread, pendingTasks, added>>
      BY <1>3, <2>2 DEF RunTask
    <3>2. /\ Len(taken) \in Nat \ {0} /\ Head(taken) = taken[1]
          /\ Tail(taken) \in Seq(Nat) /\ Len(Tail(taken)) = Len(taken) - 1
          /\ \A i \in 1 .. (Len(taken) - 1) : Tail(taken)[i] = taken[i + 1]
      BY <2>2, HeadTailProperties DEF TaskInv
    <3>3. /\ ranTasks' \in Seq(Nat) /\ Len(ranTasks') = Len(ranTasks) + 1
          /\ \A i \in 1 .. Len(ranTasks) : ranTasks'[i] = ranTasks[i]
          /\ ranTasks'[Len(ranTasks) + 1] = Len(ranTasks) + 1
      BY <3>1, <3>2, AppendProperties DEF TaskInv
    <3> QED
      BY <1>3, <3>1, <3>2, <3>3 DEF TaskInv, RunTask
  <2> QED
    BY <2>1, <2>2
<1>4. CASE UNCHANGED taskVars /\ (thread' = "run" <=> thread = "run")
  BY <1>4, TaskFrame
<1> QED
  BY <1>1, <1>2, <1>3, <1>4
     DEF ThreadNext, Goes, Loop, GoTo, Runs, Made, Start, AddEvent, DelEvent, Wakeup, Stop, Join, Main,
         BeginLoop, ResetStop, Turn, Woken, TimesOut, Update, threadVars, taskVars

----------------------------------------------------------------------------
\* Every step announces what it adds.
LEMMA WakeStep == TypeInv /\ WakeInv /\ [ThreadNext]_threadVars => WakeInv'
<1> SUFFICES ASSUME TypeInv, WakeInv, [ThreadNext]_threadVars PROVE WakeInv'
  OBVIOUS
<1> USE DEF WakeInv, Wake, Looping, Gone
<1>1. ASSUME NEW c \in Callers, AddTask(c) PROVE WakeInv'
  BY <1>1 DEF AddTask, GoTo, TypeInv, fdVars
<1>2. ASSUME NEW c \in Callers, NEW events \in Events, AddEvent(c, events) PROVE WakeInv'
  BY <1>2 DEF AddEvent, GoTo, TypeInv, taskVars
<1>3. ASSUME NEW c \in Callers, DelEvent(c) PROVE WakeInv'
  BY <1>3 DEF DelEvent, GoTo, TypeInv, taskVars
<1>4. ASSUME NEW c \in Callers, Wakeup(c) PROVE WakeInv'
  <2>1. UNCHANGED <<thread, isLooping, stopping, pendingTasks, pendingAdd, pendingDel>>
    BY <1>4 DEF Wakeup, taskVars
  <2>2. caller'[Owner] = "making" => \A d \in Callers : caller'[d] \in {"making", "outside"}
    BY <1>4 DEF Wakeup, GoTo, TypeInv, Callers
  <2>3. CASE isLooping
    BY <1>4, <2>1, <2>2, <2>3 DEF Wakeup
  <2>4. CASE ~isLooping
    <3>1. unheard' = (unheard \/ (pendingAdd # Gone \/ pendingDel))
      BY <1>4, <2>4 DEF Wakeup
    <3>2. ~unheard' => ~(pendingAdd # Gone \/ pendingDel)
      BY <3>1
    <3>3. thread \notin Looping
      BY <2>4
    <3> QED
      BY <2>1, <2>2, <2>4, <3>2, <3>3
  <2> QED
    BY <2>3, <2>4
<1>5. CASE Stop
  BY <1>5 DEF Stop, GoTo, TypeInv, taskVars, fdVars, Callers
<1>6. CASE Made
  BY <1>6 DEF Made, TypeInv, taskVars, fdVars, Callers
<1>7. CASE Join
  BY <1>7 DEF Join, TypeInv, taskVars, fdVars, Callers
<1>8. CASE Start \/ Main \/ BeginLoop \/ ResetStop \/ Turn
  BY <1>8 DEF Start, Main, BeginLoop, ResetStop, Turn, Runs, TypeInv, taskVars, fdVars
<1>9. CASE SwapTasks \/ RunTask
  BY <1>9 DEF SwapTasks, RunTask, Runs, TypeInv, fdVars
<1>10. CASE Woken \/ TimesOut \/ Update
  BY <1>10 DEF Woken, TimesOut, Update, Runs, TypeInv, fdVars, taskVars
<1>11. CASE UNCHANGED threadVars
  BY <1>11 DEF threadVars, fdVars, taskVars
<1> QED
  BY <1>1, <1>2, <1>3, <1>4, <1>5, <1>6, <1>7, <1>8, <1>9, <1>10, <1>11 DEF ThreadNext, Goes, Loop

----------------------------------------------------------------------------
\* What has to hold follows.
LEMMA IOInvIsSound == IOInv => ThreadSound
<1> SUFFICES ASSUME IOInv PROVE ThreadSound
  OBVIOUS
<1>1. NothingStranded
  BY DEF IOInv, WakeInv, Wake, NothingStranded
<1>2. ranTasks = [i \in 1 .. Len(ranTasks) |-> i]
  BY DEF IOInv, TaskInv
<1>3. WatchesAsAsked
  BY DEF IOInv, WatchInv, WatchesAsAsked
<1> QED
  BY <1>1, <1>2, <1>3 DEF ThreadSound, TasksInOrder

\* For any number of threads that add tasks and events, and however early the
\* thread is stopped: nothing is stranded in epoll_wait, tasks run in order and
\* each once, and epoll watches what the last call asked for.
THEOREM ThreadSoundHolds == ThreadInit /\ [][ThreadNext]_threadVars => []ThreadSound
<1>1. IOInv /\ [ThreadNext]_threadVars => IOInv'
  BY TypeStep, WakeStep, TaskStep, WatchStep DEF IOInv
<1> QED
  BY IOInit, <1>1, IOInvIsSound, PTL

=============================================================================
