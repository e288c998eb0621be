----------------------------- MODULE AsyncCall -----------------------------
(***************************************************************************)
(* RpcAsyncChannel (rpc_async_channel.cpp) on the IO threads with the      *)
(* coroutine pool.  A handler, itself a coroutine, makes a channel, which  *)
(* has the call made by a coroutine of the pool on another thread; that    *)
(* one posts a call-back to the handler's thread, which marks the call     *)
(* finished and resumes the handler if it waits.  The channel is shared by *)
(* the handler, the coroutine and the call-back; when the last of them     *)
(* lets go, the coroutine is given back to the pool.                       *)
(***************************************************************************)
EXTENDS Naturals, FiniteSets, Sequences

CONSTANTS
    Calls,        \* calls; each has a handler, a channel and a coroutine
    Threads,      \* IO threads
    PoolSize,     \* pool_size_
    AsyncFaults,  \* the sets of faults a behaviour may have
    None

ASSUME AsyncAssumption ==
    /\ IsFiniteSet(Calls) /\ PoolSize \in Nat
    /\ None \notin Calls \cup Threads \cup Nat

\* preempt: other threads run between the last statements of a coroutine.
\* stolen: a handler that has waited for something else may come back on
\*   another thread.
\* connections: a connection of the server takes a coroutine of the pool.
\* unset: a handler may call before it has set the callee.

VARIABLES
    faults,      \* faults of this behaviour
    used,        \* free_cors_[i].second of an entry, or blocks_ beyond them
    inCo,        \* is_in_cofunc_ of a stack's coroutine
    fresh,       \* its context is the one SetCallBack wrote
    conn,        \* the stack of the server's connection
    open,        \* the connection is open
    handler,     \* where a handler is
    handlerOn,   \* the thread it runs on
    origin,      \* current_iothread_
    need,        \* need_resume_
    finished,    \* is_finished_
    holders,     \* who holds the channel
    stack,       \* pending_cor_
    stage,       \* where the call's coroutine is
    stageOn,     \* the thread it runs on
    tasks,       \* pending_tasks_ of a thread's reactor
    inCallback   \* the call whose call-back a thread is in

poolVars == <<used, inCo, fresh, conn, open>>
handlerVars == <<handler, handlerOn, origin, need>>
asyncVars == <<faults, poolVars, handlerVars, finished, holders, stack, stage, stageOn, tasks, inCallback>>

\* Stacks of the pool's own memory, and of the memory it adds when they are gone.
Stacks == 1 .. PoolSize + Cardinality(Calls)

\* The shape of the state; a thread runs one coroutine at a time.
TypeOK ==
    /\ faults \in AsyncFaults
    /\ used \in [Stacks -> BOOLEAN] /\ inCo \in [Stacks -> BOOLEAN] /\ fresh \in [Stacks -> BOOLEAN]
    /\ conn \in Stacks \cup {None} /\ open \in BOOLEAN
    /\ handler \in [Calls -> {"new", "begun", "called", "away", "again", "yield", "waiting", "back", "done", "torn",
                           "failed", "crashed"}]
    /\ handlerOn \in [Calls -> Threads \cup {None}] /\ origin \in [Calls -> Threads \cup {None}]
    /\ need \in [Calls -> BOOLEAN] /\ finished \in [Calls -> BOOLEAN]
    /\ holders \in [Calls -> SUBSET {"handler", "coroutine", "callback"}]
    /\ stack \in [Calls -> Stacks \cup {None}]
    /\ stage \in [Calls -> {"none", "queued", "started", "rpc", "answered", "posted", "dropped",
                            "leaving", "ended", "lost"}]
    /\ stageOn \in [Calls -> Threads \cup {None}]
    /\ tasks \in [Threads -> Seq({"resume", "callback"} \X Calls)]
    /\ inCallback \in [Threads -> Calls \cup {None}]
    /\ \A t \in Threads : Cardinality({h \in Calls : handlerOn[h] = t})
                           + Cardinality({h \in Calls : stageOn[h] = t}) <= 1

Init ==
    /\ faults \in AsyncFaults
    /\ used = [s \in Stacks |-> FALSE] /\ inCo = [s \in Stacks |-> FALSE]
    /\ fresh = [s \in Stacks |-> FALSE]
    /\ conn = None /\ open = FALSE
    /\ handler = [h \in Calls |-> "new"] /\ handlerOn = [h \in Calls |-> None]
    /\ origin = [h \in Calls |-> None]
    /\ need = [h \in Calls |-> FALSE] /\ finished = [h \in Calls |-> FALSE]
    /\ holders = [h \in Calls |-> {}]
    /\ stack = [h \in Calls |-> None]
    /\ stage = [h \in Calls |-> "none"] /\ stageOn = [h \in Calls |-> None]
    /\ tasks = [t \in Threads |-> <<>>]
    /\ inCallback = [t \in Threads |-> None]

\* No coroutine runs on the thread.
OnMain(t) == \A h \in Calls : handlerOn[h] # t /\ stageOn[h] # t

\* The thread is in its reactor's loop.
InLoop(t) == OnMain(t) /\ inCallback[t] = None

\* A thread may go on: unless threads are preempted, a coroutine that has posted
\* its call-back reaches its Yield first.
MayGo(t) ==
    "preempt" \in faults \/
    \A h \in Calls : stage[h] \in {"posted", "dropped", "leaving"} => stageOn[h] = t

----------------------------------------------------------------------------
\* The coroutine pool.

\* Mutant: any unused entry is chosen, its coroutine in CoFunction or not.
AnyUnused(s) == ~used[s]

\* An entry that may be chosen.
Free(s) == ~used[s] /\ ~inCo[s]

First(stacks) == {s \in stacks : \A r \in stacks : s <= r}

\* Memory::GetBlock, for the memories that were added in turn: a new one when
\* the others have no block left.
GetBlock == First({s \in Stacks : s > PoolSize /\ ~used[s]})

\* GetCoroutineInstanse: the first free entry, or else a block.  A coroutine
\* made for a block is a new one.
Instance ==
    LET entries == {s \in 1 .. PoolSize : Free(s)} IN
    IF entries # {} THEN First(entries) ELSE GetBlock

\* BackBlock; an entry of the pool keeps its block and is marked in the list.
BackBlock(s) == [used EXCEPT ![s] = FALSE]

\* Somebody lets go of a channel; the last one gives the coroutine back.
LetGo(h, who) ==
    /\ holders' = [holders EXCEPT ![h] = @ \ {who}]
    /\ used' = IF holders'[h] = {} THEN BackBlock(stack[h]) ELSE used

\* A connection's coroutine, and the connection's end: the coroutine is given
\* back where it last yielded, inside CoFunction.
OpenConnection ==
    /\ "connections" \in faults /\ conn = None
    /\ \E s \in Instance :
          /\ conn' = s
          /\ used' = [used EXCEPT ![s] = TRUE] /\ inCo' = [inCo EXCEPT ![s] = TRUE]
    /\ open' = TRUE
    /\ UNCHANGED <<faults, fresh, handlerVars, finished, holders, stack, stage, stageOn, tasks, inCallback>>

CloseConnection ==
    /\ open
    /\ open' = FALSE
    /\ used' = BackBlock(conn)
    /\ UNCHANGED <<faults, inCo, fresh, conn, handlerVars, finished, holders, stack, stage, stageOn,
                   tasks, inCallback>>

----------------------------------------------------------------------------
\* The handler.

\* It makes the channel.
Begin(h, t) ==
    /\ handler[h] = "new" /\ InLoop(t) /\ MayGo(t)
    /\ handler' = [handler EXCEPT ![h] = "begun"]
    /\ handlerOn' = [handlerOn EXCEPT ![h] = t]
    /\ origin' = [origin EXCEPT ![h] = t]
    /\ holders' = [holders EXCEPT ![h] = {"handler"}]
    /\ UNCHANGED <<faults, poolVars, need, finished, stack, stage, stageOn, tasks, inCallback>>

\* AddCoroutineToRandomThread: a thread other than t, if there is one.
OtherThread(t) == IF Threads = {t} THEN {t} ELSE Threads \ {t}

\* CallMethod: SetCallBack writes a new context, unless the coroutine is in
\* CoFunction, and a task will resume the coroutine.
CallMethod(h) ==
    /\ handler[h] = "begun" /\ MayGo(handlerOn[h])
    /\ \E s \in Instance, t \in OtherThread(handlerOn[h]) :
          /\ stack' = [stack EXCEPT ![h] = s]
          /\ used' = [used EXCEPT ![s] = TRUE]
          /\ inCo' = [inCo EXCEPT ![s] = @ /\ s <= PoolSize]
          /\ fresh' = IF inCo'[s] THEN fresh ELSE [fresh EXCEPT ![s] = TRUE]
          /\ tasks' = [tasks EXCEPT ![t] = Append(@, <<"resume", h>>)]
    /\ holders' = [holders EXCEPT ![h] = @ \cup {"coroutine"}]
    /\ stage' = [stage EXCEPT ![h] = "queued"]
    /\ handler' = [handler EXCEPT ![h] = "called"]
    /\ UNCHANGED <<faults, conn, open, handlerOn, origin, need, finished, stageOn, inCallback>>

\* CallMethod without SaveCallee only sets an error and is_finished_, so that
\* Wait would return at once ...
CallUnset(h) ==
    /\ "unset" \in faults
    /\ handler[h] = "begun" /\ MayGo(handlerOn[h])
    /\ handler' = [handler EXCEPT ![h] = "failed"]
    /\ finished' = [finished EXCEPT ![h] = TRUE]
    /\ UNCHANGED <<faults, poolVars, handlerOn, origin, need, holders, stack, stage, stageOn, tasks, inCallback>>

\* ... and the channel's destructor gives back a coroutine it never got: the
\* pool follows a null pointer.
LetGoUnset(h) ==
    /\ handler[h] = "failed" /\ MayGo(handlerOn[h])
    /\ handler' = [handler EXCEPT ![h] = "crashed"]
    /\ UNCHANGED <<faults, poolVars, handlerOn, origin, need, finished, holders, stack, stage, stageOn, tasks, inCallback>>

\* It waits for something else, once, before it waits for the call.
Pause(h) ==
    /\ handler[h] = "called" /\ MayGo(handlerOn[h])
    /\ handler' = [handler EXCEPT ![h] = "away"]
    /\ handlerOn' = [handlerOn EXCEPT ![h] = None]
    /\ UNCHANGED <<faults, poolVars, origin, need, finished, holders, stack, stage, stageOn, tasks, inCallback>>

Continue(h, t) ==
    /\ handler[h] = "away" /\ InLoop(t) /\ MayGo(t)
    /\ t = origin[h] \/ "stolen" \in faults
    /\ handler' = [handler EXCEPT ![h] = "again"]
    /\ handlerOn' = [handlerOn EXCEPT ![h] = t]
    /\ UNCHANGED <<faults, poolVars, origin, need, finished, holders, stack, stage, stageOn, tasks, inCallback>>

\* Wait, up to its Yield; a handler need not wait.
Wait(h) ==
    /\ handler[h] \in {"called", "again"} /\ MayGo(handlerOn[h])
    /\ need' = [need EXCEPT ![h] = TRUE]
    /\ handler' = [handler EXCEPT ![h] = IF finished[h] THEN "back" ELSE "yield"]
    /\ UNCHANGED <<faults, poolVars, handlerOn, origin, finished, holders, stack, stage, stageOn, tasks, inCallback>>

Yield(h) ==
    /\ handler[h] = "yield" /\ MayGo(handlerOn[h])
    /\ handler' = [handler EXCEPT ![h] = "waiting"]
    /\ handlerOn' = [handlerOn EXCEPT ![h] = None]
    /\ UNCHANGED <<faults, poolVars, origin, need, finished, holders, stack, stage, stageOn, tasks, inCallback>>

Return(h) ==
    /\ handler[h] \in {"called", "again", "back"} /\ MayGo(handlerOn[h])
    /\ handler' = [handler EXCEPT ![h] = "done"]
    /\ handlerOn' = [handlerOn EXCEPT ![h] = None]
    /\ LetGo(h, "handler")
    /\ UNCHANGED <<faults, inCo, fresh, conn, open, origin, need, finished, stack, stage, stageOn, tasks, inCallback>>

----------------------------------------------------------------------------
\* The coroutine that makes the call.

\* A task resumes it: it begins with CoFunction when its context is fresh.
\* What it does with another one is undefined.
RunResume(t) ==
    /\ InLoop(t) /\ MayGo(t) /\ tasks[t] # <<>> /\ Head(tasks[t])[1] = "resume"
    /\ LET h == Head(tasks[t])[2] IN
          IF fresh[stack[h]]
          THEN /\ stage' = [stage EXCEPT ![h] = "started"]
               /\ stageOn' = [stageOn EXCEPT ![h] = t]
               /\ inCo' = [inCo EXCEPT ![stack[h]] = TRUE]
               /\ fresh' = [fresh EXCEPT ![stack[h]] = FALSE]
          ELSE stage' = [stage EXCEPT ![h] = "lost"] /\ UNCHANGED <<stageOn, inCo, fresh>>
    /\ tasks' = [tasks EXCEPT ![t] = Tail(@)]
    /\ UNCHANGED <<faults, used, conn, open, handlerVars, finished, holders, stack, inCallback>>

\* RpcChannel::CallMethod suspends it; it comes back on its thread, or, stolen
\* from its queue, on another.
Suspend(h) ==
    /\ stage[h] = "started" /\ MayGo(stageOn[h])
    /\ stage' = [stage EXCEPT ![h] = "rpc"]
    /\ stageOn' = [stageOn EXCEPT ![h] = None]
    /\ UNCHANGED <<faults, poolVars, handlerVars, finished, holders, stack, tasks, inCallback>>

Answered(h, t) ==
    /\ stage[h] = "rpc" /\ InLoop(t) /\ MayGo(t)
    /\ stage' = [stage EXCEPT ![h] = "answered"]
    /\ stageOn' = [stageOn EXCEPT ![h] = t]
    /\ UNCHANGED <<faults, poolVars, handlerVars, finished, holders, stack, tasks, inCallback>>

\* AddTask(call_back) to the thread where the channel was made.
Post(h) ==
    /\ stage[h] = "answered" /\ MayGo(stageOn[h])
    /\ stage' = [stage EXCEPT ![h] = "posted"]
    /\ tasks' = [tasks EXCEPT ![origin[h]] = Append(@, <<"callback", h>>)]
    /\ holders' = [holders EXCEPT ![h] = @ \cup {"callback"}]
    /\ UNCHANGED <<faults, poolVars, handlerVars, finished, stack, stageOn, inCallback>>

\* s_ptr.reset().
Reset(h) ==
    /\ stage[h] = "posted"
    /\ stage' = [stage EXCEPT ![h] = "dropped"]
    /\ LetGo(h, "coroutine")
    /\ UNCHANGED <<faults, inCo, fresh, conn, open, handlerVars, finished, stack, stageOn, tasks, inCallback>>

\* CoFunction's last statements: SetIsInCoFunc(false), ...
LeaveCoFunc(h) ==
    /\ stage[h] = "dropped"
    /\ stage' = [stage EXCEPT ![h] = "leaving"]
    /\ inCo' = [inCo EXCEPT ![stack[h]] = FALSE]
    /\ UNCHANGED <<faults, used, fresh, conn, open, handlerVars, finished, holders, stack, stageOn, tasks, inCallback>>

\* ... and Yield, which saves the context.
LastYield(h) ==
    /\ stage[h] = "leaving"
    /\ stage' = [stage EXCEPT ![h] = "ended"]
    /\ stageOn' = [stageOn EXCEPT ![h] = None]
    /\ fresh' = [fresh EXCEPT ![stack[h]] = FALSE]
    /\ UNCHANGED <<faults, used, inCo, conn, open, handlerVars, finished, holders, stack, tasks, inCallback>>

Coroutine(h) ==
    Suspend(h) \/ Post(h) \/ Reset(h) \/ LeaveCoFunc(h) \/ LastYield(h)

----------------------------------------------------------------------------
\* The call-back, on the thread where the channel was made.

\* Mutant: the call-back does not mark the call finished.
RunCallbackUnmarked(t) ==
    /\ InLoop(t) /\ MayGo(t) /\ tasks[t] # <<>> /\ Head(tasks[t])[1] = "callback"
    /\ LET h == Head(tasks[t])[2] IN
          /\ inCallback' = [inCallback EXCEPT ![t] = h]
          /\ IF need[h]
             THEN /\ handler' = [handler EXCEPT ![h] = IF @ = "waiting" THEN "back" ELSE "torn"]
                  /\ handlerOn' = [handlerOn EXCEPT ![h] = t]
             ELSE UNCHANGED <<handler, handlerOn>>
    /\ tasks' = [tasks EXCEPT ![t] = Tail(@)]
    /\ UNCHANGED <<faults, poolVars, origin, need, finished, holders, stack, stage, stageOn>>

\* It runs the caller's closure (not modelled), marks the call finished and
\* resumes the handler: one that has not yielded yet is torn between two threads.
\* The mark and the look at need_resume_ are one step, and so are Wait's two: what
\* a stolen handler meets between them is another way to be torn.
RunCallback(t) ==
    /\ InLoop(t) /\ MayGo(t) /\ tasks[t] # <<>> /\ Head(tasks[t])[1] = "callback"
    /\ LET h == Head(tasks[t])[2] IN
          /\ finished' = [finished EXCEPT ![h] = TRUE]
          /\ inCallback' = [inCallback EXCEPT ![t] = h]
          /\ IF need[h]
             THEN /\ handler' = [handler EXCEPT ![h] = IF @ = "waiting" THEN "back" ELSE "torn"]
                  /\ handlerOn' = [handlerOn EXCEPT ![h] = t]
             ELSE UNCHANGED <<handler, handlerOn>>
    /\ tasks' = [tasks EXCEPT ![t] = Tail(@)]
    /\ UNCHANGED <<faults, poolVars, origin, need, holders, stack, stage, stageOn>>

\* When the handler has yielded or ended, the call-back lets go of the channel.
EndCallback(t) ==
    /\ inCallback[t] # None /\ OnMain(t) /\ MayGo(t)
    /\ LetGo(inCallback[t], "callback")
    /\ inCallback' = [inCallback EXCEPT ![t] = None]
    /\ UNCHANGED <<faults, inCo, fresh, conn, open, handlerVars, finished, stack, stage, stageOn, tasks>>

----------------------------------------------------------------------------

Handle(h) == CallMethod(h) \/ CallUnset(h) \/ LetGoUnset(h) \/ Wait(h) \/ Yield(h) \/ Return(h)

LoopStep(t) ==
    \/ RunResume(t) \/ RunCallback(t) \/ EndCallback(t)
    \/ \E h \in Calls : Answered(h, t) \/ Continue(h, t)

Next ==
    /\ \A h \in Calls : handler[h] \notin {"torn", "crashed"} /\ stage[h] # "lost"
    /\ \/ OpenConnection \/ CloseConnection
       \/ \E h \in Calls : Handle(h) \/ Coroutine(h) \/ Pause(h)
       \/ \E t \in Threads : LoopStep(t) \/ \E h \in Calls : Begin(h, t)

Spec == Init /\ [][Next]_asyncVars

\* The threads run, and what a coroutine waits for happens; as no behaviour is
\* longer than its calls, it does not matter which of them goes on.
Fairness ==
    WF_asyncVars(\/ \E h \in Calls : Handle(h) \/ Coroutine(h)
                 \/ \E t \in Threads : LoopStep(t))

FairSpec == Spec /\ Fairness

----------------------------------------------------------------------------
\* Calls whose coroutine has been chosen and has not yielded for the last time.
Active == {h \in Calls : stage[h] \notin {"none", "ended"}}

\* No two calls, nor a call and an open connection, have one stack, and a stack
\* is in use until its coroutine has yielded for the last time; the coroutine a
\* task resumes begins with its own call.  With preemption the stack may be
\* given to the next while the last statements still run on it.
OneOwner ==
    "preempt" \notin faults =>
        /\ \A h, k \in Active : h # k => stack[h] # stack[k]
        /\ \A h \in Active : (open => stack[h] # conn) /\ stage[h] # "lost"

\* The call-back resumes a handler that waits in Yield, unless the handler may
\* be on another thread than the call-back.
ResumesWaiting == "stolen" \notin faults => \A h \in Calls : handler[h] # "torn"

\* When all handlers have returned and all calls are over the pool has its
\* entries and blocks back, and all may be chosen again but the one in which a
\* closed connection stood.
AllComeBack ==
    (\A h \in Calls : handler[h] = "done" /\ stage[h] \in {"none", "ended"} /\ holders[h] = {}) =>
        \A s \in Stacks : s = conn \/ Free(s)

\* A handler that waits is resumed, also when a coroutine of the pool is lost to
\* a connection.
WaitReturns ==
    \A h \in Calls :
        handler[h] = "waiting" /\ faults \cap {"preempt", "stolen", "unset"} = {} ~> handler[h] = "back"

\* The calls keep apart, find their handlers and leave nothing behind.
Sound == TypeOK /\ OneOwner /\ ResumesWaiting /\ AllComeBack

=============================================================================
