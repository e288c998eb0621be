---------------------------- MODULE MCBackground ----------------------------
(* What threads and coroutines wait on beside the reactors, on small         *)
(* instances: a behaviour is one of the coroutine mutex, of a thread pool or *)
(* of the logger.                                                            *)
EXTENDS CoroutineMutex, AsyncLog

CONSTANTS Sizes, MaxTasks

VARIABLES
    part,    \* which of the three
    size, queue, stop, added, worker, copy, ran

OneFault == {{}} \cup {{f} : f \in {"behind", "twoLoops", "preempted", "restarted", "exit", "midnight"}}

Pool == INSTANCE ThreadPool

poolVars == <<size, queue, stop, added, worker, copy, ran>>
allVars == <<part, vars, poolVars, logVars>>

MCInit ==
    /\ part \in {"mutex", "pool", "log"}
    /\ Init /\ (part # "mutex" => \A c \in Cors : paused[c] = CHOOSE t \in Threads : TRUE)
    /\ Pool!PoolInit /\ (part # "pool" => size = 1)
    /\ LogInit /\ (part # "log" => logFaults = {})

OfMutex(A) == part = "mutex" /\ A /\ UNCHANGED <<part, poolVars, logVars>>
OfPool(A) == part = "pool" /\ A /\ UNCHANGED <<part, vars, logVars>>
OfLog(A) == part = "log" /\ A /\ UNCHANGED <<part, vars, poolVars>>

MCNext ==
    \/ OfMutex(Next)
    \/ OfPool(Pool!PoolNext)
    \/ OfLog(LogNext)
    \/ part # "mutex" /\ UNCHANGED allVars

\* The kernel runs every thread.
MCFairness ==
    /\ \A w \in Sizes : /\ WF_allVars(OfPool(w <= size /\ Pool!Begin(w)))
                        /\ WF_allVars(OfPool(w <= size /\ Pool!Work(w)))
    /\ \A k \in Kinds : WF_allVars(OfLog(Execute(k)))
    /\ WF_allVars(OfLog(Ending))
    /\ WF_allVars(OfLog(LoopFunc("timer")))

MCSpec == MCInit /\ [][MCNext]_allVars /\ MCFairness

\* A pool of one worker runs all tasks, in order.
PoolRunsAll == Pool!RunsAll
=============================================================================
