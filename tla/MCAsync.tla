------------------------------ MODULE MCAsync ------------------------------
(* IO threads and what waits across them, on small instances: a behaviour   *)
(* is one of AsyncCall or of IOThread.                                      *)
EXTENDS AsyncCall, IOThread

VARIABLE part    \* which of them

NoneOrOne == {{}} \cup {{f} : f \in {"preempt", "stolen", "connections", "unset"}}

allVars == <<part, asyncVars, threadVars>>

MCInit ==
    /\ part \in {"call", "thread"}
    /\ Init /\ (part # "call" => faults = {})
    /\ ThreadInit /\ (part # "thread" => ~early)

OfCall(A) == part = "call" /\ A /\ UNCHANGED <<part, threadVars>>
OfThread(A) == part = "thread" /\ A /\ UNCHANGED <<part, asyncVars>>

MCNext == OfCall(Next) \/ OfThread(ThreadNext)

\* The kernel runs every thread, and Fairness of AsyncCall.
MCFairness ==
    /\ part = "call" => Fairness
    /\ WF_allVars(OfThread(Goes))

MCSpec == MCInit /\ [][MCNext]_allVars /\ MCFairness
=============================================================================
