------------------------------ MODULE MCTimer ------------------------------
(* Timer on small instances.  A behaviour is of one of two kinds: two      *)
(* threads use the timer and the clock ticks at any time, or the reactor's *)
(* thread is alone with it and the clock stands still during an operation. *)
EXTENDS Timer

CONSTANTS e1, e2, e3

\* Two short events and a long one.
IntervalPlain == [e \in Events |-> IF e = e2 THEN 3 ELSE 1]

\* Bound of the behaviours of two threads: fewer ticks.
Small == alone \/ now' < MaxTime - 1

\* Time passes, the kernel runs the thread, and the loop reads a ready fd.
MCSpec ==
    /\ Init /\ [][Next /\ Small]_vars
    /\ WF_vars(alone /\ Tick /\ UNCHANGED <<history, alone>>)
    /\ WF_vars(alone /\ OnTimer /\ UNCHANGED alone)
    /\ WF_vars(alone /\ Continue(Loop) /\ UNCHANGED alone)
=============================================================================
