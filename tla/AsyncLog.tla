------------------------------ MODULE AsyncLog ------------------------------
(***************************************************************************)
(* Logger and AsyncLogger (log.cpp).  Threads append lines to a buffer for *)
(* each kind of log; Logger::LoopFunc, run by a timer and once more when   *)
(* the program ends, moves what is there to the queue of the kind's        *)
(* AsyncLogger, whose thread writes one batch after another to a file      *)
(* until it is stopped.  A line is its number.                             *)
(***************************************************************************)
EXTENDS Naturals, SequencesExt

CONSTANTS
    MaxLines,    \* bound: lines of both kinds
    MaxSize,     \* max_size_, in lines
    MaxDays,     \* bound: days
    LogFaults    \* the sets of faults a behaviour may have

ASSUME AsyncLogAssumption == MaxLines \in Nat /\ MaxSize \in Nat /\ MaxDays \in Nat

\* behind: LoopFunc may begin while a batch is queued.
\* twoLoops: the program may end while the timer is in LoopFunc.
\* preempted: Stop may come between a thread's look at stop_ and its wait.
\* restarted: files of an earlier run are there, some of them full.
\* exit: Exit ends the program, which joins the thread of the rpc log only.
\* midnight: days pass.

VARIABLES
    logFaults,   \* faults of this behaviour
    pushed,      \* number of lines a kind has got
    buffer,      \* rpc_buffer_, app_buffer_
    looper,      \* position in Script of the timer and of the program's end
    moved,       \* what LoopFunc has swapped out and not queued yet
    batches,     \* the batch its AsyncLogger's thread writes, if it does, then tasks_
    stopped,     \* its stop_
    writer,      \* where its thread is
    isStop,      \* is_stop of its thread
    file,        \* its open file, a day and a number, or <<>>
    day,         \* today
    date, no,    \* its date_ and no_
    log,         \* file -> number of lines in it
    written,     \* the lines written, in order
    atEnd        \* lines pushed when the program began to end

fileVars == <<file, date, no, log, written>>
writerVars == <<writer, isStop, fileVars>>
logVars == <<logFaults, pushed, buffer, looper, moved, batches, stopped, writerVars, day, atEnd>>

Kinds == {"app", "rpc"}
Loopers == {"timer", "end"}

\* LoopFunc, and what Flush and the joins add to it as the program ends.
Script == << <<"swap", "app">>, <<"swap", "rpc">>, <<"push", "rpc">>, <<"push", "app">>,
             <<"stop", "rpc">>, <<"stop", "app">>, <<"join", "rpc">>, <<"join", "app">>,
             <<"ended", "app">> >>

At(l, what, k) == looper[l] > 0 /\ Script[looper[l]] = <<what, k>>

\* The timer's LoopFunc returns after its last push.
Onward(l) == looper' = [looper EXCEPT ![l] = IF l = "timer" /\ @ = 4 THEN 0 ELSE @ + 1]

Files == (1 .. MaxDays) \X (0 .. MaxLines + 2)

LogInit ==
    /\ logFaults \in LogFaults
    /\ pushed = [k \in Kinds |-> 0] /\ buffer = [k \in Kinds |-> <<>>]
    /\ looper = [l \in Loopers |-> 0]
    /\ moved = [l \in Loopers |-> [k \in Kinds |-> <<>>]]
    /\ batches = [k \in Kinds |-> <<>>] /\ stopped = [k \in Kinds |-> FALSE]
    /\ writer = [k \in Kinds |-> "look"] /\ isStop = [k \in Kinds |-> FALSE]
    /\ file = [k \in Kinds |-> <<>>] /\ day = 1
    /\ date = [k \in Kinds |-> 0] /\ no = [k \in Kinds |-> 0]
    /\ \E full \in IF "restarted" \in logFaults THEN 0 .. 2 ELSE {0} :
          log = [k \in Kinds |-> [f \in Files |-> IF f[2] < full THEN MaxSize + 1 ELSE 0]]
    /\ written = [k \in Kinds |-> <<>>] /\ atEnd = [k \in Kinds |-> 0]

----------------------------------------------------------------------------
\* The threads that log, and LoopFunc.

PushLog(k) ==
    /\ pushed["app"] + pushed["rpc"] < MaxLines
    /\ pushed' = [pushed EXCEPT ![k] = @ + 1]
    /\ buffer' = [buffer EXCEPT ![k] = Append(@, pushed'[k])]
    /\ UNCHANGED <<logFaults, looper, moved, batches, stopped, writerVars, day, atEnd>>

Tasks(k) == IF writer[k] = "write" THEN Tail(batches[k]) ELSE batches[k]

\* A LoopFunc may begin.
MayBegin(l) ==
    /\ looper[l] = 0 /\ looper["end"] = 0
    /\ "twoLoops" \in logFaults \/ looper["timer"] = 0
    /\ "behind" \in logFaults \/ \A k \in Kinds : Tasks(k) = <<>>

\* The timer's event comes again and again.
BeginLoop ==
    /\ MayBegin("timer") /\ \E k \in Kinds : buffer[k] # <<>>
    /\ looper' = [looper EXCEPT !["timer"] = 1]
    /\ UNCHANGED <<logFaults, pushed, buffer, moved, batches, stopped, writerVars, day, atEnd>>

\* A signal arrives, Exit is called or the Logger is destroyed.
BeginEnd ==
    /\ MayBegin("end")
    /\ looper' = [looper EXCEPT !["end"] = 1]
    /\ atEnd' = pushed
    /\ UNCHANGED <<logFaults, pushed, buffer, moved, batches, stopped, writerVars, day>>

\* LoopFunc's copy of rpc_buffer_, made before the lock, goes with the swap; that
\* it reads the buffer while PushRpcLog may write it is left out.
Swap(l, k) ==
    /\ At(l, "swap", k)
    /\ Onward(l)
    /\ moved' = [moved EXCEPT ![l][k] = buffer[k]]
    /\ buffer' = [buffer EXCEPT ![k] = <<>>]
    /\ UNCHANGED <<logFaults, pushed, batches, stopped, writerVars, day, atEnd>>

\* pthread_cond_signal to the thread of k.
Signal(k) == writer' = [writer EXCEPT ![k] = IF @ = "asleep" THEN "look" ELSE @]

\* Mutant: a batch is put before those that wait.
PushFront(l, k) ==
    /\ At(l, "push", k) /\ writer[k] # "about"
    /\ Onward(l)
    /\ batches' = [batches EXCEPT ![k] = IF moved[l][k] = <<>> THEN @ ELSE <<moved[l][k]>> \o @]
    /\ moved' = [moved EXCEPT ![l][k] = <<>>]
    /\ Signal(k)
    /\ UNCHANGED <<logFaults, pushed, buffer, stopped, isStop, fileVars, day, atEnd>>

\* AsyncLogger::Push, with the thread's mutex.
Push(l, k) ==
    /\ At(l, "push", k) /\ writer[k] # "about"
    /\ Onward(l)
    /\ IF moved[l][k] = <<>> THEN UNCHANGED <<batches, writer>>
       ELSE batches' = [batches EXCEPT ![k] = Append(@, moved[l][k])] /\ Signal(k)
    /\ moved' = [moved EXCEPT ![l][k] = <<>>]
    /\ UNCHANGED <<logFaults, pushed, buffer, stopped, isStop, fileVars, day, atEnd>>

\* Mutant: the thread is not signalled.
StopSilently(k) ==
    /\ At("end", "stop", k)
    /\ Onward("end")
    /\ stopped' = [stopped EXCEPT ![k] = TRUE]
    /\ UNCHANGED <<logFaults, pushed, buffer, moved, batches, writerVars, day, atEnd>>

\* AsyncLogger::Stop, without the mutex.
Stop(k) ==
    /\ At("end", "stop", k)
    /\ Onward("end")
    /\ stopped' = [stopped EXCEPT ![k] = TRUE]
    /\ Signal(k)
    /\ UNCHANGED <<logFaults, pushed, buffer, moved, batches, isStop, fileVars, day, atEnd>>

Join(k) ==
    /\ At("end", "join", k)
    /\ writer[k] = "ended" \/ (k = "app" /\ "exit" \in logFaults)
    /\ Onward("end")
    /\ UNCHANGED <<logFaults, pushed, buffer, moved, batches, stopped, writerVars, day, atEnd>>

----------------------------------------------------------------------------
\* AsyncLogger::Execute.

\* With the mutex: the wait, the end, or a copy of stop_ and the first batch.
Look(k) ==
    /\ writer[k] = "look"
    /\ isStop' = [isStop EXCEPT ![k] = stopped[k]]
    /\ writer' = [writer EXCEPT ![k] =
         IF batches[k] # <<>> THEN "write"
         ELSE IF stopped[k] THEN "ended"
         ELSE IF "preempted" \in logFaults THEN "about" ELSE "asleep"]
    /\ UNCHANGED <<logFaults, pushed, buffer, looper, moved, batches, stopped, fileVars, day, atEnd>>

Sleep(k) ==
    /\ writer[k] = "about"
    /\ writer' = [writer EXCEPT ![k] = "asleep"]
    /\ UNCHANGED <<logFaults, pushed, buffer, looper, moved, batches, stopped, isStop, fileVars, day, atEnd>>

\* The batch goes to the open file, or to number 0 of a new day, or, when that
\* is full, to the next number, full or not.  A thread that was stopped when it
\* took the batch ends, whatever is still queued.
Write(k) ==
    /\ writer[k] = "write"
    /\ LET base == IF date[k] = day THEN no[k] ELSE 0
           open == IF date[k] = day /\ file[k] # <<>> THEN file[k] ELSE <<day, base>>
           full == log[k][open] > MaxSize
       IN  /\ no' = [no EXCEPT ![k] = IF full THEN base + 1 ELSE base]
           /\ file' = [file EXCEPT ![k] = IF full THEN <<day, base + 1>> ELSE open]
    /\ date' = [date EXCEPT ![k] = day]
    /\ log' = [log EXCEPT ![k][file'[k]] = @ + Len(Head(batches[k]))]
    /\ written' = [written EXCEPT ![k] = @ \o Head(batches[k])]
    /\ batches' = [batches EXCEPT ![k] = Tail(@)]
    /\ writer' = [writer EXCEPT ![k] = IF isStop[k] THEN "ended" ELSE "look"]
    /\ UNCHANGED <<logFaults, pushed, buffer, looper, moved, stopped, isStop, day, atEnd>>

Midnight ==
    /\ "midnight" \in logFaults /\ day < MaxDays
    /\ day' = day + 1
    /\ UNCHANGED <<logFaults, pushed, buffer, looper, moved, batches, stopped, writerVars, atEnd>>

Execute(k) == Look(k) \/ Sleep(k) \/ Write(k)
LoopFunc(l) == \E k \in Kinds : Swap(l, k) \/ Push(l, k)
Ending == LoopFunc("end") \/ \E k \in Kinds : Stop(k) \/ Join(k)

LogNext ==
    \/ \E k \in Kinds : PushLog(k) \/ Execute(k)
    \/ BeginLoop \/ LoopFunc("timer")
    \/ BeginEnd \/ Ending
    \/ Midnight

LogSpec == LogInit /\ [][LogNext]_logVars

----------------------------------------------------------------------------
\* The lines of a kind are written in the order in which they were pushed, each
\* once and with none left out, unless two LoopFuncs overlap: the second may
\* queue its lines before the first.
WrittenInOrder ==
    "twoLoops" \notin logFaults =>
        \A k \in Kinds : \A i \in DOMAIN written[k] : written[k][i] = i

\* What was pushed before the program began to end is written when it has ended,
\* of the kind it joined, unless a batch was queued already (the thread ends
\* after the first) or another LoopFunc held some of it.
EndWritesAll ==
    looper["end"] = Len(Script) /\ logFaults \cap {"twoLoops", "behind"} = {} =>
        \A k \in Kinds : Len(written[k]) >= atEnd[k] \/ (k = "app" /\ "exit" \in logFaults)

\* The program ends once it has begun to, unless Stop's signal comes before the
\* wait it is meant for.
EndEnds == looper["end"] = 1 /\ "preempted" \notin logFaults ~> looper["end"] = Len(Script)

\* After every step the lines that reached the files are those pushed, in order
\* and all of them when the program has ended, and no step adds a batch to a
\* file that is full, but for the files of an earlier run.
KeepsLines ==
    [][/\ WrittenInOrder' /\ EndWritesAll'
       /\ \A k \in Kinds, f \in Files :
             log'[k][f] # log[k][f] /\ "restarted" \notin logFaults => log[k][f] <= MaxSize]_logVars

=============================================================================
