-------------------------- MODULE BackgroundProofs --------------------------
(* Proofs about CoroutineMutex, for any set of coroutines, and about       *)
(* AsyncLog, for any number of lines and days.  What concerns the waiting  *)
(* coroutines is proved for users on a single IO thread: with more it does *)
(* not hold.                                                               *)
EXTENDS CoroutineMutex, AsyncLog, SequenceElements, FiniteSetTheorems

\* Every step keeps the declared types, one case per action.
LEMMA TypeStep == TypeOK /\ [Next]_vars => TypeOK'
<1> SUFFICES ASSUME TypeOK, [Next]_vars PROVE TypeOK'
  OBVIOUS
<1> USE DEF TypeOK
<1>1. ASSUME NEW t \in Threads, NEW c \in Cors, Pause(t, c) PROVE TypeOK'
  BY <1>1 DEF Pause
<1>2. ASSUME NEW t \in Threads, NEW c \in Cors, Continue(t, c) PROVE TypeOK'
  BY <1>2 DEF Continue
<1>3. ASSUME NEW t \in Threads, NEW c \in Cors, LockFree(t, c) PROVE TypeOK'
  BY <1>3 DEF LockFree
<1>4. ASSUME NEW t \in Threads, NEW c \in Cors, LockBusy(t, c) PROVE TypeOK'
  BY <1>4, AppendProperties DEF LockBusy
<1>5. ASSUME NEW t \in Threads, NEW c \in Cors, Yield(t, c) PROVE TypeOK'
  BY <1>5 DEF Yield
<1>6. ASSUME NEW t \in Threads, NEW c \in Cors, Unlock(t, c) PROVE TypeOK'
  <2>1. CASE lock /\ sleepCors # <<>>
    <3>1. Head(sleepCors) \in Cors /\ Tail(sleepCors) \in Seq(Cors)
      BY <2>1, HeadTailProperties
    <3>2. Append(tasks[t], Head(sleepCors)) \in Seq(Cors)
      BY <3>1, AppendProperties
    <3> QED
      BY <1>6, <2>1, <3>1, <3>2 DEF Unlock
  <2>2. CASE ~(lock /\ sleepCors # <<>>)
    BY <1>6, <2>2 DEF Unlock
  <2> QED
    BY <2>1, <2>2
<1>7. ASSUME NEW t \in Threads, RunTask(t) PROVE TypeOK'
  <2>1. Head(tasks[t]) \in Cors /\ Tail(tasks[t]) \in Seq(Cors)
    BY <1>7, HeadTailProperties DEF RunTask
  <2> QED
    BY <1>7, <2>1 DEF RunTask
<1> QED
  BY <1>1, <1>2, <1>3, <1>4, <1>5, <1>6, <1>7 DEF Next, Step, vars

\* The initial state has the declared types.
LEMMA TypeInit == Init => TypeOK
<1> SUFFICES ASSUME Init PROVE TypeOK
  OBVIOUS
<1>1. paused \in [Cors -> Threads \cup {NoThread}]
  BY DEF Init
<1>2. <<>> \in Seq(Cors)
  OBVIOUS
<1>3. tasks \in [Threads -> Seq(Cors)] /\ sleepCors \in Seq(Cors)
  BY <1>2 DEF Init
<1> QED
  BY <1>1, <1>3 DEF Init, TypeOK

\* The mutex's state has the declared types in every behaviour, on any number
\* of threads.
LEMMA TypeCorrect == Spec => []TypeOK
BY TypeInit, TypeStep, PTL DEF Spec

----------------------------------------------------------------------------
(* One IO thread.                                                          *)

\* Those that Lock has suspended, or is about to.
Suspended == {c \in Cors : at[c] \in {"yield", "waiting"}}

\* No coroutine is twice in the queue and the tasks together, and just the
\* suspended ones are there.
Placed(t) ==
    /\ IsInjective(sleepCors) /\ IsInjective(tasks[t])
    /\ ToSet(sleepCors) \cap ToSet(tasks[t]) = {}
    /\ ToSet(sleepCors) \cup ToSet(tasks[t]) = Suspended

\* A coroutine that has not yielded yet is the one that runs; one that runs, or
\* waits for something else, is not suspended.
OneRuns(t) ==
    \A c \in Cors :
        /\ at[c] = "yield" => current[t] = c
        /\ current[t] = c => at[c] # "waiting"
        /\ paused[c] = t => at[c] \notin {"yield", "waiting"} /\ current[t] # c

IInv(t) == TypeOK /\ Placed(t) /\ OneRuns(t)

\* It holds at first.
LEMMA PlacedInit ==
    ASSUME NEW t, Threads = {t}, Init
    PROVE  IInv(t)
<1>1. TypeOK
  BY TypeInit
<1>2. sleepCors = <<>> /\ tasks[t] = <<>> /\ Suspended = {} /\ current[t] = Main
  BY DEF Init, Suspended
<1>3. Placed(t)
  BY <1>2, EmptyElements DEF Placed
<1>4. OneRuns(t)
  BY <1>2, CoroutineMutexAssumption DEF OneRuns, Init, CoroutineMutexAssumption
<1> QED
  BY <1>1, <1>3, <1>4 DEF IInv

\* A step of the one thread keeps it.
LEMMA PlacedStep ==
    ASSUME NEW t, Threads = {t}, IInv(t), [Next]_vars
    PROVE  IInv(t)'
<1>0. TypeOK' /\ TypeOK
  BY TypeStep DEF IInv
<1> USE DEF TypeOK
<1> USE CoroutineMutexAssumption DEF CoroutineMutexAssumption
<1>1. ASSUME NEW c \in Cors, Pause(t, c) PROVE Placed(t)' /\ OneRuns(t)'
  BY <1>0, <1>1 DEF IInv, Pause, Placed, Suspended, OneRuns
<1>2. ASSUME NEW c \in Cors, Continue(t, c) PROVE Placed(t)' /\ OneRuns(t)'
  BY <1>0, <1>2 DEF IInv, Continue, Placed, Suspended, OneRuns
<1>3. ASSUME NEW c \in Cors, LockFree(t, c) PROVE Placed(t)' /\ OneRuns(t)'
  BY <1>0, <1>3 DEF IInv, LockFree, Placed, Suspended, OneRuns
<1>4. ASSUME NEW c \in Cors, LockBusy(t, c) PROVE Placed(t)' /\ OneRuns(t)'
  <2>1. c \notin ToSet(sleepCors) /\ c \notin ToSet(tasks[t])
    BY <1>4 DEF IInv, LockBusy, Placed, Suspended
  <2>2. IsInjective(sleepCors') /\ ToSet(sleepCors') = ToSet(sleepCors) \cup {c}
    BY <1>0, <1>4, <2>1, AppendElements DEF IInv, LockBusy, Placed
  <2>3. Suspended' = Suspended \cup {c} /\ tasks' = tasks
    BY <1>0, <1>4 DEF LockBusy, Suspended
  <2>4. Placed(t)'
    BY <2>1, <2>2, <2>3 DEF IInv, Placed
  <2>5. OneRuns(t)'
    BY <1>0, <1>4 DEF IInv, LockBusy, OneRuns
  <2> QED
    BY <2>4, <2>5
<1>5. ASSUME NEW c \in Cors, Yield(t, c) PROVE Placed(t)' /\ OneRuns(t)'
  <2>1. Suspended' = Suspended
    BY <1>0, <1>5 DEF Yield, Suspended
  <2>2. Placed(t)'
    BY <1>5, <2>1 DEF IInv, Placed, Yield
  <2>3. OneRuns(t)'
    BY <1>0, <1>5 DEF IInv, Yield, OneRuns
  <2> QED
    BY <2>2, <2>3
<1>6. ASSUME NEW c \in Cors, Unlock(t, c) PROVE Placed(t)' /\ OneRuns(t)'
  <2>1. Suspended' = Suspended
    BY <1>0, <1>6 DEF Unlock, Suspended
  <2>2. OneRuns(t)'
    BY <1>0, <1>6 DEF IInv, Unlock, OneRuns
  <2>3. CASE lock /\ sleepCors # <<>>
    <3>0. sleepCors \in Seq(Cors) /\ sleepCors' = Tail(sleepCors) /\ IsInjective(sleepCors)
      BY <1>0, <1>6, <2>3 DEF IInv, Unlock, Placed
    <3>1. /\ IsInjective(sleepCors') /\ ToSet(sleepCors') = ToSet(sleepCors) \ {Head(sleepCors)}
          /\ Head(sleepCors) \in ToSet(sleepCors) /\ Head(sleepCors) \in Cors
      BY <2>3, <3>0, TailElements, HeadTailProperties
    <3>2. Head(sleepCors) \notin ToSet(tasks[t])
      BY <3>1 DEF IInv, Placed
    <3>3. tasks'[t] = Append(tasks[t], Head(sleepCors)) /\ tasks[t] \in Seq(Cors)
      BY <1>0, <1>6, <2>3 DEF Unlock
    <3>4. IsInjective(tasks'[t]) /\ ToSet(tasks'[t]) = ToSet(tasks[t]) \cup {Head(sleepCors)}
      BY <3>1, <3>2, <3>3, AppendElements DEF IInv, Placed
    <3>5. Placed(t)'
      BY <2>1, <3>1, <3>2, <3>4 DEF IInv, Placed
    <3> QED
      BY <2>2, <3>5
  <2>4. CASE ~(lock /\ sleepCors # <<>>)
    BY <1>6, <2>1, <2>2, <2>4 DEF IInv, Placed, Unlock
  <2> QED
    BY <2>3, <2>4
<1>7. ASSUME RunTask(t) PROVE Placed(t)' /\ OneRuns(t)'
  <2> DEFINE c == Head(tasks[t])
  <2>1. /\ IsInjective(tasks'[t]) /\ ToSet(tasks'[t]) = ToSet(tasks[t]) \ {c}
        /\ c \in ToSet(tasks[t]) /\ c \in Cors
    BY <1>0, <1>7, TailElements, HeadTailProperties DEF IInv, RunTask, Placed
  <2>2. at[c] = "waiting"
    BY <1>7, <2>1 DEF IInv, RunTask, Placed, OneRuns, Suspended
  <2>3. at' = [at EXCEPT ![c] = "in"] /\ current' = [current EXCEPT ![t] = c]
    BY <1>0, <1>7, <2>1, <2>2 DEF RunTask
  <2> HIDE DEF c
  <2>4. Suspended' = Suspended \ {c}
    BY <1>0, <2>1, <2>3 DEF Suspended
  <2>5. Placed(t)'
    BY <1>7, <2>1, <2>4 DEF IInv, Placed, RunTask
  <2>6. OneRuns(t)'
    BY <1>0, <1>7, <2>1, <2>2, <2>3 DEF IInv, RunTask, OneRuns
  <2> QED
    BY <2>5, <2>6
<1>8. CASE UNCHANGED vars
  BY <1>8 DEF IInv, Placed, Suspended, OneRuns, vars
<1> QED
  BY <1>0, <1>1, <1>2, <1>3, <1>4, <1>5, <1>6, <1>7, <1>8 DEF IInv, Next, Step

\* Where no element is twice, one that is there has one index, one that is not
\* there has none.
LEMMA OneIndex ==
    ASSUME NEW S, NEW s \in Seq(S), NEW x, IsInjective(s)
    PROVE  /\ x \in ToSet(s) => \E i \in DOMAIN s : {j \in DOMAIN s : s[j] = x} = {i}
           /\ x \notin ToSet(s) => {j \in DOMAIN s : s[j] = x} = {}
BY DEF IsInjective, ToSet

\* The invariant gives every suspended coroutine one place.
LEMMA PlacedOnce ==
    ASSUME NEW t, Threads = {t}, IInv(t)
    PROVE  WaitingOnce
<1> SUFFICES ASSUME NEW c \in Cors, at[c] \in {"yield", "waiting"}
             PROVE  Cardinality({i \in DOMAIN sleepCors : sleepCors[i] = c})
                      + Cardinality({x \in UNION {{u} \X DOMAIN tasks[u] : u \in Threads} :
                                       tasks[x[1]][x[2]] = c}) = 1
  BY DEF WaitingOnce
<1> DEFINE places == {i \in DOMAIN sleepCors : sleepCors[i] = c}
           posted == {i \in DOMAIN tasks[t] : tasks[t][i] = c}
           listed == {x \in UNION {{u} \X DOMAIN tasks[u] : u \in Threads} : tasks[x[1]][x[2]] = c}
<1>1. sleepCors \in Seq(Cors) /\ tasks[t] \in Seq(Cors)
  BY DEF IInv, TypeOK
<1>2. IsInjective(sleepCors) /\ IsInjective(tasks[t]) /\ ToSet(sleepCors) \cap ToSet(tasks[t]) = {}
  BY DEF IInv, Placed
<1>3. c \in ToSet(sleepCors) \/ c \in ToSet(tasks[t])
  BY DEF IInv, Placed, Suspended
<1>4. listed = {t} \X posted
  <2>1. UNION {{u} \X DOMAIN tasks[u] : u \in Threads} = {t} \X DOMAIN tasks[t]
    OBVIOUS
  <2>2. \A i \in DOMAIN tasks[t] : <<t, i>>[1] = t /\ <<t, i>>[2] = i
    OBVIOUS
  <2> QED
    BY <2>1, <2>2
<1>5. CASE c \in ToSet(sleepCors)
  <2>1. PICK i \in DOMAIN sleepCors : places = {i}
    BY <1>1, <1>2, <1>5, OneIndex
  <2>2. posted = {}
    BY <1>1, <1>2, <1>5, OneIndex
  <2>3. listed = {}
    BY <1>4, <2>2
  <2>4. Cardinality(places) = 1 /\ Cardinality(listed) = 0
    BY <2>1, <2>3, FS_Singleton, FS_EmptySet
  <2> QED
    BY <2>4
<1>6. CASE c \notin ToSet(sleepCors)
  <2>1. PICK i \in DOMAIN tasks[t] : posted = {i}
    BY <1>1, <1>2, <1>3, <1>6, OneIndex
  <2>2. places = {}
    BY <1>1, <1>2, <1>6, OneIndex
  <2>3. listed = {<<t, i>>}
    BY <1>4, <2>1
  <2>4. Cardinality(places) = 0 /\ Cardinality(listed) = 1
    BY <2>2, <2>3, FS_Singleton, FS_EmptySet
  <2> QED
    BY <2>4
<1> QED
  BY <1>5, <1>6

\* The invariant holds in every state, on one IO thread.
LEMMA Inductive ==
    ASSUME NEW t, Threads = {t}
    PROVE  Spec => []IInv(t)
<1>1. Init => IInv(t)
  BY PlacedInit
<1>2. IInv(t) /\ [Next]_vars => IInv(t)'
  BY PlacedStep
<1> QED
  BY <1>1, <1>2, PTL DEF Spec

\* With all users on one IO thread, every coroutine that Lock has suspended has
\* exactly one place in the queue or one task that resumes it.
LEMMA WaitingOnceHolds ==
    ASSUME NEW t, Threads = {t}
    PROVE  Spec => []WaitingOnce
<1>1. IInv(t) => WaitingOnce
  BY PlacedOnce
<1>2. Spec => []IInv(t)
  BY Inductive
<1> QED
  BY <1>1, <1>2, PTL

\* The mutex keeps its shape and Unlock neither loses nor doubles a wake-up,
\* for any number of coroutines on one IO thread.
THEOREM SoundHolds ==
    ASSUME NEW t, Threads = {t}
    PROVE  Spec => []Sound
<1>1. TypeOK /\ WaitingOnce => Sound
  BY DEF Sound
<1>2. Spec => []WaitingOnce
  BY WaitingOnceHolds
<1> QED
  BY <1>1, <1>2, TypeCorrect, PTL

----------------------------------------------------------------------------
(* AsyncLog: numbers that follow one another.                              *)

\* The lines of s follow line number n.
Follows(s, n) == \A i \in 1 .. Len(s) : s[i] = n + i

\* The number of the last line of the first i batches, when n lines went before.
EndOf(n, bs, i) == IF i = 0 THEN n ELSE bs[i][Len(bs[i])]
EndOfAll(n, bs) == EndOf(n, bs, Len(bs))

\* No batch is empty, and each follows the one before it.
Chain(n, bs) == \A i \in 1 .. Len(bs) : bs[i] # <<>> /\ Follows(bs[i], EndOf(n, bs, i - 1))

\* Nothing to say of the empty sequences.
LEMMA FollowsEmpty == \A n : Follows(<<>>, n) /\ Chain(n, <<>>) /\ EndOfAll(n, <<>>) = n
BY DEF Follows, Chain, EndOf, EndOfAll

\* The next number may be appended.
LEMMA FollowsAppend ==
    ASSUME NEW n \in Nat, NEW s \in Seq(Nat), Follows(s, n)
    PROVE  Follows(Append(s, n + Len(s) + 1), n)
<1>1. /\ Len(s) \in Nat /\ Len(Append(s, n + Len(s) + 1)) = Len(s) + 1
      /\ \A i \in 1 .. Len(s) : Append(s, n + Len(s) + 1)[i] = s[i]
      /\ Append(s, n + Len(s) + 1)[Len(s) + 1] = n + Len(s) + 1
  BY AppendProperties
<1> QED
  BY <1>1 DEF Follows

\* A run of numbers may be appended that follows.
LEMMA FollowsConcat ==
    ASSUME NEW n \in Nat, NEW r \in Seq(Nat), NEW s \in Seq(Nat),
           Follows(r, n), Follows(s, n + Len(r))
    PROVE  Follows(r \o s, n)
<1>1. /\ Len(r) \in Nat /\ Len(s) \in Nat /\ Len(r \o s) = Len(r) + Len(s)
      /\ \A i \in 1 .. (Len(r) + Len(s)) : (r \o s)[i] = IF i <= Len(r) THEN r[i] ELSE s[i - Len(r)]
  BY ConcatProperties
<1> SUFFICES ASSUME NEW i \in 1 .. (Len(r) + Len(s)) PROVE (r \o s)[i] = n + i
  BY <1>1 DEF Follows
<1>2. CASE i <= Len(r)
  BY <1>1, <1>2 DEF Follows
<1>3. CASE i > Len(r)
  BY <1>1, <1>3 DEF Follows
<1> QED
  BY <1>1, <1>2, <1>3

\* The ends of a chain are numbers.
LEMMA EndIsNumber ==
    ASSUME NEW n \in Nat, NEW bs \in Seq(Seq(Nat)), Chain(n, bs), NEW i \in 0 .. Len(bs)
    PROVE  EndOf(n, bs, i) \in Nat
<1>1. CASE i = 0
  BY <1>1 DEF EndOf
<1>2. CASE i # 0
  <2>1. i \in 1 .. Len(bs) /\ bs[i] \in Seq(Nat) /\ bs[i] # <<>>
    BY <1>2, ElementOfSeq DEF Chain
  <2>2. Len(bs[i]) \in 1 .. Len(bs[i])
    BY <2>1
  <2> QED
    BY <1>2, <2>1, <2>2, ElementOfSeq DEF EndOf
<1> QED
  BY <1>1, <1>2

\* A batch that follows the last one makes the chain longer.
LEMMA ChainAppend ==
    ASSUME NEW n \in Nat, NEW bs \in Seq(Seq(Nat)), Chain(n, bs),
           NEW b \in Seq(Nat), b # <<>>, Follows(b, EndOfAll(n, bs))
    PROVE  Chain(n, Append(bs, b)) /\ EndOfAll(n, Append(bs, b)) = EndOfAll(n, bs) + Len(b)
<1> DEFINE cs == Append(bs, b)
<1>1. /\ Len(bs) \in Nat /\ Len(cs) = Len(bs) + 1 /\ cs[Len(bs) + 1] = b
      /\ \A i \in 1 .. Len(bs) : cs[i] = bs[i]
  BY AppendProperties
<1> HIDE DEF cs
<1>2. \A i \in 0 .. Len(bs) : EndOf(n, cs, i) = EndOf(n, bs, i)
  BY <1>1 DEF EndOf
<1>3. Chain(n, cs)
  <2> SUFFICES ASSUME NEW i \in 1 .. (Len(bs) + 1)
               PROVE  cs[i] # <<>> /\ Follows(cs[i], EndOf(n, cs, i - 1))
    BY <1>1 DEF Chain
  <2>1. EndOf(n, cs, i - 1) = EndOf(n, bs, i - 1)
    BY <1>1, <1>2
  <2>2. CASE i = Len(bs) + 1
    BY <1>1, <2>1, <2>2 DEF EndOfAll
  <2>3. CASE i # Len(bs) + 1
    <3>1. i \in 1 .. Len(bs) /\ cs[i] = bs[i]
      BY <1>1, <2>3
    <3>2. bs[i] # <<>> /\ Follows(bs[i], EndOf(n, bs, i - 1))
      BY <3>1 DEF Chain
    <3> QED
      BY <2>1, <3>1, <3>2
  <2> QED
    BY <2>2, <2>3
<1>4. EndOfAll(n, cs) = b[Len(b)] /\ Len(b) \in 1 .. Len(b)
  BY <1>1 DEF EndOfAll, EndOf
<1> QED
  BY <1>3, <1>4 DEF Follows, cs

\* The first batch of a chain follows what went before, and the others follow it.
LEMMA ChainTail ==
    ASSUME NEW n \in Nat, NEW bs \in Seq(Seq(Nat)), Chain(n, bs), bs # <<>>
    PROVE  /\ Follows(Head(bs), n) /\ Head(bs) # <<>>
           /\ Chain(n + Len(Head(bs)), Tail(bs))
           /\ EndOfAll(n + Len(Head(bs)), Tail(bs)) = EndOfAll(n, bs)
<1> DEFINE b == Head(bs)
           cs == Tail(bs)
<1>1. /\ Len(bs) \in Nat \ {0} /\ Len(cs) = Len(bs) - 1 /\ b = bs[1] /\ b \in Seq(Nat)
      /\ \A i \in 1 .. (Len(bs) - 1) : cs[i] = bs[i + 1]
  BY HeadTailProperties
<1> HIDE DEF b, cs
<1>2. Follows(b, n) /\ b # <<>>
  BY <1>1 DEF Chain, EndOf
<1>3. Len(b) \in Nat /\ b[Len(b)] = n + Len(b)
  <2>1. Len(b) \in 1 .. Len(b)
    BY <1>1, <1>2
  <2> QED
    BY <1>2, <2>1 DEF Follows
<1>4. \A i \in 0 .. (Len(bs) - 1) : EndOf(n + Len(b), cs, i) = EndOf(n, bs, i + 1)
  <2> SUFFICES ASSUME NEW i \in 0 .. (Len(bs) - 1)
               PROVE  EndOf(n + Len(b), cs, i) = EndOf(n, bs, i + 1)
    OBVIOUS
  <2>1. CASE i = 0
    BY <1>1, <1>3, <2>1 DEF EndOf
  <2>2. CASE i # 0
    BY SMTT(30), <1>1, <2>2 DEF EndOf
  <2> QED
    BY <2>1, <2>2
<1>5. Chain(n + Len(b), cs)
  <2> SUFFICES ASSUME NEW i \in 1 .. (Len(bs) - 1)
               PROVE  cs[i] # <<>> /\ Follows(cs[i], EndOf(n + Len(b), cs, i - 1))
    BY <1>1 DEF Chain
  <2>1. cs[i] = bs[i + 1] /\ EndOf(n + Len(b), cs, i - 1) = EndOf(n, bs, i)
    BY <1>1, <1>4
  <2> QED
    BY <1>1, <2>1 DEF Chain
<1>6. EndOfAll(n + Len(b), cs) = EndOfAll(n, bs)
  BY <1>1, <1>4 DEF EndOfAll
<1> QED
  BY <1>2, <1>5, <1>6 DEF b, cs

----------------------------------------------------------------------------
(* AsyncLog: the invariant.                                                *)

\* The places of Script.
SwapAt(k) == IF k = "app" THEN 1 ELSE 2
PushAt(k) == IF k = "rpc" THEN 3 ELSE 4
StopAt(k) == IF k = "rpc" THEN 5 ELSE 6
JoinAt(k) == IF k = "rpc" THEN 7 ELSE 8

\* The shape of the logger's state; a thread that is to write has a batch.
LogTypes ==
    /\ pushed \in [Kinds -> Nat] /\ atEnd \in [Kinds -> Nat]
    /\ buffer \in [Kinds -> Seq(Nat)] /\ written \in [Kinds -> Seq(Nat)]
    /\ batches \in [Kinds -> Seq(Seq(Nat))]
    /\ moved \in [Loopers -> [Kinds -> Seq(Nat)]]
    /\ looper \in [Loopers -> 0 .. 9] /\ looper["timer"] <= 4
    /\ stopped \in [Kinds -> BOOLEAN] /\ isStop \in [Kinds -> BOOLEAN]
    /\ writer \in [Kinds -> {"look", "about", "asleep", "write", "ended"}]
    /\ \A k \in Kinds : writer[k] = "write" => batches[k] # <<>>

FileTypes ==
    /\ log \in [Kinds -> [Files -> Nat]]
    /\ day \in Nat /\ date \in [Kinds -> Nat] /\ no \in [Kinds -> Nat]
    /\ file \in [Kinds -> {<<>>} \cup (Nat \X Nat)]

\* The open file is the last one of its date; files that follow it are empty
\* when none was there before.
LastFile(k) ==
    /\ date[k] <= day
    /\ file[k] # <<>> => file[k] = <<date[k], no[k]>>
    /\ "restarted" \notin logFaults =>
          \A f \in Files : log[k][f] # 0 => f[1] < date[k] \/ (f[1] = date[k] /\ f[2] <= no[k])

\* What a LoopFunc has moved it has between its Swap and its Push, and when two
\* of them are never at it at once only one has.
OneLoop ==
    /\ looper["timer"] = 0 \/ looper["end"] = 0
    /\ \A l \in Loopers, k \in Kinds :
          moved[l][k] # <<>> => looper[l] > SwapAt(k) /\ looper[l] <= PushAt(k)

\* The number of the last line that is queued, and of the last that has left the
\* buffer.
Queued(k) == EndOfAll(Len(written[k]), batches[k])
Swapped(k) == Queued(k) + Len(moved["timer"][k]) + Len(moved["end"][k])

\* From the first line written to the last one pushed the numbers follow one
\* another, through the files, the queue, what is moved and the buffer.
InOrder(k) ==
    /\ Follows(written[k], 0)
    /\ Chain(Len(written[k]), batches[k])
    /\ \A l \in Loopers : Follows(moved[l][k], Queued(k))
    /\ Follows(buffer[k], Swapped(k))
    /\ pushed[k] = Swapped(k) + Len(buffer[k])

\* Without a backlog a LoopFunc finds the queue empty, but for the batch in the
\* thread's hands, and queues one; a thread that has seen the stop has the last
\* batch in its hands, one that has ended none.
OneBatch(k) ==
    /\ Len(Tasks(k)) <= 1
    /\ \A l \in Loopers : looper[l] \in 1 .. PushAt(k) => Tasks(k) = <<>>
    /\ stopped[k] => looper["end"] > StopAt(k)
    /\ isStop[k] => stopped[k] /\ (writer[k] = "write" => Tasks(k) = <<>>)
    /\ writer[k] = "ended" => stopped[k] /\ batches[k] = <<>>

\* What the end has to write leaves the buffer with its Swap, and the joins wait
\* for the threads.
EndCounts(k) ==
    /\ looper["end"] > 0 => atEnd[k] <= pushed[k]
    /\ looper["end"] > SwapAt(k) => atEnd[k] + Len(buffer[k]) <= pushed[k]
    /\ looper["end"] > JoinAt(k) => writer[k] = "ended" \/ (k = "app" /\ "exit" \in logFaults)

Single == "twoLoops" \notin logFaults
Ahead == "twoLoops" \notin logFaults /\ "behind" \notin logFaults

\* The strengthening of KeepsLines.
LogInv ==
    /\ LogTypes /\ FileTypes
    /\ \A k \in Kinds : LastFile(k)
    /\ Single => OneLoop /\ \A k \in Kinds : InOrder(k)
    /\ Ahead => \A k \in Kinds : OneBatch(k) /\ EndCounts(k)

\* Where a LoopFunc is, by the step it takes.
LEMMA Places ==
    ASSUME NEW l \in Loopers, NEW k \in Kinds, looper[l] \in 0 .. 9
    PROVE  /\ At(l, "swap", k) => looper[l] = SwapAt(k)
           /\ At(l, "push", k) => looper[l] = PushAt(k)
           /\ At(l, "stop", k) => looper[l] = StopAt(k)
           /\ At(l, "join", k) => looper[l] = JoinAt(k)
<1>1. /\ Script[1] = <<"swap", "app">> /\ Script[2] = <<"swap", "rpc">>
      /\ Script[3] = <<"push", "rpc">> /\ Script[4] = <<"push", "app">>
      /\ Script[5] = <<"stop", "rpc">> /\ Script[6] = <<"stop", "app">>
      /\ Script[7] = <<"join", "rpc">> /\ Script[8] = <<"join", "app">>
      /\ Script[9] = <<"ended", "app">>
  BY DEF Script
<1>2. looper[l] \in {0, 1, 2, 3, 4, 5, 6, 7, 8, 9}
  OBVIOUS
<1> QED
  BY <1>1, <1>2 DEF At, Kinds, SwapAt, PushAt, StopAt, JoinAt

\* A step of a LoopFunc moves it on, or ends the timer's.
LEMMA Moves ==
    ASSUME LogTypes, NEW l \in Loopers, looper[l] \in 1 .. 8,
           l = "timer" => looper[l] <= 4, Onward(l)
    PROVE  /\ looper' \in [Loopers -> 0 .. 9] /\ looper'["timer"] <= 4
           /\ looper'[l] = IF l = "timer" /\ looper[l] = 4 THEN 0 ELSE looper[l] + 1
           /\ \A m \in Loopers : m # l => looper'[m] = looper[m]
BY DEF LogTypes, Onward, Loopers

\* Every step keeps the shape of the buffers, the queues and the threads.
LEMMA LogTypeStep ==
    ASSUME LogTypes, LogNext
    PROVE  LogTypes'
<1> USE DEF LogTypes, writerVars, fileVars
<1>1. ASSUME NEW k \in Kinds, PushLog(k) PROVE LogTypes'
  <2>1. pushed'[k] \in Nat
    <3>1. pushed' = [pushed EXCEPT ![k] = @ + 1] /\ pushed \in [Kinds -> Nat]
      BY <1>1 DEF PushLog
    <3> QED
      BY <3>1
  <2>2. Append(buffer[k], pushed'[k]) \in Seq(Nat)
    BY <2>1, AppendProperties
  <2> QED
    BY <1>1, <2>1, <2>2 DEF PushLog
<1>2. ASSUME NEW k \in Kinds, Look(k) PROVE LogTypes'
  BY <1>2 DEF Look
<1>3. ASSUME NEW k \in Kinds, Sleep(k) PROVE LogTypes'
  BY <1>3 DEF Sleep
<1>4. ASSUME NEW k \in Kinds, Write(k) PROVE LogTypes'
  <2>1. Head(batches[k]) \in Seq(Nat) /\ Tail(batches[k]) \in Seq(Seq(Nat))
    BY <1>4, HeadTailProperties DEF Write
  <2>2. written[k] \o Head(batches[k]) \in Seq(Nat)
    BY <2>1, ConcatProperties
  <2>3. /\ written' = [written EXCEPT ![k] = @ \o Head(batches[k])]
        /\ batches' = [batches EXCEPT ![k] = Tail(@)]
        /\ writer' = [writer EXCEPT ![k] = IF isStop[k] THEN "ended" ELSE "look"]
        /\ UNCHANGED <<pushed, buffer, looper, moved, stopped, isStop, atEnd>>
    BY <1>4 DEF Write
  <2>4. writer' \in [Kinds -> {"look", "about", "asleep", "write", "ended"}]
    BY <2>3
  <2>5. \A m \in Kinds : writer'[m] = "write" => batches'[m] # <<>>
    BY <2>3
  <2> QED
    BY <2>1, <2>2, <2>3, <2>4, <2>5
<1>5. CASE BeginLoop
  BY <1>5 DEF BeginLoop, MayBegin, Loopers
<1>6. CASE BeginEnd
  BY <1>6 DEF BeginEnd, MayBegin, Loopers
<1>7. ASSUME NEW l \in Loopers, NEW k \in Kinds, Swap(l, k) PROVE LogTypes'
  <2>1. looper[l] = SwapAt(k) /\ SwapAt(k) \in 1 .. 2
    BY <1>7, Places DEF Swap, SwapAt
  <2>2. looper' \in [Loopers -> 0 .. 9] /\ looper'["timer"] <= 4
    BY <1>7, <2>1, Moves DEF Swap
  <2>3. moved' \in [Loopers -> [Kinds -> Seq(Nat)]] /\ buffer' \in [Kinds -> Seq(Nat)]
    BY <1>7 DEF Swap
  <2> QED
    BY <1>7, <2>2, <2>3 DEF Swap
<1>8. ASSUME NEW l \in Loopers, NEW k \in Kinds, Push(l, k) PROVE LogTypes'
  <2>1. looper[l] = PushAt(k) /\ PushAt(k) \in 3 .. 4
    BY <1>8, Places DEF Push, PushAt
  <2>2. looper' \in [Loopers -> 0 .. 9] /\ looper'["timer"] <= 4
    BY <1>8, <2>1, Moves DEF Push
  <2>3. moved' \in [Loopers -> [Kinds -> Seq(Nat)]]
    BY <1>8 DEF Push
  <2>4. Append(batches[k], moved[l][k]) \in Seq(Seq(Nat)) /\ Append(batches[k], moved[l][k]) # <<>>
    <3>1. batches[k] \in Seq(Seq(Nat)) /\ moved[l][k] \in Seq(Nat)
      OBVIOUS
    <3>2. /\ Append(batches[k], moved[l][k]) \in Seq(Seq(Nat))
          /\ Len(Append(batches[k], moved[l][k])) = Len(batches[k]) + 1 /\ Len(batches[k]) \in Nat
      BY <3>1, AppendProperties
    <3>3. Len(<<>>) = 0 /\ Len(batches[k]) + 1 # 0
      BY <3>2
    <3> QED
      BY <3>2, <3>3
  <2>5. batches' \in [Kinds -> Seq(Seq(Nat))] /\ \A m \in Kinds : batches[m] # <<>> => batches'[m] # <<>>
    BY <1>8, <2>4 DEF Push
  <2>6. /\ writer' \in [Kinds -> {"look", "about", "asleep", "write", "ended"}]
        /\ \A m \in Kinds : writer'[m] = "write" => writer[m] = "write"
    BY <1>8 DEF Push, Signal
  <2> QED
    BY <1>8, <2>2, <2>3, <2>5, <2>6 DEF Push
<1>9. ASSUME NEW k \in Kinds, Stop(k) PROVE LogTypes'
  <2>1. looper["end"] = StopAt(k) /\ StopAt(k) \in 5 .. 6
    BY <1>9, Places DEF Stop, StopAt, Loopers
  <2>2. looper' \in [Loopers -> 0 .. 9] /\ looper'["timer"] <= 4
    BY <1>9, <2>1, Moves DEF Stop, Loopers
  <2>3. /\ writer' \in [Kinds -> {"look", "about", "asleep", "write", "ended"}]
        /\ \A m \in Kinds : writer'[m] = "write" => writer[m] = "write"
    BY <1>9 DEF Stop, Signal
  <2> QED
    BY <1>9, <2>2, <2>3 DEF Stop
<1>10. ASSUME NEW k \in Kinds, Join(k) PROVE LogTypes'
  <2>1. looper["end"] = JoinAt(k) /\ JoinAt(k) \in 7 .. 8
    BY <1>10, Places DEF Join, JoinAt, Loopers
  <2>2. looper' \in [Loopers -> 0 .. 9] /\ looper'["timer"] <= 4
    BY SMTT(30), <1>10, <2>1, Moves DEF Join, Loopers
  <2> QED
    BY <1>10, <2>2 DEF Join
<1>11. CASE Midnight
  BY <1>11 DEF Midnight
<1>12. "timer" \in Loopers /\ "end" \in Loopers
  BY DEF Loopers
<1> QED
  BY <1>1, <1>2, <1>3, <1>4, <1>5, <1>6, <1>7, <1>8, <1>9, <1>10, <1>11, <1>12
  DEF LogNext, Execute, LoopFunc, Ending

\* A batch goes to the file of today that Write has chosen: the one that was open,
\* if it is not full, or the next, which is empty when none was there before.
LEMMA WriteTo ==
    ASSUME LogTypes, FileTypes, NEW k \in Kinds, LastFile(k), Write(k)
    PROVE  /\ date' = [date EXCEPT ![k] = day] /\ no' \in [Kinds -> Nat]
           /\ file' \in [Kinds -> {<<>>} \cup (Nat \X Nat)]
           /\ \A m \in Kinds \ {k} : file'[m] = file[m] /\ no'[m] = no[m] /\ log'[m] = log[m]
           /\ file'[k] = <<day, no'[k]>>
           /\ date[k] = day => no'[k] \in {no[k], no[k] + 1}
           /\ log' \in [Kinds -> [Files -> Nat]]
           /\ \A f \in Files :
                 /\ log'[k][f] # log[k][f] => f = file'[k]
                 /\ f = file'[k] /\ "restarted" \notin logFaults => log[k][f] <= MaxSize
<1> DEFINE base == IF date[k] = day THEN no[k] ELSE 0
           open == IF date[k] = day /\ file[k] # <<>> THEN file[k] ELSE <<day, base>>
           full == log[k][open] > MaxSize
           number == IF full THEN base + 1 ELSE base
<1>1. /\ date' = [date EXCEPT ![k] = day]
      /\ no' = [no EXCEPT ![k] = number]
      /\ file' = [file EXCEPT ![k] = IF full THEN <<day, base + 1>> ELSE open]
      /\ log' = [log EXCEPT ![k][file'[k]] = @ + Len(Head(batches[k]))]
  BY DEF Write
<1>2. base \in Nat /\ number \in Nat /\ (date[k] = day => base = no[k])
  BY DEF FileTypes
<1>3. open = <<day, base>>
  BY DEF LastFile
<1>4. /\ log \in [Kinds -> [Files -> Nat]] /\ no \in [Kinds -> Nat] /\ day \in Nat
      /\ file \in [Kinds -> {<<>>} \cup (Nat \X Nat)] /\ date[k] \in Nat
  BY DEF FileTypes
<1>5. Len(Head(batches[k])) \in Nat
  <2>1. batches[k] \in Seq(Seq(Nat)) /\ batches[k] # <<>>
    BY DEF LogTypes, Write
  <2> QED
    BY <2>1, HeadTailProperties
<1>6. full => number = base + 1
  OBVIOUS
<1>7. ~full => number = base
  OBVIOUS
<1>8. "restarted" \notin logFaults => \A f \in Files : f = open /\ ~full => log[k][f] <= MaxSize
  BY <1>4, AsyncLogAssumption DEF AsyncLogAssumption
<1> HIDE DEF full, number, open, base
<1>9. file'[k] = <<day, number>> /\ no'[k] = number
  BY <1>1, <1>3, <1>4, <1>6, <1>7
<1>10. /\ log' \in [Kinds -> [Files -> Nat]]
       /\ \A m \in Kinds \ {k} : log'[m] = log[m]
       /\ \A f \in Files : log'[k][f] # log[k][f] => f = file'[k]
  <2> DEFINE x == file'[k]
             h == log[k]
             n == Len(Head(batches[k]))
             g == [h EXCEPT ![x] = h[x] + n]
  <2>1. log' = [log EXCEPT ![k] = g]
    BY <1>1
  <2>2. h \in [Files -> Nat] /\ n \in Nat
    BY <1>4, <1>5
  <2>3. g \in [Files -> Nat] /\ \A f \in Files : g[f] # h[f] => f = x
    <3> HIDE DEF x, h, n
    <3>1. g = [f \in Files |-> IF f = x THEN h[x] + n ELSE h[f]]
      BY <2>2
    <3>2. \A f \in Files : (IF f = x THEN h[x] + n ELSE h[f]) \in Nat
      BY <2>2
    <3> QED
      BY <3>1, <3>2
  <2> HIDE DEF g
  <2> QED
    BY <1>4, <2>1, <2>3
<1>11. /\ no' \in [Kinds -> Nat] /\ file' \in [Kinds -> {<<>>} \cup (Nat \X Nat)]
       /\ \A m \in Kinds \ {k} : file'[m] = file[m] /\ no'[m] = no[m]
  BY <1>1, <1>2, <1>3, <1>4
<1>12. ASSUME NEW f \in Files, f = file'[k], "restarted" \notin logFaults
       PROVE  log[k][f] <= MaxSize
  <2>1. CASE full
    <3>1. f[1] = day /\ f[2] = base + 1
      BY <1>6, <1>9, <1>12, <2>1
    <3>2. ~(f[1] < date[k]) /\ ~(f[1] = date[k] /\ f[2] <= no[k])
      BY <1>2, <1>4, <3>1 DEF LastFile
    <3>3. log[k][f] = 0
      BY <1>12, <3>2 DEF LastFile
    <3> QED
      BY <3>3, AsyncLogAssumption DEF AsyncLogAssumption
  <2>2. CASE ~full
    BY <1>3, <1>7, <1>8, <1>9, <1>12, <2>2
  <2> QED
    BY <2>1, <2>2
<1> QED
  BY <1>1, <1>2, <1>6, <1>7, <1>9, <1>10, <1>11, <1>12

\* Every step but Write leaves the files as they are.
LEMMA FilesStay ==
    ASSUME LogNext, \A k \in Kinds : ~Write(k)
    PROVE  UNCHANGED <<fileVars, logFaults>> /\ (day' = day \/ Midnight)
<1> USE DEF writerVars
<1>1. ASSUME NEW k \in Kinds, PushLog(k) \/ Look(k) \/ Sleep(k) \/ Stop(k) \/ Join(k)
      PROVE  UNCHANGED <<fileVars, logFaults, day>>
  BY <1>1 DEF PushLog, Look, Sleep, Stop, Join
<1>2. ASSUME NEW l \in Loopers, NEW k \in Kinds, Swap(l, k) \/ Push(l, k)
      PROVE  UNCHANGED <<fileVars, logFaults, day>>
  BY <1>2 DEF Swap, Push
<1>3. BeginLoop \/ BeginEnd => UNCHANGED <<fileVars, logFaults, day>>
  BY DEF BeginLoop, BeginEnd
<1>4. Midnight => UNCHANGED <<fileVars, logFaults>>
  BY DEF Midnight
<1>5. "timer" \in Loopers /\ "end" \in Loopers
  BY DEF Loopers
<1> QED
  BY <1>1, <1>2, <1>3, <1>4, <1>5 DEF LogNext, Execute, LoopFunc, Ending

\* Every step keeps the files' part of the invariant.
LEMMA FileStep ==
    ASSUME LogTypes, FileTypes, \A k \in Kinds : LastFile(k), LogNext
    PROVE  FileTypes' /\ \A k \in Kinds : LastFile(k)'
<1>1. ASSUME NEW k \in Kinds, Write(k) PROVE FileTypes' /\ \A m \in Kinds : LastFile(m)'
  <2>1. day' = day /\ logFaults' = logFaults
    BY <1>1 DEF Write
  <2>2. FileTypes'
    BY <1>1, <2>1, WriteTo DEF FileTypes
  <2>3. ASSUME NEW m \in Kinds, m # k PROVE LastFile(m)'
    <3>1. date'[m] = date[m] /\ no'[m] = no[m] /\ file'[m] = file[m] /\ log'[m] = log[m]
      BY <1>1, <2>3, WriteTo DEF FileTypes
    <3> QED
      BY <2>1, <3>1 DEF LastFile
  <2>4. LastFile(k)'
    <3>1. date'[k] = day /\ file'[k] = <<day, no'[k]>> /\ no'[k] \in Nat /\ day \in Nat
      BY <1>1, WriteTo DEF FileTypes
    <3>2. ASSUME NEW f \in Files, "restarted" \notin logFaults, log'[k][f] # 0
          PROVE  f[1] < day \/ (f[1] = day /\ f[2] <= no'[k])
      <4>1. CASE f = file'[k]
        BY <3>1, <4>1
      <4>2. CASE f # file'[k]
        <5>1. log'[k][f] = log[k][f]
          BY <1>1, <4>2, WriteTo
        <5>2. f[1] < date[k] \/ (f[1] = date[k] /\ f[2] <= no[k])
          BY <3>2, <5>1 DEF LastFile
        <5>3. date[k] <= day /\ date[k] \in Nat /\ no[k] \in Nat
          BY DEF LastFile, FileTypes
        <5>4. date[k] = day => no'[k] \in {no[k], no[k] + 1}
          BY <1>1, WriteTo
        <5>5. f[1] \in Nat /\ f[2] \in Nat
          BY DEF Files
        <5> QED
          BY <3>1, <5>2, <5>3, <5>4, <5>5
      <4> QED
        BY <4>1, <4>2
    <3> QED
      BY <2>1, <3>1, <3>2 DEF LastFile
  <2> QED
    BY <2>2, <2>3, <2>4
<1>2. ASSUME \A k \in Kinds : ~Write(k) PROVE FileTypes' /\ \A m \in Kinds : LastFile(m)'
  <2>1. /\ UNCHANGED <<file, date, no, log, logFaults>>
        /\ day' = day \/ (day' = day + 1 /\ day \in Nat)
    BY <1>2, FilesStay DEF fileVars, Midnight, FileTypes
  <2>2. FileTypes'
    BY <2>1 DEF FileTypes
  <2>3. ASSUME NEW m \in Kinds PROVE LastFile(m)'
    <3>1. date[m] <= day' /\ date[m] \in Nat
      BY <2>1 DEF LastFile, FileTypes
    <3> QED
      BY <2>1, <3>1 DEF LastFile
  <2> QED
    BY <2>2, <2>3
<1> QED
  BY <1>1, <1>2

\* A LoopFunc that steps is the only one, and the other has moved nothing.
LEMMA OtherRests ==
    ASSUME LogTypes, OneLoop, NEW l \in Loopers, looper[l] > 0, NEW m \in Loopers, m # l
    PROVE  looper[m] = 0 /\ \A k \in Kinds : moved[m][k] = <<>>
<1>1. looper[m] = 0
  BY DEF OneLoop, Loopers, LogTypes
<1> QED
  BY <1>1 DEF OneLoop, SwapAt

\* No second LoopFunc begins beside one that is at it.
LEMMA OneLoopStep ==
    ASSUME LogTypes, OneLoop, LogNext, Single
    PROVE  OneLoop'
<1>1. looper \in [Loopers -> 0 .. 9] /\ looper["timer"] <= 4 /\ "timer" \in Loopers /\ "end" \in Loopers
  BY DEF LogTypes, Loopers
<1>2. \A l \in Loopers, k \in Kinds : moved[l][k] # <<>> => looper[l] > SwapAt(k)
  BY DEF OneLoop
<1>3. CASE BeginLoop \/ BeginEnd
  <2>1. PICK l \in Loopers : MayBegin(l) /\ looper' = [looper EXCEPT ![l] = 1] /\ moved' = moved
    BY <1>1, <1>3 DEF BeginLoop, BeginEnd
  <2>2. looper["timer"] = 0 /\ looper["end"] = 0
    BY <2>1 DEF MayBegin, Single
  <2>3. \A m \in Loopers, k \in Kinds : moved[m][k] = <<>>
    BY <1>2, <2>2 DEF SwapAt, Loopers
  <2> QED
    BY <1>1, <2>1, <2>2, <2>3 DEF OneLoop, Loopers
<1>4. ASSUME NEW l \in Loopers, NEW k \in Kinds, Swap(l, k) PROVE OneLoop'
  <2>1. looper[l] = SwapAt(k) /\ SwapAt(k) \in 1 .. 2
    BY <1>1, <1>4, Places DEF Swap, SwapAt
  <2>2. looper'[l] = SwapAt(k) + 1 /\ \A m \in Loopers : m # l => looper'[m] = looper[m]
    BY <1>4, <2>1, Moves DEF Swap
  <2>3. \A m \in Loopers : m # l => looper[m] = 0 /\ \A n \in Kinds : moved[m][n] = <<>>
    BY <1>1, <2>1, OtherRests
  <2>4. /\ \A n \in Kinds : n # k => moved'[l][n] = moved[l][n]
        /\ \A m \in Loopers : m # l => moved'[m] = moved[m]
    BY <1>4 DEF Swap, LogTypes
  <2>5. ASSUME NEW n \in Kinds, moved'[l][n] # <<>>
        PROVE  looper'[l] > SwapAt(n) /\ looper'[l] <= PushAt(n)
    <3>1. CASE n = k
      BY <2>2, <3>1 DEF SwapAt, PushAt, Kinds
    <3>2. CASE n # k
      <4>1. looper[l] > SwapAt(n) /\ looper[l] <= PushAt(n)
        BY <2>4, <2>5, <3>2 DEF OneLoop
      <4> QED
        BY <2>1, <2>2, <3>2, <4>1 DEF SwapAt, PushAt, Kinds
    <3> QED
      BY <3>1, <3>2
  <2>6. looper'["timer"] = 0 \/ looper'["end"] = 0
    BY <2>2, <2>3 DEF Loopers
  <2> QED
    BY <2>2, <2>3, <2>4, <2>5, <2>6 DEF OneLoop
<1>5. ASSUME NEW l \in Loopers, NEW k \in Kinds, Push(l, k) PROVE OneLoop'
  <2>1. looper[l] = PushAt(k) /\ PushAt(k) \in 3 .. 4
    BY <1>1, <1>5, Places DEF Push, PushAt
  <2>2. /\ looper'[l] = IF l = "timer" /\ looper[l] = 4 THEN 0 ELSE looper[l] + 1
        /\ \A m \in Loopers : m # l => looper'[m] = looper[m]
    BY <1>5, <2>1, Moves DEF Push
  <2>3. \A m \in Loopers : m # l => looper[m] = 0 /\ \A n \in Kinds : moved[m][n] = <<>>
    BY <1>1, <2>1, OtherRests
  <2>4. /\ moved'[l][k] = <<>>
        /\ \A n \in Kinds : n # k => moved'[l][n] = moved[l][n]
        /\ \A m \in Loopers : m # l => moved'[m] = moved[m]
    BY <1>5 DEF Push, LogTypes
  <2>5. ASSUME NEW n \in Kinds, moved'[l][n] # <<>>
        PROVE  looper'[l] > SwapAt(n) /\ looper'[l] <= PushAt(n)
    <3>1. n # k /\ looper[l] > SwapAt(n) /\ looper[l] <= PushAt(n)
      BY <2>4, <2>5 DEF OneLoop
    <3> QED
      BY <2>1, <2>2, <3>1 DEF SwapAt, PushAt, Kinds
  <2>6. looper'["timer"] = 0 \/ looper'["end"] = 0
    BY <2>2, <2>3 DEF Loopers
  <2> QED
    BY <2>2, <2>3, <2>4, <2>5, <2>6 DEF OneLoop
<1>6. ASSUME NEW k \in Kinds, Stop(k) \/ Join(k) PROVE OneLoop'
  <2>1. looper["end"] \in 5 .. 8 /\ Onward("end") /\ moved' = moved
    BY <1>1, <1>6, Places DEF Stop, Join, StopAt, JoinAt
  <2>2. /\ looper'["end"] = looper["end"] + 1
        /\ \A m \in Loopers : m # "end" => looper'[m] = looper[m]
    BY <1>1, <2>1, Moves
  <2>3. looper["timer"] = 0
    BY <1>1, <2>1 DEF OneLoop
  <2>4. \A m \in Loopers, n \in Kinds : moved[m][n] = <<>>
    BY <2>1, <2>3 DEF OneLoop, Loopers, PushAt, SwapAt
  <2> QED
    BY <2>1, <2>2, <2>3, <2>4, <1>1 DEF OneLoop
<1>7. ASSUME NEW k \in Kinds, PushLog(k) \/ Look(k) \/ Sleep(k) \/ Write(k) PROVE OneLoop'
  BY <1>7 DEF PushLog, Look, Sleep, Write, OneLoop
<1>8. CASE Midnight
  BY <1>8 DEF Midnight, OneLoop
<1> QED
  BY <1>1, <1>3, <1>4, <1>5, <1>6, <1>7, <1>8 DEF LogNext, Execute, LoopFunc, Ending

\* The last line queued and the last one moved have numbers.
LEMMA OrderNumbers ==
    ASSUME LogTypes, NEW k \in Kinds, InOrder(k)
    PROVE  /\ Len(written[k]) \in Nat /\ Queued(k) \in Nat /\ Swapped(k) \in Nat
           /\ \A l \in Loopers : Len(moved[l][k]) \in Nat
           /\ Swapped(k) = Queued(k) + Len(moved["timer"][k]) + Len(moved["end"][k])
<1>1. /\ Len(written[k]) \in Nat /\ batches[k] \in Seq(Seq(Nat)) /\ Len(batches[k]) \in Nat
      /\ \A l \in Loopers : moved[l][k] \in Seq(Nat)
  BY DEF LogTypes
<1>2. Queued(k) \in Nat
  BY <1>1, EndIsNumber DEF InOrder, Queued, EndOfAll
<1>3. \A l \in Loopers : Len(moved[l][k]) \in Nat
  BY <1>1
<1>4. "timer" \in Loopers /\ "end" \in Loopers
  BY DEF Loopers
<1>5. Len(moved["timer"][k]) \in Nat /\ Len(moved["end"][k]) \in Nat
  BY <1>3, <1>4
<1>6. Swapped(k) = Queued(k) + Len(moved["timer"][k]) + Len(moved["end"][k])
  BY DEF Swapped
<1>7. \A x, y, z \in Nat : x + y + z \in Nat
  OBVIOUS
<1>8. Swapped(k) \in Nat
  BY <1>2, <1>5, <1>6, <1>7
<1> QED
  BY <1>1, <1>2, <1>3, <1>6, <1>8

\* A step that leaves a kind's lines where they are keeps their order.
LEMMA OrderStays ==
    ASSUME NEW k \in Kinds, InOrder(k),
           written'[k] = written[k], batches'[k] = batches[k], buffer'[k] = buffer[k],
           pushed'[k] = pushed[k], \A l \in Loopers : moved'[l][k] = moved[l][k]
    PROVE  InOrder(k)'
<1>1. moved'["timer"][k] = moved["timer"][k] /\ moved'["end"][k] = moved["end"][k]
  BY DEF Loopers
<1>2. Queued(k)' = Queued(k) /\ Swapped(k)' = Swapped(k)
  BY <1>1 DEF Queued, Swapped
<1> QED
  BY <1>2 DEF InOrder

\* A new line gets the next number.
LEMMA OrderPushLog ==
    ASSUME LogTypes, NEW k \in Kinds, PushLog(k), InOrder(k)
    PROVE  InOrder(k)'
<1>1. /\ pushed'[k] = pushed[k] + 1 /\ buffer'[k] = Append(buffer[k], pushed[k] + 1)
      /\ UNCHANGED <<written, batches, moved>>
  BY DEF PushLog, LogTypes, writerVars, fileVars
<1>2. Queued(k)' = Queued(k) /\ Swapped(k)' = Swapped(k)
  BY <1>1 DEF Queued, Swapped
<1>3. /\ buffer[k] \in Seq(Nat) /\ Len(buffer[k]) \in Nat /\ Swapped(k) \in Nat
      /\ pushed[k] = Swapped(k) + Len(buffer[k]) /\ Follows(buffer[k], Swapped(k))
  BY OrderNumbers DEF LogTypes, InOrder
<1>4. Follows(buffer'[k], Swapped(k))
  BY <1>1, <1>3, FollowsAppend
<1>5. Len(buffer'[k]) = Len(buffer[k]) + 1
  BY <1>1, <1>3, AppendProperties
<1> QED
  BY <1>1, <1>2, <1>3, <1>4, <1>5 DEF InOrder

\* What is swapped out follows what is queued, since nothing else is moved.
LEMMA OrderSwap ==
    ASSUME LogTypes, OneLoop, NEW l \in Loopers, NEW k \in Kinds, Swap(l, k), InOrder(k)
    PROVE  InOrder(k)'
<1>1. /\ buffer'[k] = <<>> /\ moved'[l][k] = buffer[k]
      /\ \A m \in Loopers : m # l => moved'[m] = moved[m]
      /\ UNCHANGED <<written, batches, pushed>>
  BY DEF Swap, LogTypes, writerVars, fileVars
<1>2. \A m \in Loopers : moved[m][k] = <<>>
  <2>1. looper[l] = SwapAt(k) /\ looper[l] > 0
    BY Places DEF Swap, SwapAt, LogTypes
  <2>2. moved[l][k] = <<>>
    BY <2>1 DEF OneLoop, SwapAt
  <2> QED
    BY <2>1, <2>2, OtherRests
<1>3. Len(<<>>) = 0 /\ Len(buffer[k]) \in Nat /\ Queued(k) \in Nat
  BY OrderNumbers DEF LogTypes
<1>4. Swapped(k) = Queued(k) /\ Queued(k)' = Queued(k)
  BY <1>1, <1>2, <1>3 DEF Queued, Swapped, Loopers
<1>5. Swapped(k)' = Queued(k) + Len(buffer[k])
  <2>1. \/ l = "timer" /\ moved'["end"][k] = <<>>
        \/ l = "end" /\ moved'["timer"][k] = <<>>
    BY <1>1, <1>2 DEF Loopers
  <2>2. Swapped(k)' = Queued(k)' + Len(moved'["timer"][k]) + Len(moved'["end"][k])
    BY DEF Swapped
  <2> QED
    BY <1>1, <1>3, <1>4, <2>1, <2>2
<1>6. \A m \in Loopers : Follows(moved'[m][k], Queued(k))
  BY <1>1, <1>2, <1>4, FollowsEmpty DEF InOrder
<1>7. pushed[k] = Queued(k) + Len(buffer[k])
  BY <1>4 DEF InOrder
<1> QED
  BY <1>1, <1>3, <1>4, <1>5, <1>6, <1>7, FollowsEmpty DEF InOrder

\* What is queued follows what was queued before.
LEMMA OrderPush ==
    ASSUME LogTypes, OneLoop, NEW l \in Loopers, NEW k \in Kinds, Push(l, k), InOrder(k)
    PROVE  InOrder(k)'
<1>1. /\ moved'[l][k] = <<>> /\ \A m \in Loopers : m # l => moved'[m] = moved[m]
      /\ moved[l][k] = <<>> => batches'[k] = batches[k]
      /\ moved[l][k] # <<>> => batches'[k] = Append(batches[k], moved[l][k])
      /\ UNCHANGED <<written, buffer, pushed>>
  BY DEF Push, LogTypes, fileVars
<1>2. CASE moved[l][k] = <<>>
  <2>1. \A m \in Loopers : moved'[m][k] = moved[m][k]
    BY <1>1, <1>2
  <2> QED
    BY <1>1, <1>2, <2>1, OrderStays
<1>3. CASE moved[l][k] # <<>>
  <2> DEFINE n == Len(written[k])
             b == moved[l][k]
  <2>1. /\ n \in Nat /\ batches[k] \in Seq(Seq(Nat)) /\ b \in Seq(Nat) /\ Len(b) \in Nat
        /\ Chain(n, batches[k]) /\ Follows(b, EndOfAll(n, batches[k]))
    BY DEF LogTypes, InOrder, Queued
  <2>2. \A m \in Loopers : m # l => moved[m][k] = <<>>
    <3>1. looper[l] > 0
      BY DEF Push, At
    <3> QED
      BY <3>1, OtherRests
  <2>3. Chain(n, batches'[k]) /\ Queued(k)' = Queued(k) + Len(b)
    BY <1>1, <1>3, <2>1, ChainAppend DEF Queued
  <2>4. Queued(k) \in Nat /\ Len(<<>>) = 0
    BY OrderNumbers
  <2>5. Swapped(k) = Queued(k) + Len(b)
    <3>1. Swapped(k) = Queued(k) + Len(moved["timer"][k]) + Len(moved["end"][k])
      BY DEF Swapped
    <3>2. \/ l = "timer" /\ moved["end"][k] = <<>>
          \/ l = "end" /\ moved["timer"][k] = <<>>
      BY <2>2 DEF Loopers
    <3> QED
      BY <2>1, <2>4, <3>1, <3>2
  <2>6. \A m \in Loopers : moved'[m][k] = <<>>
    BY <1>1, <2>2
  <2>7. Swapped(k)' = Queued(k)'
    <3>1. moved'["timer"][k] = <<>> /\ moved'["end"][k] = <<>>
      BY <2>6 DEF Loopers
    <3>2. Swapped(k)' = Queued(k)' + Len(moved'["timer"][k]) + Len(moved'["end"][k])
      BY DEF Swapped
    <3> QED
      BY <2>1, <2>3, <2>4, <3>1, <3>2
  <2>8. Swapped(k)' = Swapped(k)
    BY <2>3, <2>5, <2>7
  <2> QED
    BY <1>1, <2>3, <2>6, <2>8, FollowsEmpty DEF InOrder
<1> QED
  BY <1>2, <1>3

\* What is written follows what was written before.
LEMMA OrderWrite ==
    ASSUME LogTypes, NEW k \in Kinds, Write(k), InOrder(k)
    PROVE  InOrder(k)'
<1> DEFINE n == Len(written[k])
           b == Head(batches[k])
<1>1. /\ written'[k] = written[k] \o b /\ batches'[k] = Tail(batches[k])
      /\ UNCHANGED <<buffer, pushed, moved>>
  BY DEF Write, LogTypes
<1>2. /\ n \in Nat /\ batches[k] \in Seq(Seq(Nat)) /\ batches[k] # <<>> /\ written[k] \in Seq(Nat)
      /\ b \in Seq(Nat) /\ Len(b) \in Nat
  <2>1. batches[k] \in Seq(Seq(Nat)) /\ batches[k] # <<>> /\ written[k] \in Seq(Nat)
    BY DEF Write, LogTypes
  <2> QED
    BY <2>1, HeadTailProperties
<1>3. Chain(n, batches[k]) /\ Follows(written[k], 0)
  BY DEF InOrder
<1> HIDE DEF n, b
<1>4. /\ Follows(b, n) /\ Chain(n + Len(b), Tail(batches[k]))
      /\ EndOfAll(n + Len(b), Tail(batches[k])) = EndOfAll(n, batches[k])
  BY <1>2, <1>3, ChainTail DEF b
<1>5. Len(written'[k]) = n + Len(b) /\ Follows(written'[k], 0)
  <2>1. Len(written[k] \o b) = n + Len(b)
    BY <1>2, ConcatProperties DEF n
  <2>2. Follows(b, 0 + Len(written[k]))
    BY <1>2, <1>4 DEF n
  <2> QED
    BY <1>1, <1>2, <1>3, <2>1, <2>2, FollowsConcat
<1>6. Queued(k)' = Queued(k) /\ Chain(Len(written'[k]), batches'[k])
  BY <1>1, <1>4, <1>5 DEF Queued, n
<1>7. Swapped(k)' = Swapped(k)
  BY <1>1, <1>6 DEF Swapped
<1> QED
  BY <1>1, <1>5, <1>6, <1>7 DEF InOrder

\* Every step keeps the order of the lines of each kind.
LEMMA OrderStep ==
    ASSUME LogTypes, OneLoop, \A k \in Kinds : InOrder(k), LogNext
    PROVE  \A k \in Kinds : InOrder(k)'
<1> SUFFICES ASSUME NEW m \in Kinds PROVE InOrder(m)'
  OBVIOUS
<1>1. ASSUME NEW k \in Kinds, PushLog(k) PROVE InOrder(m)'
  <2>1. CASE m # k
    BY <1>1, <2>1, OrderStays DEF PushLog, LogTypes, writerVars, fileVars
  <2> QED
    BY <1>1, <2>1, OrderPushLog
<1>2. ASSUME NEW k \in Kinds, Write(k) PROVE InOrder(m)'
  <2>1. CASE m # k
    BY <1>2, <2>1, OrderStays DEF Write, LogTypes
  <2> QED
    BY <1>2, <2>1, OrderWrite
<1>3. ASSUME NEW l \in Loopers, NEW k \in Kinds, Swap(l, k) PROVE InOrder(m)'
  <2>1. CASE m # k
    BY <1>3, <2>1, OrderStays DEF Swap, LogTypes, writerVars, fileVars
  <2> QED
    BY <1>3, <2>1, OrderSwap
<1>4. ASSUME NEW l \in Loopers, NEW k \in Kinds, Push(l, k) PROVE InOrder(m)'
  <2>1. CASE m # k
    BY <1>4, <2>1, OrderStays DEF Push, LogTypes, fileVars
  <2> QED
    BY <1>4, <2>1, OrderPush
<1>5. ASSUME NEW k \in Kinds, Look(k) \/ Sleep(k) \/ Stop(k) \/ Join(k) PROVE InOrder(m)'
  BY <1>5, OrderStays DEF Look, Sleep, Stop, Join, writerVars, fileVars
<1>6. CASE BeginLoop \/ BeginEnd \/ Midnight
  BY <1>6, OrderStays DEF BeginLoop, BeginEnd, Midnight, writerVars, fileVars
<1>7. "timer" \in Loopers /\ "end" \in Loopers
  BY DEF Loopers
<1> QED
  BY <1>1, <1>2, <1>3, <1>4, <1>5, <1>6, <1>7 DEF LogNext, Execute, LoopFunc, Ending

\* The queue without the batch in its thread's hands.
LEMMA TasksFacts ==
    ASSUME LogTypes, NEW k \in Kinds
    PROVE  /\ Tasks(k) \in Seq(Seq(Nat)) /\ batches[k] \in Seq(Seq(Nat))
           /\ writer[k] # "write" => Tasks(k) = batches[k]
           /\ writer[k] = "write" => batches[k] # <<>> /\ Tasks(k) = Tail(batches[k])
<1>1. batches[k] \in Seq(Seq(Nat)) /\ (writer[k] = "write" => batches[k] # <<>>)
  BY DEF LogTypes
<1>2. batches[k] # <<>> => Tail(batches[k]) \in Seq(Seq(Nat))
  BY <1>1, HeadTailProperties
<1> QED
  BY <1>1, <1>2 DEF Tasks

\* What is left of at most one batch without it.
LEMMA TailOfOne ==
    ASSUME NEW S, NEW s \in Seq(S), s # <<>>, Len(s) <= 1
    PROVE  Tail(s) = <<>>
<1>1. Tail(s) \in Seq(S) /\ Len(Tail(s)) = 0
  <2>1. Tail(s) \in Seq(S) /\ Len(Tail(s)) = Len(s) - 1 /\ Len(s) \in Nat \ {0}
    BY HeadTailProperties
  <2>2. \A n \in Nat \ {0} : n <= 1 => n - 1 = 0
    OBVIOUS
  <2> QED
    BY <2>1, <2>2, Zenon
<1> QED
  BY <1>1, EmptySeq

\* A sequence whose tail is empty has one element, and two with another.
LEMMA AppendToOne ==
    ASSUME NEW S, NEW s \in Seq(S), NEW e \in S, s # <<>>, Tail(s) = <<>>
    PROVE  Len(Tail(Append(s, e))) = 1
<1>1. Len(s) = 1
  <2>1. Len(Tail(s)) = Len(s) - 1 /\ Len(s) \in Nat
    BY HeadTailProperties
  <2>2. Len(Tail(s)) = 0
    BY EmptySeq
  <2>3. \A n \in Nat : n - 1 = 0 => n = 1
    OBVIOUS
  <2> QED
    BY <2>1, <2>2, <2>3, Zenon
<1>2. Append(s, e) \in Seq(S) /\ Append(s, e) # <<>> /\ Len(Append(s, e)) = Len(s) + 1
  BY AppendProperties
<1>3. Len(Tail(Append(s, e))) = Len(Append(s, e)) - 1
  BY <1>2, HeadTailProperties
<1> QED
  BY <1>1, <1>2, <1>3

\* A sequence of one element has one.
LEMMA LenOfOne ==
    ASSUME NEW S, NEW e \in S
    PROVE  Len(Append(<<>>, e)) = 1
<1>1. <<>> \in Seq(S) /\ Len(<<>>) = 0
  BY EmptySeq
<1> QED
  BY <1>1, AppendProperties

\* One step's effect on a kind when no LoopFunc meets a backlog or another one.
LEMMA OneBatchStep ==
    ASSUME LogTypes, OneLoop, Ahead, \A k \in Kinds : OneBatch(k), LogNext
    PROVE  \A k \in Kinds : OneBatch(k)'
<1> SUFFICES ASSUME NEW m \in Kinds PROVE OneBatch(m)'
  OBVIOUS
<1>1. /\ looper \in [Loopers -> 0 .. 9] /\ "timer" \in Loopers /\ "end" \in Loopers
      /\ batches \in [Kinds -> Seq(Seq(Nat))] /\ OneBatch(m)
      /\ Tasks(m) \in Seq(Seq(Nat)) /\ batches[m] \in Seq(Seq(Nat))
      /\ writer[m] # "write" => Tasks(m) = batches[m]
      /\ writer[m] = "write" => batches[m] # <<>> /\ Tasks(m) = Tail(batches[m])
  BY TasksFacts DEF LogTypes, Loopers
<1>2. ASSUME NEW k \in Kinds, PushLog(k) \/ Sleep(k) PROVE OneBatch(m)'
  <2>1. /\ UNCHANGED <<looper, batches, stopped, isStop>>
        /\ writer'[m] = "ended" <=> writer[m] = "ended"
        /\ writer'[m] = "write" <=> writer[m] = "write"
    BY <1>2 DEF PushLog, Sleep, writerVars, LogTypes
  <2>2. Tasks(m)' = Tasks(m)
    BY <2>1 DEF Tasks
  <2> QED
    BY <1>1, <2>1, <2>2 DEF OneBatch
<1>3. ASSUME NEW k \in Kinds, Look(k) PROVE OneBatch(m)'
  <2>1. UNCHANGED <<looper, batches, stopped>>
    BY <1>3 DEF Look
  <2>2. CASE m # k
    <3>1. writer'[m] = writer[m] /\ isStop'[m] = isStop[m]
      BY <1>3, <2>2 DEF Look, LogTypes
    <3>2. Tasks(m)' = Tasks(m)
      BY <2>1, <3>1 DEF Tasks
    <3> QED
      BY <1>1, <2>1, <3>1, <3>2 DEF OneBatch
  <2>3. CASE m = k
    <3>1. /\ writer[m] = "look" /\ isStop'[m] = stopped[m]
          /\ writer'[m] = "ended" => stopped[m] /\ batches[m] = <<>>
          /\ writer'[m] = "write" <=> batches[m] # <<>>
      BY <1>3, <2>3 DEF Look, LogTypes
    <3>2. Tasks(m) = batches[m] /\ Len(batches[m]) <= 1
      BY <1>1, <3>1 DEF OneBatch
    <3>3. CASE batches[m] = <<>>
      <4>1. Tasks(m)' = <<>>
        BY <2>1, <3>1, <3>3 DEF Tasks
      <4> QED
        BY <1>1, <2>1, <3>1, <4>1 DEF OneBatch
    <3>4. CASE batches[m] # <<>>
      <4>1. Tasks(m)' = Tail(batches[m])
        BY <2>1, <3>1, <3>4 DEF Tasks
      <4>2. Tail(batches[m]) = <<>>
        BY <1>1, <3>2, <3>4, TailOfOne
      <4> QED
        BY <1>1, <2>1, <3>1, <3>4, <4>1, <4>2 DEF OneBatch
    <3> QED
      BY <3>3, <3>4
  <2> QED
    BY <2>2, <2>3
<1>4. ASSUME NEW k \in Kinds, Write(k) PROVE OneBatch(m)'
  <2>1. UNCHANGED <<looper, stopped, isStop>>
    BY <1>4 DEF Write
  <2>2. CASE m # k
    <3>1. batches'[m] = batches[m] /\ writer'[m] = writer[m]
      BY <1>4, <2>2 DEF Write, LogTypes
    <3>2. Tasks(m)' = Tasks(m)
      BY <3>1 DEF Tasks
    <3> QED
      BY <1>1, <2>1, <3>1, <3>2 DEF OneBatch
  <2>3. CASE m = k
    <3>1. /\ writer[m] = "write" /\ batches'[m] = Tail(batches[m])
          /\ writer'[m] \in {"ended", "look"} /\ (writer'[m] = "ended" => isStop[m])
      BY <1>4, <2>3 DEF Write, LogTypes
    <3>2. Tasks(m)' = Tasks(m) /\ batches'[m] = Tasks(m)
      BY <1>1, <3>1 DEF Tasks
    <3> QED
      BY <1>1, <2>1, <3>1, <3>2 DEF OneBatch
  <2> QED
    BY <2>2, <2>3
<1>5. CASE BeginLoop \/ BeginEnd
  <2>1. PICK l \in Loopers : MayBegin(l) /\ looper' = [looper EXCEPT ![l] = 1]
    BY <1>1, <1>5 DEF BeginLoop, BeginEnd
  <2>2. looper["timer"] = 0 /\ looper["end"] = 0 /\ Tasks(m) = <<>>
    BY <2>1 DEF MayBegin, Ahead
  <2>3. UNCHANGED <<batches, stopped, isStop, writer>>
    BY <1>5 DEF BeginLoop, BeginEnd, writerVars
  <2>4. ~stopped[m] /\ Tasks(m)' = Tasks(m)
    BY <1>1, <2>2, <2>3 DEF OneBatch, StopAt, Tasks
  <2> QED
    BY <1>1, <2>2, <2>3, <2>4 DEF OneBatch
<1>6. ASSUME NEW l \in Loopers, NEW k \in Kinds, Swap(l, k) PROVE OneBatch(m)'
  <2>1. looper[l] = SwapAt(k) /\ SwapAt(k) \in 1 .. 2
    BY <1>1, <1>6, Places DEF Swap, SwapAt
  <2>2. looper'[l] = SwapAt(k) + 1 /\ \A n \in Loopers : n # l => looper'[n] = looper[n]
    BY <1>6, <2>1, Moves DEF Swap
  <2>3. UNCHANGED <<batches, stopped, isStop, writer>>
    BY <1>6 DEF Swap, writerVars
  <2>4. looper[l] \in 1 .. PushAt(m) /\ (l = "end" => ~stopped[m])
    BY <1>1, <2>1 DEF OneBatch, PushAt, StopAt
  <2>5. Tasks(m) = <<>> /\ Tasks(m)' = Tasks(m)
    BY <1>1, <2>3, <2>4 DEF OneBatch, Tasks
  <2>6. stopped[m] => looper'["end"] > StopAt(m)
    BY <1>1, <2>2, <2>4 DEF OneBatch
  <2> QED
    BY <1>1, <2>3, <2>5, <2>6 DEF OneBatch
<1>7. ASSUME NEW l \in Loopers, NEW k \in Kinds, Push(l, k) PROVE OneBatch(m)'
  <2>1. looper[l] = PushAt(k) /\ PushAt(k) \in 3 .. 4
    BY <1>1, <1>7, Places DEF Push, PushAt
  <2>2. /\ looper'[l] = IF l = "timer" /\ looper[l] = 4 THEN 0 ELSE looper[l] + 1
        /\ \A n \in Loopers : n # l => looper'[n] = looper[n]
    BY <1>7, <2>1, Moves DEF Push
  <2>3. UNCHANGED <<stopped, isStop>> /\ (writer'[m] = "ended" => writer[m] = "ended")
        /\ (writer'[m] = "write" <=> writer[m] = "write")
    BY <1>7 DEF Push, Signal, LogTypes
  <2>4. looper["end"] <= 4 /\ ~stopped[m]
    <3>1. looper["end"] <= 4
      BY <1>1, <2>1, OtherRests DEF Loopers
    <3>2. ASSUME stopped[m] PROVE FALSE
      <4>1. looper["end"] > StopAt(m)
        BY <1>1, <3>2 DEF OneBatch
      <4>2. looper["end"] \in 0 .. 9 /\ StopAt(m) \in {5, 6}
        BY <1>1 DEF StopAt
      <4> QED
        BY <3>1, <4>1, <4>2
    <3> QED
      BY <3>1, <3>2
  <2>5. writer[m] # "ended" /\ ~isStop[m]
    BY <1>1, <2>4 DEF OneBatch
  <2>6. CASE m = k
    <3>1. Tasks(m) = <<>>
      BY <1>1, <2>1, <2>6 DEF OneBatch
    <3>2. PICK new \in Seq(Nat) : batches'[m] = batches[m] \/ batches'[m] = Append(batches[m], new)
      BY <1>7, <2>6 DEF Push, LogTypes
    <3>3. Len(Tasks(m)') <= 1
      <4>1. CASE batches'[m] = batches[m]
        <5>1. Tasks(m)' = Tasks(m)
          BY <2>3, <4>1 DEF Tasks
        <5> QED
          BY <3>1, <5>1, EmptySeq
      <4>2. CASE batches'[m] = Append(batches[m], new) /\ writer[m] # "write"
        <5>1. Tasks(m)' = Append(<<>>, new)
          BY <1>1, <2>3, <3>1, <4>2 DEF Tasks
        <5>2. Len(Append(<<>>, new)) = 1
          BY LenOfOne
        <5> QED
          BY <5>1, <5>2
      <4>3. CASE batches'[m] = Append(batches[m], new) /\ writer[m] = "write"
        <5>1. batches[m] \in Seq(Seq(Nat)) /\ batches[m] # <<>> /\ Tail(batches[m]) = <<>>
          BY <1>1, <3>1, <4>3
        <5>2. Len(Tail(Append(batches[m], new))) = 1
          BY <5>1, AppendToOne
        <5>3. Tasks(m)' = Tail(Append(batches[m], new))
          BY <2>3, <4>3 DEF Tasks
        <5>4. Len(Tasks(m)') = 1
          BY <5>2, <5>3, Zenon
        <5> QED
          BY <5>4
      <4> QED
        BY <3>2, <4>1, <4>2, <4>3
    <3>4. \A n \in Loopers : looper'[n] \notin 1 .. PushAt(m)
      <4>1. looper'[l] \notin 1 .. PushAt(m)
        BY <2>1, <2>2, <2>6
      <4>2. \A n \in Loopers : n # l => looper'[n] = 0
        BY <2>1, <2>2, OtherRests
      <4> QED
        BY <4>1, <4>2
    <3> QED
      BY <2>3, <2>4, <2>5, <3>3, <3>4 DEF OneBatch
  <2>7. CASE m # k
    <3>1. batches'[m] = batches[m] /\ Tasks(m)' = Tasks(m)
      BY <1>7, <2>3, <2>7 DEF Push, LogTypes, Tasks
    <3>2. \A n \in Loopers : looper'[n] \in 1 .. PushAt(m) => looper[n] \in 1 .. PushAt(m)
      BY <2>1, <2>2 DEF PushAt
    <3> QED
      BY <1>1, <2>3, <2>4, <2>5, <3>1, <3>2 DEF OneBatch
  <2> QED
    BY <2>6, <2>7
<1>8. ASSUME NEW k \in Kinds, Stop(k) \/ Join(k) PROVE OneBatch(m)'
  <2>1. /\ looper["end"] \in 5 .. 8 /\ Onward("end")
        /\ Stop(k) => looper["end"] = StopAt(k)
    BY <1>1, <1>8, Places DEF Stop, Join, StopAt, JoinAt
  <2>2. looper'["end"] = looper["end"] + 1 /\ \A n \in Loopers : n # "end" => looper'[n] = looper[n]
    BY <1>1, <2>1, Moves
  <2>3. /\ UNCHANGED <<batches, isStop>> /\ (stopped[m] => stopped'[m])
        /\ stopped'[m] => stopped[m] \/ (m = k /\ Stop(k))
        /\ writer'[m] = "ended" => writer[m] = "ended"
        /\ writer'[m] = "write" <=> writer[m] = "write"
    BY <1>8 DEF Stop, Join, Signal, LogTypes, writerVars
  <2>4. \A n \in Loopers : looper'[n] \notin 1 .. PushAt(m)
    <3>1. looper["timer"] = 0
      BY <1>1, <2>1 DEF OneLoop
    <3> QED
      BY <1>1, <2>1, <2>2, <3>1 DEF Loopers, PushAt
  <2>5. stopped'[m] => looper'["end"] > StopAt(m)
    BY <1>1, <2>1, <2>2, <2>3 DEF OneBatch, StopAt
  <2>6. Tasks(m)' = Tasks(m)
    BY <2>3 DEF Tasks
  <2> QED
    BY <1>1, <2>3, <2>4, <2>5, <2>6 DEF OneBatch
<1>9. CASE Midnight
  <2>1. UNCHANGED <<looper, batches, stopped, isStop, writer>>
    BY <1>9 DEF Midnight, writerVars
  <2>2. Tasks(m)' = Tasks(m)
    BY <2>1 DEF Tasks
  <2> QED
    BY <1>1, <2>1, <2>2 DEF OneBatch
<1> QED
  BY <1>1, <1>2, <1>3, <1>4, <1>5, <1>6, <1>7, <1>8, <1>9 DEF LogNext, Execute, LoopFunc, Ending

\* A thread that has ended stays so.
LEMMA EndedStays ==
    ASSUME LogTypes, LogNext, NEW k \in Kinds, writer[k] = "ended"
    PROVE  writer'[k] = "ended"
BY ZenonT(40) DEF LogNext, Execute, LoopFunc, Ending, PushLog, BeginLoop, BeginEnd, Swap, Push, Signal, Stop,
       Join, Look, Sleep, Write, Midnight, LogTypes, writerVars

\* Every step keeps count of what the end has to write.
LEMMA EndCountsStep ==
    ASSUME LogTypes, OneLoop, Ahead, LogNext,
           \A k \in Kinds : OneBatch(k) /\ EndCounts(k) /\ InOrder(k)
    PROVE  \A k \in Kinds : EndCounts(k)'
<1> SUFFICES ASSUME NEW m \in Kinds PROVE EndCounts(m)'
  OBVIOUS
<1>1. /\ looper \in [Loopers -> 0 .. 9] /\ "timer" \in Loopers /\ "end" \in Loopers
      /\ EndCounts(m) /\ pushed[m] \in Nat /\ atEnd[m] \in Nat /\ buffer[m] \in Seq(Nat)
      /\ Len(buffer[m]) \in Nat
  BY DEF LogTypes, Loopers
<1>2. writer[m] = "ended" => writer'[m] = "ended"
  BY EndedStays
<1>3. ASSUME UNCHANGED <<looper, logFaults, atEnd, pushed, buffer>> PROVE EndCounts(m)'
  BY <1>1, <1>2, <1>3 DEF EndCounts
<1>4. ASSUME NEW k \in Kinds, PushLog(k) PROVE EndCounts(m)'
  <2>1. /\ UNCHANGED <<looper, logFaults, atEnd>>
        /\ \/ pushed'[m] = pushed[m] /\ buffer'[m] = buffer[m]
           \/ pushed'[m] = pushed[m] + 1 /\ buffer'[m] = Append(buffer[m], pushed[m] + 1)
    BY <1>4 DEF PushLog, LogTypes
  <2>2. Len(Append(buffer[m], pushed[m] + 1)) = Len(buffer[m]) + 1
    BY <1>1, AppendProperties
  <2> QED
    BY <1>1, <1>2, <2>1, <2>2 DEF EndCounts
<1>5. ASSUME NEW k \in Kinds, Look(k) \/ Sleep(k) \/ Write(k) PROVE EndCounts(m)'
  BY <1>3, <1>5 DEF Look, Sleep, Write
<1>6. CASE BeginLoop
  <2>1. looper'["end"] = 0
    BY <1>1, <1>6 DEF BeginLoop, MayBegin
  <2> QED
    BY <2>1 DEF EndCounts, SwapAt, JoinAt
<1>7. CASE BeginEnd
  <2>1. looper'["end"] = 1 /\ atEnd' = pushed /\ pushed' = pushed
    BY <1>1, <1>7 DEF BeginEnd, MayBegin
  <2> QED
    BY <1>1, <2>1 DEF EndCounts, SwapAt, JoinAt
<1>8. ASSUME NEW l \in Loopers, NEW k \in Kinds, Swap(l, k) PROVE EndCounts(m)'
  <2>1. looper[l] = SwapAt(k) /\ SwapAt(k) \in 1 .. 2
    BY <1>1, <1>8, Places DEF Swap, SwapAt
  <2>2. looper'[l] = SwapAt(k) + 1 /\ \A n \in Loopers : n # l => looper'[n] = looper[n]
    BY <1>8, <2>1, Moves DEF Swap
  <2>3. /\ UNCHANGED <<atEnd, pushed, logFaults>>
        /\ buffer'[k] = <<>> /\ (m # k => buffer'[m] = buffer[m])
    BY <1>8 DEF Swap, LogTypes
  <2>4. CASE l = "timer"
    <3>1. looper'["end"] = 0
      BY <1>1, <2>1, <2>2, <2>4 DEF OneLoop
    <3> QED
      BY <3>1 DEF EndCounts, SwapAt, JoinAt
  <2>5. CASE l = "end"
    <3>1. looper'["end"] <= JoinAt(m) /\ atEnd[m] <= pushed[m]
      BY <1>1, <2>1, <2>2, <2>5 DEF EndCounts, JoinAt
    <3>2. looper'["end"] > SwapAt(m) => atEnd[m] + Len(buffer'[m]) <= pushed[m]
      <4>1. CASE m = k
        <5>1. Len(<<>>) = 0
          OBVIOUS
        <5> QED
          BY <1>1, <2>3, <3>1, <4>1, <5>1
      <4>2. CASE m # k
        <5>1. looper'["end"] > SwapAt(m) => looper["end"] > SwapAt(m)
          BY <2>1, <2>2, <2>5, <4>2 DEF SwapAt, Kinds
        <5> QED
          BY <1>1, <2>3, <4>2, <5>1 DEF EndCounts
      <4> QED
        BY <4>1, <4>2
    <3>3. looper'["end"] \in Nat /\ JoinAt(m) \in Nat
      BY <1>1, <2>1, <2>2, <2>5 DEF JoinAt
    <3>4. ~(looper'["end"] > JoinAt(m))
      BY <3>1, <3>3
    <3> QED
      BY <2>3, <3>1, <3>2, <3>4 DEF EndCounts
  <2> QED
    BY <2>4, <2>5 DEF Loopers
<1>9. ASSUME NEW l \in Loopers, NEW k \in Kinds, Push(l, k) PROVE EndCounts(m)'
  <2>1. looper[l] = PushAt(k) /\ PushAt(k) \in 3 .. 4
    BY <1>1, <1>9, Places DEF Push, PushAt
  <2>2. /\ looper'[l] = IF l = "timer" /\ looper[l] = 4 THEN 0 ELSE looper[l] + 1
        /\ \A n \in Loopers : n # l => looper'[n] = looper[n]
    BY <1>9, <2>1, Moves DEF Push
  <2>3. UNCHANGED <<atEnd, pushed, logFaults, buffer>>
    BY <1>9 DEF Push
  <2>4. CASE l = "timer"
    <3>1. looper'["end"] = 0
      BY <1>1, <2>1, <2>2, <2>4 DEF OneLoop
    <3> QED
      BY <3>1 DEF EndCounts, SwapAt, JoinAt
  <2>5. CASE l = "end"
    BY <1>1, <2>1, <2>2, <2>3, <2>5 DEF EndCounts, JoinAt, SwapAt
  <2> QED
    BY <2>4, <2>5 DEF Loopers
<1>10. ASSUME NEW k \in Kinds, Stop(k) PROVE EndCounts(m)'
  <2>1. looper["end"] = StopAt(k) /\ StopAt(k) \in 5 .. 6
    BY <1>1, <1>10, Places DEF Stop, StopAt
  <2>2. looper'["end"] = StopAt(k) + 1
    BY <1>1, <1>10, <2>1, Moves DEF Stop
  <2>3. UNCHANGED <<atEnd, pushed, logFaults, buffer>>
    BY <1>10 DEF Stop
  <2> QED
    BY <1>1, <2>1, <2>2, <2>3 DEF EndCounts, JoinAt, SwapAt
<1>11. ASSUME NEW k \in Kinds, Join(k) PROVE EndCounts(m)'
  <2>1. looper["end"] = JoinAt(k) /\ JoinAt(k) \in 7 .. 8
    BY <1>1, <1>11, Places DEF Join, JoinAt
  <2>2. looper'["end"] = JoinAt(k) + 1
    <3>1. looper["end"] \in 1 .. 8 /\ Onward("end")
      BY <1>11, <2>1 DEF Join
    <3> QED
      BY <1>1, <2>1, <3>1, Moves
  <2>3. /\ UNCHANGED <<atEnd, pushed, logFaults, buffer, writer>>
        /\ writer[k] = "ended" \/ (k = "app" /\ "exit" \in logFaults)
    BY <1>11 DEF Join, writerVars
  <2>4. looper'["end"] > JoinAt(m) => m = k \/ looper["end"] > JoinAt(m)
    BY <2>1, <2>2 DEF JoinAt, Kinds
  <2>5. looper["end"] > SwapAt(m)
    BY <2>1 DEF SwapAt
  <2> QED
    BY <1>1, <2>1, <2>3, <2>4, <2>5 DEF EndCounts
<1>12. CASE Midnight
  BY <1>3, <1>12 DEF Midnight
<1> QED
  BY <1>1, <1>4, <1>5, <1>6, <1>7, <1>8, <1>9, <1>10, <1>11, <1>12
  DEF LogNext, Execute, LoopFunc, Ending

\* The invariant holds at the start.
LEMMA LogInvInit == LogInit => LogInv
<1> SUFFICES ASSUME LogInit PROVE LogInv
  OBVIOUS
<1> USE DEF LogInit
<1>1. <<>> \in Seq(Nat) /\ <<>> \in Seq(Seq(Nat)) /\ Len(<<>>) = 0
  OBVIOUS
<1>2. LogTypes
  BY <1>1 DEF LogTypes, Loopers
<1>3. FileTypes /\ \A k \in Kinds : LastFile(k)
  <2>1. PICK full \in 0 .. 2 :
          /\ log = [k \in Kinds |-> [f \in Files |-> IF f[2] < full THEN MaxSize + 1 ELSE 0]]
          /\ "restarted" \notin logFaults => full = 0
    OBVIOUS
  <2>2. \A k \in Kinds, f \in Files : "restarted" \notin logFaults => log[k][f] = 0
    <3>1. \A f \in Files : ~(f[2] < 0)
      BY DEF Files
    <3> QED
      BY <2>1, <3>1
  <2>3. log \in [Kinds -> [Files -> Nat]]
    BY <2>1, AsyncLogAssumption DEF AsyncLogAssumption
  <2> QED
    BY <2>2, <2>3 DEF FileTypes, LastFile
<1>4. OneLoop
  BY DEF OneLoop, Loopers
<1>5. ASSUME NEW k \in Kinds PROVE InOrder(k)
  <2>1. /\ written[k] = <<>> /\ batches[k] = <<>> /\ buffer[k] = <<>> /\ pushed[k] = 0
        /\ \A l \in Loopers : moved[l][k] = <<>>
    OBVIOUS
  <2>2. Queued(k) = 0
    BY <1>1, <2>1, FollowsEmpty DEF Queued
  <2>3. Swapped(k) = 0
    BY <1>1, <2>1, <2>2 DEF Swapped, Loopers
  <2> QED
    BY <1>1, <2>1, <2>3, FollowsEmpty DEF InOrder
<1>6. ASSUME NEW k \in Kinds PROVE OneBatch(k) /\ EndCounts(k)
  <2>1. /\ batches[k] = <<>> /\ ~stopped[k] /\ ~isStop[k] /\ writer[k] = "look"
        /\ looper["end"] = 0
    BY DEF Loopers
  <2> QED
    BY <1>1, <2>1 DEF OneBatch, Tasks, EndCounts, SwapAt, JoinAt
<1> QED
  BY <1>2, <1>3, <1>4, <1>5, <1>6 DEF LogInv

\* Every step keeps it.
LEMMA LogInvStep == LogInv /\ [LogNext]_logVars => LogInv'
<1> SUFFICES ASSUME LogInv, [LogNext]_logVars PROVE LogInv'
  OBVIOUS
<1>1. CASE LogNext
  <2>1. LogTypes /\ FileTypes /\ \A k \in Kinds : LastFile(k)
    BY DEF LogInv
  <2>2. LogTypes' /\ FileTypes' /\ \A k \in Kinds : LastFile(k)'
    BY <1>1, <2>1, LogTypeStep, FileStep
  <2>3. logFaults' = logFaults
    BY <1>1, FilesStay DEF Write
  <2>4. Single => OneLoop' /\ \A k \in Kinds : InOrder(k)'
    BY <1>1, <2>1, OneLoopStep, OrderStep DEF LogInv
  <2>5. Ahead => \A k \in Kinds : OneBatch(k)' /\ EndCounts(k)'
    <3> SUFFICES ASSUME Ahead PROVE \A k \in Kinds : OneBatch(k)' /\ EndCounts(k)'
      OBVIOUS
    <3>1. OneLoop /\ \A k \in Kinds : InOrder(k) /\ OneBatch(k) /\ EndCounts(k)
      BY DEF LogInv, Ahead, Single
    <3>2. \A k \in Kinds : OneBatch(k)'
      BY <1>1, <2>1, <3>1, OneBatchStep
    <3>3. \A k \in Kinds : EndCounts(k)'
      BY <1>1, <2>1, <3>1, EndCountsStep
    <3> QED
      BY <3>2, <3>3
  <2>6. Single' = Single /\ Ahead' = Ahead
    BY <2>3 DEF Single, Ahead
  <2> QED
    BY <2>2, <2>4, <2>5, <2>6 DEF LogInv
<1>2. CASE UNCHANGED logVars
  BY <1>2 DEF logVars, writerVars, fileVars, LogInv, LogTypes, FileTypes, LastFile, Single, Ahead,
              OneLoop, InOrder, Queued, Swapped, OneBatch, EndCounts, Tasks
<1> QED
  BY <1>1, <1>2

\* The lines written are the first of those pushed, in order.
LEMMA InvInOrder == LogInv => WrittenInOrder
<1> SUFFICES ASSUME LogInv, Single, NEW k \in Kinds, NEW i \in DOMAIN written[k]
             PROVE  written[k][i] = i
  BY DEF WrittenInOrder, Single
<1>1. Follows(written[k], 0) /\ i \in 1 .. Len(written[k])
  BY DEF LogInv, InOrder, LogTypes
<1> QED
  BY <1>1 DEF Follows

\* When the program has ended nothing that the end had to write is still on its
\* way.
LEMMA InvEndWritesAll == LogInv => EndWritesAll
<1> SUFFICES ASSUME LogInv, looper["end"] = Len(Script), Ahead, NEW k \in Kinds,
                    ~(k = "app" /\ "exit" \in logFaults)
             PROVE  Len(written[k]) >= atEnd[k]
  BY DEF EndWritesAll, Ahead
<1>1. Len(Script) = 9
  BY DEF Script
<1>2. LogTypes /\ OneLoop /\ InOrder(k) /\ OneBatch(k) /\ EndCounts(k)
  BY DEF LogInv, Ahead, Single
<1>3. looper["end"] > JoinAt(k) /\ looper["end"] > SwapAt(k)
  BY <1>1 DEF JoinAt, SwapAt
<1>4. batches[k] = <<>>
  BY <1>2, <1>3 DEF EndCounts, OneBatch
<1>5. \A l \in Loopers : moved[l][k] = <<>>
  <2>1. looper["timer"] = 0
    BY <1>1, <1>2 DEF OneLoop
  <2> QED
    BY <1>1, <1>2, <2>1 DEF OneLoop, Loopers, SwapAt, PushAt
<1>6. Queued(k) = Len(written[k])
  BY <1>4, FollowsEmpty DEF Queued
<1>7. Swapped(k) = Len(written[k])
  <2>1. Len(<<>>) = 0 /\ Len(written[k]) \in Nat
    BY <1>2 DEF LogTypes
  <2>2. moved["timer"][k] = <<>> /\ moved["end"][k] = <<>>
    BY <1>5 DEF Loopers
  <2>3. Swapped(k) = Len(written[k]) + Len(<<>>) + Len(<<>>)
    BY <1>6, <2>2 DEF Swapped
  <2> QED
    BY <2>1, <2>3
<1>8. pushed[k] = Len(written[k]) + Len(buffer[k]) /\ atEnd[k] + Len(buffer[k]) <= pushed[k]
  BY <1>2, <1>3, <1>7 DEF InOrder, EndCounts
<1>9. Len(written[k]) \in Nat /\ Len(buffer[k]) \in Nat /\ atEnd[k] \in Nat /\ pushed[k] \in Nat
  BY <1>2 DEF LogTypes
<1>10. \A w, b, p, e \in Nat : p = w + b /\ e + b <= p => w >= e
  OBVIOUS
<1> QED
  BY <1>8, <1>9, <1>10, Zenon

\* For any number of lines, sizes and days and any faults: the lines of a kind
\* reach the files in the order in which they were pushed, each once, unless two
\* LoopFuncs overlap; those pushed before the program began to end are there when
\* it has ended, unless a batch was queued before; and none goes to a full file,
\* but for those of an earlier run.
THEOREM KeepsLinesHolds == LogSpec => KeepsLines
<1> DEFINE Fits == \A k \in Kinds, f \in Files :
                      log'[k][f] # log[k][f] /\ "restarted" \notin logFaults => log[k][f] <= MaxSize
<1>1. LogInv /\ [LogNext]_logVars => [Fits]_logVars
  <2> SUFFICES ASSUME LogInv, LogNext, NEW k \in Kinds, NEW f \in Files,
                      log'[k][f] # log[k][f], "restarted" \notin logFaults
               PROVE  log[k][f] <= MaxSize
    OBVIOUS
  <2>1. PICK m \in Kinds : Write(m)
    BY FilesStay DEF fileVars
  <2>2. LogTypes /\ FileTypes /\ LastFile(m)
    BY DEF LogInv
  <2>3. m = k
    BY <2>1, <2>2, WriteTo
  <2> QED
    BY <2>1, <2>2, <2>3, WriteTo
<1>2. LogSpec => []LogInv
  BY LogInvInit, LogInvStep, PTL DEF LogSpec
<1>3. LogInv => WrittenInOrder /\ EndWritesAll
  BY InvInOrder, InvEndWritesAll
<1>4. LogSpec => [][WrittenInOrder' /\ EndWritesAll' /\ Fits]_logVars
  BY <1>1, <1>2, <1>3, PTL DEF LogSpec
<1> QED
  BY <1>4, PTL DEF KeepsLines
=============================================================================
