----------------------------- MODULE TimerProofs -----------------------------
(* What the timer keeps, for any number of threads and events.             *)
EXTENDS Timer, SequenceElements, FiniteSetTheorems

----------------------------------------------------------------------------
(* Sorted sequences and what is selected from them.                        *)

\* RepeatedOf is defined by a function on the prefixes' lengths.
Selected(s, F) ==
    F = [i \in 0 .. Len(s) |-> IF i = 0 THEN <<>>
                               ELSE IF s[i] \in Repeated THEN Append(F[i - 1], s[i]) ELSE F[i - 1]]

\* There is such a function.
LEMMA SelectedExists ==
    ASSUME NEW S, NEW s \in Seq(S)
    PROVE  \E F : Selected(s, F)
<1> DEFINE Step(g, i) == IF i = 0 THEN <<>>
                         ELSE IF s[i] \in Repeated THEN Append(g[i - 1], s[i]) ELSE g[i - 1]
           Good(n) == \E g : g = [i \in 0 .. n |-> Step(g, i)]
           Fits == {n \in 0 .. Len(s) : Good(n)}
<1>1. 0 \in Fits
  <2> DEFINE g == [i \in 0 .. 0 |-> <<>>]
  <2>1. g = [i \in 0 .. 0 |-> Step(g, i)]
    OBVIOUS
  <2>2. Good(0)
    BY <2>1
  <2> QED
    BY <2>2
<1>2. ASSUME NEW n \in 1 .. Len(s), n - 1 \in Fits PROVE n \in Fits
  <2>1. PICK g : g = [i \in 0 .. (n - 1) |-> Step(g, i)]
    BY <1>2
  <2> DEFINE h == [i \in 0 .. n |-> IF i = n THEN Step(g, n) ELSE g[i]]
  <2>2. \A i \in 0 .. n : i # 0 => h[i - 1] = g[i - 1]
    OBVIOUS
  <2>3. \A i \in 0 .. n : h[i] = Step(h, i)
    <3> TAKE i \in 0 .. n
    <3>1. CASE i = n
      BY <2>2, <3>1
    <3>2. CASE i # n
      <4>1. i \in 0 .. (n - 1) /\ h[i] = g[i]
        BY <3>2
      <4>2. g[i] = Step(g, i)
        BY <2>1, <4>1
      <4> QED
        BY <2>2, <4>1, <4>2
    <3> QED
      BY <3>1, <3>2
  <2>4. h = [i \in 0 .. n |-> Step(h, i)]
    BY <2>3
  <2>5. Good(n)
    BY <2>4
  <2> QED
    BY <2>5
<1>3. Fits = 0 .. Len(s)
  <2>1. Fits \in SUBSET (0 .. Len(s)) /\ Len(s) \in Nat
    OBVIOUS
  <2> HIDE DEF Fits
  <2> QED
    BY <1>1, <1>2, <2>1, UpTo
<1>4. Good(Len(s))
  BY <1>3
<1> QED
  BY <1>4 DEF Selected

\* The repeated events of a sequence, each once.
LEMMA RepeatedElements ==
    ASSUME NEW s \in Seq(Events), IsInjective(s)
    PROVE  /\ RepeatedOf(s) \in Seq(Events) /\ IsInjective(RepeatedOf(s))
           /\ ToSet(RepeatedOf(s)) = ToSet(s) \cap Repeated
<1> DEFINE F == CHOOSE F : Selected(s, F)
           Upto(n) == {s[i] : i \in 1 .. n} \cap Repeated
           Fits == {n \in 0 .. Len(s) : /\ F[n] \in Seq(Events) /\ IsInjective(F[n])
                                        /\ ToSet(F[n]) = Upto(n)}
<1>1. Selected(s, F)
  BY SelectedExists
<1>2. RepeatedOf(s) = F[Len(s)]
  BY DEF RepeatedOf, Selected
<1> HIDE DEF F
<1>3. /\ F[0] = <<>>
      /\ \A i \in 1 .. Len(s) :
            F[i] = IF s[i] \in Repeated THEN Append(F[i - 1], s[i]) ELSE F[i - 1]
  <2>1. Len(s) \in Nat /\ 0 \in 0 .. Len(s) /\ \A i \in 1 .. Len(s) : i \in 0 .. Len(s) /\ i # 0
    OBVIOUS
  <2> QED
    BY <1>1, <2>1 DEF Selected
<1>4. 0 \in Fits
  <2>1. Upto(0) = {} /\ 0 \in 0 .. Len(s) /\ <<>> \in Seq(Events)
    OBVIOUS
  <2> QED
    BY <1>3, <2>1, EmptyElements
<1>5. ASSUME NEW n \in 1 .. Len(s), n - 1 \in Fits PROVE n \in Fits
  <2>1. /\ F[n - 1] \in Seq(Events) /\ IsInjective(F[n - 1]) /\ ToSet(F[n - 1]) = Upto(n - 1)
        /\ s[n] \in Events /\ n \in 0 .. Len(s)
    BY <1>5
  <2>2. s[n] \notin Upto(n - 1)
    BY DEF IsInjective
  <2>3. {s[i] : i \in 1 .. n} = {s[i] : i \in 1 .. (n - 1)} \cup {s[n]}
    OBVIOUS
  <2>4. CASE s[n] \in Repeated
    <3>1. F[n] = Append(F[n - 1], s[n])
      BY <1>3, <2>4
    <3>2. /\ Append(F[n - 1], s[n]) \in Seq(Events) /\ IsInjective(Append(F[n - 1], s[n]))
          /\ ToSet(Append(F[n - 1], s[n])) = Upto(n - 1) \cup {s[n]}
      <4> HIDE DEF Upto
      <4> QED
        BY <2>1, <2>2, AppendElements, AppendProperties
    <3>3. Upto(n) = Upto(n - 1) \cup {s[n]}
      BY <2>3, <2>4
    <3> QED
      BY <2>1, <3>1, <3>2, <3>3
  <2>5. CASE s[n] \notin Repeated
    <3>1. F[n] = F[n - 1]
      BY <1>3, <2>5
    <3>2. Upto(n) = Upto(n - 1)
      BY <2>3, <2>5
    <3> QED
      BY <2>1, <3>1, <3>2
  <2> QED
    BY <2>4, <2>5
<1>6. Fits = 0 .. Len(s)
  <2>1. Fits \in SUBSET (0 .. Len(s)) /\ Len(s) \in Nat
    OBVIOUS
  <2> HIDE DEF Fits
  <2> QED
    BY <1>4, <1>5, <2>1, UpTo
<1>7. Len(s) \in Fits
  <2>1. Len(s) \in 0 .. Len(s)
    OBVIOUS
  <2> QED
    BY <1>6, <2>1
<1>8. ToSet(s) = {s[i] : i \in 1 .. Len(s)}
  BY DEF ToSet
<1> QED
  BY <1>2, <1>7, <1>8

----------------------------------------------------------------------------
(* Sequences in the order of a key.                                        *)

Sorted(s, key) == \A i, j \in DOMAIN s : i < j => key[s[i]] <= key[s[j]]

\* In a sorted sequence the elements up to a key are the first ones.
LEMMA FirstUpTo ==
    ASSUME NEW s \in Seq(Events), NEW key \in [Events -> Nat], NEW k \in Nat, Sorted(s, key)
    PROVE  \E m \in 0 .. Len(s) :
              /\ {i \in DOMAIN s : key[s[i]] <= k} = 1 .. m
              /\ Cardinality({i \in DOMAIN s : key[s[i]] <= k}) = m
<1> DEFINE Before == {i \in DOMAIN s : key[s[i]] <= k}
<1>1. Len(s) \in Nat /\ DOMAIN s = 1 .. Len(s) /\ \A i \in 1 .. Len(s) : key[s[i]] \in Nat
  OBVIOUS
<1>2. /\ Before \in SUBSET (1 .. Len(s))
      /\ \A i \in Before : \A j \in 1 .. Len(s) : j < i => j \in Before
  BY <1>1 DEF Sorted
<1> HIDE DEF Before
<1>3. \E m \in 0 .. Len(s) : Before = 1 .. m /\ Cardinality(Before) = m
  BY <1>1, <1>2, FirstPlaces
<1> QED
  BY <1>3 DEF Before

\* Emplace adds its event and keeps the order.
LEMMA EmplaceElements ==
    ASSUME NEW s \in Seq(Events), IsInjective(s), NEW e \in Events, e \notin ToSet(s),
           NEW key \in [Events -> Nat], Sorted(s, key)
    PROVE  LET r == Emplace(s, e, key)
           IN  /\ r \in Seq(Events) /\ IsInjective(r) /\ ToSet(r) = ToSet(s) \cup {e}
               /\ Sorted(r, key)
<1>1. PICK m \in 0 .. Len(s) :
          /\ {i \in DOMAIN s : key[s[i]] <= key[e]} = 1 .. m
          /\ Cardinality({i \in DOMAIN s : key[s[i]] <= key[e]}) = m
  BY FirstUpTo
<1>3. PICK r \in Seq(Events) :
          /\ r = InsertAt(s, m + 1, e) /\ Len(r) = Len(s) + 1
          /\ \A i \in 1 .. m : r[i] = s[i]
          /\ r[m + 1] = e
          /\ \A i \in (m + 2) .. (Len(s) + 1) : r[i] = s[i - 1]
  <2>1. InsertAt(s, m + 1, e) \in Seq(Events) /\ IsInserted(InsertAt(s, m + 1, e), s, m, e)
    BY InsertPlaces
  <2> QED
    BY <2>1 DEF IsInserted
<1>2. Emplace(s, e, key) = r
  BY <1>1, <1>3, Zenon DEF Emplace
<1>4. /\ Len(s) \in Nat /\ m \in Nat /\ m <= Len(s)
      /\ DOMAIN s = 1 .. Len(s) /\ DOMAIN r = 1 .. (Len(s) + 1)
  BY <1>3
<1> DEFINE From(i) == IF i <= m THEN i ELSE i - 1
<1>5. \A i \in 1 .. (Len(s) + 1) : i # m + 1 => From(i) \in 1 .. Len(s) /\ r[i] = s[From(i)]
  <2> TAKE i \in 1 .. (Len(s) + 1)
  <2>1. CASE i <= m
    BY <1>3, <1>4, <2>1
  <2>2. CASE i > m + 1
    <3>1. i \in (m + 2) .. (Len(s) + 1) /\ ~(i <= m)
      BY <1>4, <2>2
    <3> QED
      BY <1>3, <1>4, <3>1
  <2> QED
    BY <1>4, <2>1, <2>2
<1>6. \A i, j \in 1 .. (Len(s) + 1) : i # m + 1 /\ j # m + 1 =>
          /\ i < j => From(i) < From(j)
          /\ From(i) = From(j) => i = j
  BY <1>4
<1>7. \A i \in 1 .. Len(s) : s[i] # e /\ s[i] \in Events
  <2>1. e \notin {s[i] : i \in 1 .. Len(s)}
    BY <1>4 DEF ToSet
  <2> QED
    BY <1>4, <2>1
<1>8. IsInjective(r)
  <2>1. ASSUME NEW i \in 1 .. (Len(s) + 1), NEW j \in 1 .. (Len(s) + 1), r[i] = r[j] PROVE i = j
    <3>1. CASE i = m + 1 \/ j = m + 1
      <4>1. \A k \in 1 .. (Len(s) + 1) : k # m + 1 => r[k] # e
        BY <1>5, <1>7
      <4> QED
        BY <1>3, <1>4, <2>1, <3>1, <4>1
    <3>2. CASE i # m + 1 /\ j # m + 1
      <4>1. s[From(i)] = s[From(j)] /\ From(i) \in DOMAIN s /\ From(j) \in DOMAIN s
        BY <1>4, <1>5, <2>1, <3>2
      <4>2. From(i) = From(j)
        BY <4>1 DEF IsInjective
      <4> QED
        BY <1>6, <3>2, <4>2
    <3> QED
      BY <3>1, <3>2
  <2> QED
    BY <1>4, <2>1 DEF IsInjective
<1>9. ToSet(r) = ToSet(s) \cup {e}
  <2>1. ASSUME NEW i \in 1 .. (Len(s) + 1) PROVE r[i] \in ToSet(s) \cup {e}
    BY <1>3, <1>4, <1>5 DEF ToSet
  <2>2. ASSUME NEW i \in 1 .. Len(s) PROVE \E j \in 1 .. (Len(s) + 1) : r[j] = s[i]
    <3>1. CASE i <= m
      <4>1. i \in 1 .. m /\ i \in 1 .. (Len(s) + 1)
        BY <1>4, <3>1
      <4> QED
        BY <1>3, <4>1
    <3>2. CASE i > m
      <4>1. i + 1 \in (m + 2) .. (Len(s) + 1) /\ i + 1 - 1 = i /\ i + 1 \in 1 .. (Len(s) + 1)
        BY <1>4, <3>2
      <4>2. r[i + 1] = s[i + 1 - 1]
        BY <1>3, <4>1
      <4> QED
        BY <4>1, <4>2
    <3> QED
      BY <1>4, <3>1, <3>2
  <2>3. m + 1 \in 1 .. (Len(s) + 1)
    BY <1>4
  <2> QED
    <3>1. /\ ToSet(r) = {r[i] : i \in 1 .. (Len(s) + 1)}
          /\ ToSet(s) = {s[i] : i \in 1 .. Len(s)}
      BY <1>4 DEF ToSet
    <3>2. ToSet(r) \subseteq ToSet(s) \cup {e}
      BY <2>1, <3>1
    <3>3. ToSet(s) \subseteq ToSet(r)
      BY <2>2, <3>1
    <3>4. e \in ToSet(r)
      BY <1>3, <2>3, <3>1
    <3> QED
      BY <3>2, <3>3, <3>4
<1>10. Sorted(r, key)
  <2>1. /\ \A i \in 1 .. m : key[s[i]] <= key[e]
        /\ \A i \in (m + 1) .. Len(s) : key[s[i]] > key[e]
        /\ key[e] \in Nat /\ \A i \in 1 .. Len(s) : key[s[i]] \in Nat
    <3>1. \A i \in 1 .. Len(s) : key[s[i]] <= key[e] <=> i \in 1 .. m
      BY <1>1, <1>4
    <3>2. key[e] \in Nat /\ \A i \in 1 .. Len(s) : key[s[i]] \in Nat
      BY <1>7
    <3>3. /\ \A i \in 1 .. m : i \in 1 .. Len(s)
          /\ \A i \in (m + 1) .. Len(s) : i \in 1 .. Len(s) /\ i \notin 1 .. m
      BY <1>4
    <3> QED
      BY <3>1, <3>2, <3>3
  <2> SUFFICES ASSUME NEW i \in 1 .. (Len(s) + 1), NEW j \in 1 .. (Len(s) + 1), i < j
               PROVE  key[r[i]] <= key[r[j]]
    BY <1>4 DEF Sorted
  <2>2. CASE i # m + 1 /\ j # m + 1
    <3>1. /\ From(i) < From(j) /\ From(i) \in DOMAIN s /\ From(j) \in DOMAIN s
          /\ r[i] = s[From(i)] /\ r[j] = s[From(j)]
      BY <1>4, <1>5, <1>6, <2>2
    <3> HIDE DEF From
    <3> QED
      BY <3>1 DEF Sorted
  <2>3. CASE i = m + 1
    <3>1. From(j) \in (m + 1) .. Len(s) /\ r[j] = s[From(j)]
      BY <1>4, <1>5, <2>3
    <3> HIDE DEF From
    <3> QED
      BY SMTT(30), <1>3, <1>4, <2>1, <2>3, <3>1
  <2>4. CASE j = m + 1
    <3>1. i \in 1 .. m
      BY <1>4, <2>4
    <3> QED
      BY <1>3, <2>1, <2>4, <3>1
  <2> QED
    BY <2>2, <2>3, <2>4
<1> QED
  BY <1>2, <1>3, <1>8, <1>9, <1>10

\* A sequence without one of its places.
LEMMA RemoveElements ==
    ASSUME NEW s \in Seq(Events), IsInjective(s), NEW n \in 1 .. Len(s),
           NEW key \in [Events -> Nat], Sorted(s, key)
    PROVE  LET r == RemoveAt(s, n)
           IN  /\ r \in Seq(Events) /\ IsInjective(r) /\ ToSet(r) = ToSet(s) \ {s[n]}
               /\ Sorted(r, key)
<1> DEFINE From(i) == IF i < n THEN i ELSE i + 1
<1>1. Len(s) \in Nat /\ DOMAIN s = 1 .. Len(s) /\ n \in Nat /\ n <= Len(s)
  OBVIOUS
<1>4. PICK r \in Seq(Events) :
          /\ r = RemoveAt(s, n) /\ Len(r) = Len(s) - 1
          /\ \A i \in 1 .. (n - 1) : r[i] = s[i]
          /\ \A i \in n .. (Len(s) - 1) : r[i] = s[i + 1]
  <2>1. RemoveAt(s, n) \in Seq(Events) /\ IsRemoved(RemoveAt(s, n), s, n)
    BY RemovePlaces
  <2> QED
    BY <2>1 DEF IsRemoved
<1>5. RemoveAt(s, n) = r
  BY <1>4
<1>6. DOMAIN r = 1 .. (Len(s) - 1)
  BY <1>4
<1>7. \A i \in 1 .. (Len(s) - 1) : From(i) \in 1 .. Len(s) /\ From(i) # n /\ r[i] = s[From(i)]
  <2> TAKE i \in 1 .. (Len(s) - 1)
  <2>1. CASE i < n
    <3>1. i \in 1 .. (n - 1) /\ From(i) = i /\ i \in 1 .. Len(s) /\ i # n
      BY <1>1, <2>1
    <3> QED
      BY <1>4, <3>1
  <2>2. CASE ~(i < n)
    <3>1. i \in n .. (Len(s) - 1) /\ From(i) = i + 1
      BY <1>1, <2>2
    <3>2. i + 1 \in 1 .. Len(s) /\ i + 1 # n
      BY <1>1, <2>2
    <3> QED
      BY <1>4, <3>1, <3>2
  <2> QED
    BY <2>1, <2>2
<1>8. \A i, j \in 1 .. (Len(s) - 1) :
          /\ i < j => From(i) < From(j)
          /\ From(i) = From(j) => i = j
  BY <1>1
<1>9. \A k \in 1 .. Len(s) : k # n => \E i \in 1 .. (Len(s) - 1) : From(i) = k
  <2> TAKE k \in 1 .. Len(s)
  <2> HAVE k # n
  <2>1. CASE k < n
    <3>1. k \in 1 .. (Len(s) - 1) /\ From(k) = k
      BY <1>1, <2>1
    <3> QED
      BY <3>1
  <2>2. CASE k > n
    <3>1. k - 1 \in 1 .. (Len(s) - 1) /\ From(k - 1) = k
      BY <1>1, <2>2
    <3> QED
      BY <3>1
  <2> QED
    BY <1>1, <2>1, <2>2
<1> HIDE DEF From
<1>10. IsInjective(r)
  <2>1. ASSUME NEW i \in 1 .. (Len(s) - 1), NEW j \in 1 .. (Len(s) - 1), r[i] = r[j] PROVE i = j
    <3>1. From(i) = From(j)
      BY <1>1, <1>7, <2>1 DEF IsInjective
    <3> QED
      BY <1>8, <3>1
  <2> QED
    BY <1>6, <2>1 DEF IsInjective
<1>11. ToSet(r) = ToSet(s) \ {s[n]}
  <2>1. ASSUME NEW i \in 1 .. (Len(s) - 1) PROVE r[i] \in ToSet(s) \ {s[n]}
    BY <1>1, <1>7 DEF ToSet, IsInjective
  <2>2. ASSUME NEW k \in 1 .. Len(s), s[k] # s[n] PROVE \E i \in 1 .. (Len(s) - 1) : r[i] = s[k]
    BY <1>7, <1>9, <2>2
  <2> QED
    <3>1. /\ ToSet(r) = {r[i] : i \in 1 .. (Len(s) - 1)}
          /\ ToSet(s) = {s[i] : i \in 1 .. Len(s)}
      BY <1>1, <1>6 DEF ToSet
    <3>2. ToSet(r) \subseteq ToSet(s) \ {s[n]}
      BY <2>1, <3>1
    <3>3. ToSet(s) \ {s[n]} \subseteq ToSet(r)
      BY <2>2, <3>1
    <3> QED
      BY <3>2, <3>3
<1>12. Sorted(r, key)
  <2> SUFFICES ASSUME NEW i \in 1 .. (Len(s) - 1), NEW j \in 1 .. (Len(s) - 1), i < j
               PROVE  key[r[i]] <= key[r[j]]
    BY <1>6 DEF Sorted
  <2>1. /\ From(i) < From(j) /\ From(i) \in DOMAIN s /\ From(j) \in DOMAIN s
        /\ r[i] = s[From(i)] /\ r[j] = s[From(j)]
    BY <1>1, <1>7, <1>8
  <2> QED
    BY <2>1 DEF Sorted
<1> QED
  BY <1>4, <1>5, <1>10, <1>11, <1>12

\* A sorted sequence cut in two.
LEMMA CutSorted ==
    ASSUME NEW s \in Seq(Events), NEW n \in 0 .. Len(s), NEW key \in [Events -> Nat], Sorted(s, key)
    PROVE  /\ ToSet(SubSeq(s, 1, n)) \cup ToSet(SubSeq(s, n + 1, Len(s))) = ToSet(s)
           /\ Sorted(SubSeq(s, n + 1, Len(s)), key)
           /\ \A e \in ToSet(SubSeq(s, 1, n)) : \E i \in 1 .. n : e = s[i]
           /\ \A e \in ToSet(SubSeq(s, n + 1, Len(s))) : \E i \in (n + 1) .. Len(s) : e = s[i]
<1>1. Len(s) \in Nat /\ DOMAIN s = 1 .. Len(s) /\ n \in Nat /\ n <= Len(s)
  OBVIOUS
<1>2. PICK first, rest \in Seq(Events) :
          /\ first = SubSeq(s, 1, n) /\ Len(first) = n
          /\ rest = SubSeq(s, n + 1, Len(s)) /\ Len(rest) = Len(s) - n
          /\ \A i \in 1 .. n : first[i] = s[i]
          /\ \A i \in 1 .. (Len(s) - n) : rest[i] = s[n + i]
  <2>1. /\ SubSeq(s, 1, n) \in Seq(Events) /\ SubSeq(s, n + 1, Len(s)) \in Seq(Events)
        /\ IsCut(SubSeq(s, 1, n), SubSeq(s, n + 1, Len(s)), s, n)
    BY CutPlaces
  <2> QED
    BY <2>1 DEF IsCut
<1>4. DOMAIN first = 1 .. n /\ DOMAIN rest = 1 .. (Len(s) - n)
  BY <1>2, <1>2
<1>5. \A i \in 1 .. (Len(s) - n) : n + i \in 1 .. Len(s)
  BY <1>1
<1>6. \A k \in 1 .. Len(s) : k > n => k - n \in 1 .. (Len(s) - n) /\ rest[k - n] = s[k]
  <2> TAKE k \in 1 .. Len(s)
  <2> HAVE k > n
  <2>1. k - n \in 1 .. (Len(s) - n) /\ n + (k - n) = k
    BY <1>1
  <2> QED
    BY <1>2, <2>1
<1>7. ToSet(first) \cup ToSet(rest) = ToSet(s)
  <2>1. \A i \in 1 .. n : first[i] \in ToSet(s)
    <3>1. \A i \in 1 .. n : i \in DOMAIN s
      BY <1>1
    <3> QED
      BY <1>2, <3>1 DEF ToSet
  <2>2. \A i \in 1 .. (Len(s) - n) : rest[i] \in ToSet(s)
    BY <1>1, <1>2, <1>5 DEF ToSet
  <2>3. \A k \in 1 .. Len(s) : s[k] \in ToSet(first) \cup ToSet(rest)
    <3> TAKE k \in 1 .. Len(s)
    <3>1. CASE k <= n
      <4>1. k \in 1 .. n
        BY <1>1, <3>1
      <4> QED
        BY <1>2, <1>4, <4>1 DEF ToSet
    <3>2. CASE k > n
      BY <1>4, <1>6, <3>2 DEF ToSet
    <3> QED
      BY <1>1, <3>1, <3>2
  <2> QED
    BY <1>1, <1>4, <2>1, <2>2, <2>3 DEF ToSet
<1>8. Sorted(rest, key)
  <2> SUFFICES ASSUME NEW i \in 1 .. (Len(s) - n), NEW j \in 1 .. (Len(s) - n), i < j
               PROVE  key[rest[i]] <= key[rest[j]]
    BY <1>4 DEF Sorted
  <2>1. n + i < n + j /\ n + i \in DOMAIN s /\ n + j \in DOMAIN s
    BY <1>1, <1>5
  <2>2. rest[i] = s[n + i] /\ rest[j] = s[n + j]
    BY <1>2
  <2> QED
    BY <2>1, <2>2 DEF Sorted
<1>9. \A e \in ToSet(first) : \E i \in 1 .. n : e = s[i]
  BY <1>2, <1>4 DEF ToSet
<1>10. \A e \in ToSet(rest) : \E i \in (n + 1) .. Len(s) : e = s[i]
  <2>1. \A j \in 1 .. (Len(s) - n) : n + j \in (n + 1) .. Len(s)
    BY <1>1
  <2> QED
    BY <1>2, <1>4, <2>1 DEF ToSet
<1> QED
  BY <1>2, <1>7, <1>8, <1>9, <1>10

----------------------------------------------------------------------------
(* The invariant.                                                          *)

\* An event that is not yet in the map is nowhere, and nobody deletes it.
NewInv ==
    \A e \in Events : status[e] \in {"new", "made"} =>
        /\ e \notin ToSet(pending) /\ e \notin ToSet(repeats) /\ e \notin ToSet(tasks)
        /\ deleted[e] = "no"

\* An event that was made is one thread's to add.
MadeInv ==
    /\ \A a \in Actors : pc[a] = "add" => subject[a] \in Events /\ status[subject[a]] = "made"
    /\ \A a, b \in Actors : pc[a] = "add" /\ pc[b] = "add" /\ a # b => subject[a] # subject[b]

\* The times stay within the bounds of the model, and an event that repeats
\* is never done.
TimeInv ==
    /\ now <= MaxTime
    /\ \A e \in Events : status[e] # "new" => Interval[e] <= MaxTime
    /\ \A e \in Repeated : status[e] # "ran"

\* Where an event may be twice.
OnceInv ==
    /\ IsInjective(pending) /\ IsInjective(repeats) /\ IsInjective(tasks)
    /\ ToSet(pending) \cap ToSet(repeats) = {}
    /\ ToSet(repeats) \subseteq Repeated
    /\ ToSet(repeats) \subseteq ToSet(tasks)
    /\ ToSet(pending) \cap ToSet(tasks) \subseteq Repeated

\* A DelTimerEvent of e is between its two steps.
Erasing(e) == \E a \in Actors : pc[a] = "erase" /\ subject[a] = e

\* Where an event that was added must be.  One that repeats goes from the map
\* to OnTimer's list and back, the others to the tasks.
KeptInv ==
    /\ \A e \in Repeated : status[e] = "added" /\ deleted[e] = "no" =>
          e \in ToSet(pending) \cup ToSet(repeats) \/ lost[e] # Never
    /\ \A e \in Events \ Repeated : status[e] = "added" /\ (deleted[e] = "no" \/ Erasing(e)) =>
          e \in ToSet(pending) \cup ToSet(tasks) \/ lost[e] # Never

\* Each deletion that missed its event cost one other, and is over.
LostInv ==
    \A e \in Events : lost[e] # Never =>
        /\ deleted[lost[e]] # "no" /\ ~Erasing(lost[e])
        /\ lost[e] \in Repeated \/ Gone(lost[e])
        /\ \A f \in Events : lost[f] = lost[e] => f = e

\* What OnTimer has taken at each of its steps.
LoopInv ==
    /\ pc[Loop] \notin {"repeat", "again"} => repeats = <<>>
    /\ pc[Loop] = "again" => repeats # <<>>
    /\ pc[Loop] = "collect" => tasks = <<>> /\ last[Loop] <= now

\* The tasks may run, and the deleted events they are not of stay cancelled.
TaskInv ==
    /\ \A e \in ToSet(tasks) : e \notin Repeated => arrive[e] <= now
    /\ \A e \in Events : deleted[e] = "before" => cancelled[e] /\ e \notin ToSet(tasks)
    /\ \A e \in Events : deleted[e] = "no" => ~cancelled[e]

\* An event that is being deleted is one thread's to erase.
EraseInv ==
    /\ \A a \in Actors : pc[a] = "erase" =>
          subject[a] \in Events /\ deleted[subject[a]] # "no" /\ status[subject[a]] \in {"added", "ran"}
    /\ \A a, b \in Actors : pc[a] = "erase" /\ pc[b] = "erase" /\ a # b => subject[a] # subject[b]

\* Where the events are.
PlaceInv == NewInv /\ MadeInv /\ OnceInv /\ KeptInv /\ LostInv

TimerInv == TypeOK /\ PlaceInv /\ TimeInv /\ LoopInv /\ TaskInv /\ EraseInv

----------------------------------------------------------------------------
(* The steps.                                                              *)

\* What is in the sequences are events, and times are numbers.
LEMMA Shape ==
    ASSUME TypeOK
    PROVE  /\ ToSet(pending) \subseteq Events /\ ToSet(repeats) \subseteq Events
           /\ ToSet(tasks) \subseteq Events
           /\ Times \subseteq Nat /\ arrive \in [Events -> Nat] /\ now \in Nat /\ MaxTime \in Nat
           /\ last \in [Actors -> Nat] /\ Loop \in Actors
           /\ Sorted(pending, arrive)
<1>1. Times \subseteq Nat /\ MaxTime \in Nat /\ Loop \in Actors
  BY TimerAssumption DEF Times, Actors
<1>2. /\ ToSet(pending) \subseteq Events /\ ToSet(repeats) \subseteq Events
      /\ ToSet(tasks) \subseteq Events
  BY DEF TypeOK, ToSet
<1>3. arrive \in [Events -> Nat] /\ now \in Nat /\ last \in [Actors -> Nat]
  BY <1>1 DEF TypeOK
<1>4. Sorted(pending, arrive)
  BY DEF TypeOK, Sorted
<1> QED
  BY <1>1, <1>2, <1>3, <1>4

\* The place after the events that arrive no later is one of the map's, or the
\* one after its last.
LEMMA UpperPlace ==
    ASSUME TypeOK, NEW e \in Events
    PROVE  UpperBound(e) \in 1 .. (Len(pending) + 1)
<1> DEFINE k == arrive[e]
<1>1. /\ pending \in Seq(Events) /\ arrive \in [Events -> Nat] /\ Sorted(pending, arrive)
      /\ k \in Nat
  BY Shape DEF TypeOK
<1> HIDE DEF k
<1>2. PICK m \in 0 .. Len(pending) :
          /\ {i \in DOMAIN pending : arrive[pending[i]] <= k} = 1 .. m
          /\ Cardinality({i \in DOMAIN pending : arrive[pending[i]] <= k}) = m
  BY <1>1, FirstUpTo
<1>3. UpperBound(e) = m + 1
  BY <1>2 DEF UpperBound, k
<1>4. Len(pending) \in Nat
  BY <1>1
<1> QED
  BY <1>2, <1>3, <1>4

\* An event outside the map is put in it.
LEMMA PutIn ==
    ASSUME TypeOK, IsInjective(pending), NEW e \in Events, e \notin ToSet(pending)
    PROVE  LET r == Emplace(pending, e, arrive)
           IN  /\ r \in Seq(Events) /\ IsInjective(r) /\ ToSet(r) = ToSet(pending) \cup {e}
               /\ \A i, j \in DOMAIN r : i < j => arrive[r[i]] <= arrive[r[j]]
<1>1. arrive \in [Events -> Nat] /\ pending \in Seq(Events) /\ Sorted(pending, arrive)
  BY Shape DEF TypeOK
<1> DEFINE r == Emplace(pending, e, arrive)
<1>2. r \in Seq(Events) /\ IsInjective(r) /\ ToSet(r) = ToSet(pending) \cup {e} /\ Sorted(r, arrive)
  BY <1>1, EmplaceElements
<1> QED
  BY <1>2 DEF Sorted

\* A new arrival time of an event outside the map does not touch the map's order.
LEMMA Retimed ==
    ASSUME TypeOK, NEW e \in Events, e \notin ToSet(pending), NEW t \in Times,
           arrive' = [arrive EXCEPT ![e] = t]
    PROVE  /\ arrive' \in [Events -> Times] /\ arrive'[e] = t
           /\ \A f \in Events : f # e => arrive'[f] = arrive[f]
           /\ \A i, j \in DOMAIN pending : i < j => arrive'[pending[i]] <= arrive'[pending[j]]
<1>1. \A i \in DOMAIN pending : pending[i] # e /\ pending[i] \in Events
  BY Shape DEF ToSet
<1>2. \A i \in DOMAIN pending : arrive'[pending[i]] = arrive[pending[i]]
  BY <1>1 DEF TypeOK
<1> QED
  BY <1>2 DEF TypeOK

\* The events that OnTimer takes have arrived and are not deleted.
LEMMA ArrivedFirst ==
    ASSUME TypeOK, NEW time \in Nat
    PROVE  /\ Arrived(time) \in 0 .. Len(pending)
           /\ \A i \in 1 .. Arrived(time) : arrive[pending[i]] <= time /\ ~cancelled[pending[i]]
<1> DEFINE stops == {i \in DOMAIN pending : arrive[pending[i]] > time \/ cancelled[pending[i]]}
<1>1. /\ Len(pending) \in Nat /\ DOMAIN pending = 1 .. Len(pending)
      /\ \A i \in 1 .. Len(pending) : pending[i] \in Events /\ arrive[pending[i]] \in Nat
  BY Shape DEF TypeOK
<1>2. \A i \in 1 .. Len(pending) : i \notin stops =>
          arrive[pending[i]] <= time /\ ~cancelled[pending[i]]
  BY <1>1
<1>3. stops \in SUBSET (1 .. Len(pending)) /\ stops \in SUBSET Nat
  BY <1>1
<1>4. CASE stops = {}
  <2>1. Arrived(time) = Len(pending)
    BY <1>4 DEF Arrived
  <2> QED
    BY <1>1, <1>2, <1>4, <2>1
<1>5. CASE stops # {}
  <2> DEFINE n == CHOOSE i \in stops : \A j \in stops : i <= j
  <2>1. Arrived(time) = n - 1
    BY <1>5 DEF Arrived
  <2> HIDE DEF stops
  <2>2. n \in stops /\ \A j \in stops : n <= j
    <3>1. \E i \in stops : \A j \in stops : i <= j
      BY <1>3, <1>5, Smallest
    <3> QED
      BY <3>1
  <2> HIDE DEF n
  <2>3. n \in 1 .. Len(pending) /\ n - 1 \in 0 .. Len(pending)
    BY <1>1, <1>3, <2>2
  <2>4. \A i \in 1 .. (n - 1) : i \in 1 .. Len(pending) /\ i \notin stops
    BY <1>1, <2>2, <2>3
  <2> QED
    BY <1>2, <2>1, <2>3, <2>4
<1> QED
  BY <1>4, <1>5

\* When no event of the map is deleted, OnTimer takes all that have arrived.
LEMMA ArrivedAll ==
    ASSUME TypeOK, NEW time \in Nat, \A e \in ToSet(pending) : ~cancelled[e]
    PROVE  \A i \in (Arrived(time) + 1) .. Len(pending) : time < arrive[pending[i]]
<1> DEFINE stops == {i \in DOMAIN pending : arrive[pending[i]] > time \/ cancelled[pending[i]]}
<1>1. /\ Len(pending) \in Nat /\ DOMAIN pending = 1 .. Len(pending)
      /\ \A i \in 1 .. Len(pending) : arrive[pending[i]] \in Nat /\ ~cancelled[pending[i]]
  BY Shape DEF TypeOK, ToSet
<1>2. stops = {i \in 1 .. Len(pending) : time < arrive[pending[i]]}
  BY <1>1
<1> HIDE DEF stops
<1>3. CASE stops = {}
  BY <1>1, <1>3 DEF Arrived, stops
<1>4. CASE stops # {}
  <2> DEFINE n == CHOOSE i \in stops : \A j \in stops : i <= j
  <2>1. Arrived(time) = n - 1
    BY <1>4 DEF Arrived, stops
  <2>2. n \in stops
    <3>1. stops \in SUBSET Nat
      BY <1>1, <1>2
    <3>2. \E i \in stops : \A j \in stops : i <= j
      BY <1>4, <3>1, Smallest
    <3> QED
      BY <3>2
  <2> HIDE DEF n
  <2>3. n \in 1 .. Len(pending) /\ time < arrive[pending[n]]
    BY <1>2, <2>2
  <2>4. ASSUME NEW i \in n .. Len(pending) PROVE time < arrive[pending[i]]
    <3>1. i \in 1 .. Len(pending) /\ (i = n \/ n < i)
      BY <1>1, <2>3
    <3>2. n < i => arrive[pending[n]] <= arrive[pending[i]]
      BY <1>1, <2>3, <3>1, Shape DEF Sorted
    <3>3. /\ arrive[pending[i]] \in Nat /\ arrive[pending[n]] \in Nat
          /\ i = n => arrive[pending[i]] = arrive[pending[n]]
      BY <1>1, <2>3, <3>1
    <3> QED
      BY <2>3, <3>1, <3>2, <3>3
  <2> QED
    BY <1>1, <2>1, <2>3, <2>4
<1> QED
  BY <1>3, <1>4

\* A new timer is empty and nobody uses it.
LEMMA InitTimerInv ==
    Init => TimerInv
<1> SUFFICES ASSUME Init PROVE TimerInv
  OBVIOUS
<1>1. <<>> \in Seq(Events) /\ IsInjective(<<>>) /\ ToSet(<<>>) = {} /\ DOMAIN <<>> = {}
  BY EmptyElements DEF ToSet
<1>2. 0 \in Times /\ MaxTime \in Nat /\ Loop \in Actors /\ "idle" \in Steps
  BY TimerAssumption DEF Times, Actors, Steps
<1>3. TypeOK
  BY <1>1, <1>2 DEF Init, TypeOK
<1>4. NewInv /\ MadeInv /\ OnceInv
  BY <1>1, <1>2 DEF Init, NewInv, MadeInv, OnceInv
<1>5. KeptInv
  BY TimerAssumption DEF Init, KeptInv
<1>6. LostInv
  BY DEF Init, LostInv
<1>7. TimeInv /\ LoopInv /\ TaskInv /\ EraseInv
  BY <1>1, <1>2, TimerAssumption DEF Init, TimeInv, LoopInv, TaskInv, EraseInv
<1> QED
  BY <1>3, <1>4, <1>5, <1>6, <1>7 DEF TimerInv, PlaceInv

\* Nothing moves: no event, and no addition or deletion under way.
Unmoved ==
    /\ UNCHANGED <<status, pending, subject, repeats, tasks, history>>
    /\ \A b \in Actors : (pc'[b] = "add" <=> pc[b] = "add") /\ (pc'[b] = "erase" <=> pc[b] = "erase")

\* Then the places are as they were.
LEMMA UnmovedKeeps ==
    ASSUME PlaceInv, EraseInv, Unmoved
    PROVE  PlaceInv' /\ EraseInv'
<1>1. /\ UNCHANGED <<status, pending, subject, repeats, tasks, deleted, lost>>
      /\ \A b \in Actors : (pc'[b] = "add" <=> pc[b] = "add") /\ (pc'[b] = "erase" <=> pc[b] = "erase")
  BY DEF Unmoved, history
<1>2. \A e : Erasing(e)' <=> Erasing(e)
  BY <1>1 DEF Erasing
<1>3. NewInv' /\ OnceInv'
  BY <1>1 DEF PlaceInv, NewInv, OnceInv
<1>4. MadeInv' /\ EraseInv'
  BY <1>1 DEF PlaceInv, MadeInv, EraseInv
<1>5. KeptInv'
  BY <1>1, <1>2 DEF PlaceInv, KeptInv
<1>6. LostInv'
  BY <1>1, <1>2 DEF PlaceInv, LostInv, Gone
<1> QED
  BY <1>3, <1>4, <1>5, <1>6 DEF PlaceInv

\* The clock ticks.
LEMMA ClockKeeps ==
    ASSUME TimerInv, UNCHANGED alone, Tick, UNCHANGED history PROVE TimerInv'
<1>1. TypeOK'
  <2>1. now' \in Times
    <3>1. now \in Nat /\ MaxTime \in Nat /\ now < MaxTime /\ now' = now + 1
      BY Shape DEF TimerInv, Tick
    <3> QED
      BY <3>1 DEF Times
  <2>2. armed' \in Times \cup {Never} /\ readable' \in BOOLEAN
    <3>1. armed' \in {armed, Never} /\ readable' \in {readable, TRUE}
      BY DEF Tick
    <3> QED
      BY <3>1 DEF TimerInv, TypeOK
  <2> QED
    BY <2>1, <2>2 DEF TimerInv, TypeOK, Tick, history
<1>2. now' \in Nat /\ now < now' /\ now' <= MaxTime
  BY Shape DEF TimerInv, Tick
<1>3. PlaceInv' /\ EraseInv'
  BY UnmovedKeeps DEF TimerInv, Tick, Unmoved
<1>4. TimeInv' /\ LoopInv'
  BY <1>2, Shape DEF TimerInv, Tick, TimeInv, LoopInv
<1>5. TaskInv'
  <2>1. ASSUME NEW e \in ToSet(tasks), e \notin Repeated PROVE arrive[e] <= now'
    <3>1. arrive[e] <= now /\ arrive[e] \in Nat /\ now \in Nat
      BY <2>1, Shape DEF TimerInv, TaskInv
    <3> QED
      BY <1>2, <3>1
  <2> QED
    BY <2>1 DEF TimerInv, Tick, TaskInv, history
<1> QED
  BY <1>1, <1>3, <1>4, <1>5 DEF TimerInv

\* Setting the timerfd moves no event.
LEMMA TimerFdKeeps ==
    ASSUME TimerInv, UNCHANGED alone, NEW a \in Actors, CopyPending(a) \/ SetTime(a),
           UNCHANGED history
    PROVE  TimerInv'
<1>1. /\ UNCHANGED <<now, arrive, cancelled, status, pending, subject, repeats, tasks, deleted, lost>>
      /\ \E step \in {"idle", "arm"} : pc' = [pc EXCEPT ![a] = step]
      /\ pc[a] \in {"reset", "arm"}
  BY DEF CopyPending, SetTime, history
<1>2. \A b \in Actors : b # a => last'[b] = last[b]
  BY DEF CopyPending, SetTime, TimerInv, TypeOK
<1>3. pc \in [Actors -> Steps]
  BY DEF TimerInv, TypeOK
<1>4. TypeOK'
  <2>1. last' \in [Actors -> Times]
    <3>1. CASE SetTime(a) \/ pending = <<>>
      BY <3>1 DEF TimerInv, TypeOK, CopyPending, SetTime
    <3>2. CASE CopyPending(a) /\ pending # <<>>
      <4>1. Last(pending) \in Events
        BY <3>2 DEF TimerInv, TypeOK, Last
      <4> QED
        BY <3>2, <4>1 DEF TimerInv, TypeOK, CopyPending
    <3> QED
      BY <3>1, <3>2
  <2>2. armed' \in Times \cup {Never} /\ readable' \in BOOLEAN
    <3>1. armed' \in {armed, Never, last[a]} /\ readable' \in {readable, FALSE}
      BY DEF CopyPending, SetTime
    <3>2. last[a] \in Times /\ armed \in Times \cup {Never} /\ readable \in BOOLEAN
      BY DEF TimerInv, TypeOK
    <3> QED
      BY <3>1, <3>2
  <2>3. pc' \in [Actors -> Steps]
    BY <1>1, <1>3 DEF Steps
  <2> QED
    BY <1>1, <2>1, <2>2, <2>3 DEF TimerInv, TypeOK
<1>5. \A b \in Actors : /\ pc'[b] \in {"collect", "repeat", "again"} => pc'[b] = pc[b]
                        /\ pc[b] \in {"collect", "repeat", "again"} => pc'[b] = pc[b] /\ last'[b] = last[b]
                        /\ pc'[b] = "add" <=> pc[b] = "add"
                        /\ pc'[b] = "erase" <=> pc[b] = "erase"
  BY <1>1, <1>2, <1>3
<1>6. PlaceInv' /\ EraseInv'
  BY <1>1, <1>5, UnmovedKeeps DEF TimerInv, Unmoved
<1>7. LoopInv'
  BY <1>1, <1>5, Shape DEF TimerInv, LoopInv
<1>8. TimeInv' /\ TaskInv'
  BY <1>1 DEF TimerInv, TimeInv, TaskInv
<1> QED
  BY <1>4, <1>6, <1>7, <1>8 DEF TimerInv

\* Reading the timerfd and the end of the repeats move no event.
LEMMA ReadKeeps ==
    ASSUME TimerInv, UNCHANGED alone, ReadTimerFd \/ RepeatsDone, UNCHANGED history PROVE TimerInv'
<1>1. /\ UNCHANGED <<now, arrive, cancelled, status, pending, armed, subject, repeats, tasks, deleted, lost>>
      /\ repeats = <<>> /\ Loop \in Actors /\ pc[Loop] \in {"idle", "repeat"}
      /\ \E step \in {"reset", "collect"} : pc' = [pc EXCEPT ![Loop] = step]
  BY Shape DEF ReadTimerFd, RepeatsDone, TimerInv, LoopInv, history
<1>2. pc \in [Actors -> Steps]
  BY DEF TimerInv, TypeOK
<1>3. TypeOK'
  <2>1. last' \in [Actors -> Times] /\ readable' \in BOOLEAN
    BY DEF ReadTimerFd, RepeatsDone, TimerInv, TypeOK
  <2>2. pc' \in [Actors -> Steps]
    BY <1>1, <1>2 DEF Steps
  <2> QED
    BY <1>1, <2>1, <2>2 DEF TimerInv, TypeOK
<1>4. PlaceInv' /\ EraseInv'
  <2>1. \A b \in Actors : (pc'[b] = "add" <=> pc[b] = "add") /\ (pc'[b] = "erase" <=> pc[b] = "erase")
    BY <1>1, <1>2
  <2> QED
    BY <1>1, <2>1, UnmovedKeeps DEF TimerInv, Unmoved
<1>5. LoopInv'
  <2>1. CASE ReadTimerFd
    <3>1. last'[Loop] = now /\ tasks = <<>>
      BY <1>1, <2>1 DEF ReadTimerFd, TimerInv, TypeOK
    <3> QED
      BY <1>1, <1>2, <3>1, Shape DEF LoopInv, TimerInv
  <2>2. CASE RepeatsDone
    BY <1>1, <1>2, <2>2 DEF LoopInv, RepeatsDone
  <2> QED
    BY <2>1, <2>2
<1>6. TimeInv' /\ TaskInv'
  BY <1>1 DEF TimerInv, TimeInv, TaskInv
<1> QED
  BY <1>3, <1>4, <1>5, <1>6 DEF TimerInv

\* An event is made.
LEMMA MakeKeeps ==
    ASSUME TimerInv, UNCHANGED alone, NEW a \in Actors, NEW e \in Events, MakeEvent(a, e) PROVE TimerInv'
<1>1. /\ UNCHANGED <<now, cancelled, pending, armed, readable, last, repeats, tasks, deleted, lost>>
      /\ pc[a] = "idle" /\ status[e] = "new" /\ now + Interval[e] <= MaxTime
      /\ arrive' = [arrive EXCEPT ![e] = now + Interval[e]]
      /\ status' = [status EXCEPT ![e] = "made"]
      /\ subject' = [subject EXCEPT ![a] = e]
      /\ pc' = [pc EXCEPT ![a] = "add"]
  BY DEF MakeEvent, history
<1>2. /\ e \notin ToSet(pending) /\ e \notin ToSet(repeats) /\ e \notin ToSet(tasks)
      /\ deleted[e] = "no"
  BY <1>1 DEF TimerInv, PlaceInv, NewInv
<1>3. Interval[e] \in Nat /\ now \in Nat /\ MaxTime \in Nat
  BY Shape, TimerAssumption DEF TimerInv
<1>4. now + Interval[e] \in Times /\ Interval[e] <= MaxTime
  BY <1>1, <1>3 DEF Times
<1>5. /\ arrive' \in [Events -> Times]
      /\ \A f \in Events : f # e => arrive'[f] = arrive[f]
      /\ \A i, j \in DOMAIN pending : i < j => arrive'[pending[i]] <= arrive'[pending[j]]
  BY <1>1, <1>2, <1>4, Retimed DEF TimerInv
<1>6. /\ status' \in [Events -> {"new", "made", "added", "ran"}]
      /\ status'[e] = "made" /\ \A f \in Events : f # e => status'[f] = status[f]
  BY <1>1 DEF TimerInv, TypeOK
<1>7. /\ pc' \in [Actors -> Steps] /\ subject' \in [Actors -> Events \cup {Never}]
      /\ pc'[a] = "add" /\ subject'[a] = e
      /\ \A b \in Actors : b # a => pc'[b] = pc[b] /\ subject'[b] = subject[b]
  BY <1>1 DEF TimerInv, TypeOK, Steps
<1>8. TypeOK'
  BY <1>1, <1>5, <1>6, <1>7 DEF TimerInv, TypeOK
<1>9. \A f : Erasing(f)' <=> Erasing(f)
  BY <1>1, <1>7 DEF Erasing
<1>10. NewInv' /\ OnceInv'
  BY <1>1, <1>2, <1>6 DEF TimerInv, PlaceInv, NewInv, OnceInv
<1>11. MadeInv'
  <2>1. \A b \in Actors : b # a /\ pc[b] = "add" => subject[b] \in Events /\ subject[b] # e
    BY <1>1 DEF TimerInv, PlaceInv, MadeInv
  <2> QED
    BY <1>6, <1>7, <2>1 DEF TimerInv, PlaceInv, MadeInv
<1>12. KeptInv'
  <2>1. \A f \in Events : status'[f] = "added" => status[f] = "added"
    BY <1>6
  <2> QED
    BY <1>1, <1>9, <2>1, TimerAssumption DEF TimerInv, PlaceInv, KeptInv
<1>13. LostInv'
  <2>1. \A f \in Events : Gone(f) => Gone(f)'
    BY <1>1, <1>6 DEF Gone
  <2>2. \A f \in Events : lost[f] \in Events \cup {Never}
    BY DEF TimerInv, TypeOK
  <2> QED
    BY <1>1, <1>9, <2>1, <2>2 DEF TimerInv, PlaceInv, LostInv
<1>14. TimeInv'
  BY <1>1, <1>4, <1>6 DEF TimerInv, TimeInv
<1>15. LoopInv'
  BY <1>1, <1>7, Shape DEF TimerInv, LoopInv
<1>16. TaskInv'
  <2>1. \A f \in ToSet(tasks) : f \in Events /\ f # e
    BY <1>2, Shape DEF TimerInv
  <2> QED
    BY <1>1, <1>5, <2>1 DEF TimerInv, TaskInv
<1>17. EraseInv'
  BY <1>1, <1>6, <1>7 DEF TimerInv, EraseInv
<1> QED
  BY <1>8, <1>10, <1>11, <1>12, <1>13, <1>14, <1>15, <1>16, <1>17 DEF TimerInv, PlaceInv

\* An event is added.
LEMMA AddKeeps ==
    ASSUME TimerInv, UNCHANGED alone, NEW a \in Actors, AddTimerEvent(a) PROVE TimerInv'
<1> DEFINE e == subject[a]
<1>1. /\ UNCHANGED <<now, arrive, cancelled, armed, readable, last, repeats, tasks, deleted, lost>>
      /\ pc[a] = "add"
      /\ pending' = Emplace(pending, e, arrive)
      /\ status' = [status EXCEPT ![e] = "added"]
      /\ subject' = [subject EXCEPT ![a] = Never]
      /\ \E step \in {"reset", "idle"} : pc' = [pc EXCEPT ![a] = step]
  BY DEF AddTimerEvent, history
<1>2. e \in Events /\ status[e] = "made"
  BY <1>1 DEF TimerInv, PlaceInv, MadeInv
<1> HIDE DEF e
<1>3. /\ e \notin ToSet(pending) /\ e \notin ToSet(repeats) /\ e \notin ToSet(tasks)
      /\ deleted[e] = "no"
  BY <1>2 DEF TimerInv, PlaceInv, NewInv
<1>4. /\ pending' \in Seq(Events) /\ IsInjective(pending')
      /\ ToSet(pending') = ToSet(pending) \cup {e}
      /\ \A i, j \in DOMAIN pending' : i < j => arrive[pending'[i]] <= arrive[pending'[j]]
  BY <1>1, <1>2, <1>3, PutIn DEF TimerInv, PlaceInv, OnceInv
<1>5. /\ status' \in [Events -> {"new", "made", "added", "ran"}]
      /\ status'[e] = "added" /\ \A f \in Events : f # e => status'[f] = status[f]
  BY <1>1, <1>2 DEF TimerInv, TypeOK
<1>6. /\ pc' \in [Actors -> Steps] /\ subject' \in [Actors -> Events \cup {Never}]
      /\ pc'[a] \in {"reset", "idle"}
      /\ \A b \in Actors : b # a => pc'[b] = pc[b] /\ subject'[b] = subject[b]
  BY <1>1 DEF TimerInv, TypeOK, Steps
<1>7. TypeOK'
  BY <1>1, <1>4, <1>5, <1>6 DEF TimerInv, TypeOK
<1>8. \A f : Erasing(f)' <=> Erasing(f)
  BY <1>1, <1>6 DEF Erasing
<1>9. NewInv'
  BY <1>1, <1>4, <1>5 DEF TimerInv, PlaceInv, NewInv
<1>10. MadeInv'
  <2>1. \A b \in Actors : b # a /\ pc[b] = "add" => subject[b] \in Events /\ subject[b] # e
    BY <1>1 DEF TimerInv, PlaceInv, MadeInv, e
  <2>2. \A b \in Actors : pc'[b] = "add" => b # a
    BY <1>6
  <2> QED
    BY <1>5, <1>6, <2>1, <2>2 DEF TimerInv, PlaceInv, MadeInv
<1>11. OnceInv'
  <2>1. /\ repeats' = repeats /\ tasks' = tasks
        /\ IsInjective(repeats) /\ IsInjective(tasks)
        /\ ToSet(pending) \cap ToSet(repeats) = {} /\ ToSet(repeats) \subseteq Repeated
        /\ ToSet(repeats) \subseteq ToSet(tasks)
        /\ ToSet(pending) \cap ToSet(tasks) \subseteq Repeated
    BY <1>1 DEF TimerInv, PlaceInv, OnceInv
  <2>2. /\ ToSet(pending') \cap ToSet(repeats) = {}
        /\ ToSet(pending') \cap ToSet(tasks) \subseteq Repeated
    BY <1>3, <1>4, <2>1
  <2> QED
    BY <1>4, <2>1, <2>2 DEF OnceInv
<1>12. KeptInv'
  <2>1. \A f \in Events : f # e /\ status'[f] = "added" => status[f] = "added"
    BY <1>5
  <2>2. ToSet(pending) \subseteq ToSet(pending') /\ e \in ToSet(pending')
    BY <1>4
  <2> QED
    BY <1>1, <1>8, <2>1, <2>2, TimerAssumption DEF TimerInv, PlaceInv, KeptInv
<1>13. LostInv'
  <2>1. \A f \in Events : Gone(f) => Gone(f)'
    BY <1>1, <1>2, <1>5 DEF Gone
  <2>2. \A f \in Events : lost[f] \in Events \cup {Never}
    BY DEF TimerInv, TypeOK
  <2> QED
    BY <1>1, <1>8, <2>1, <2>2 DEF TimerInv, PlaceInv, LostInv
<1>14. TimeInv'
  BY <1>1, <1>2, <1>5 DEF TimerInv, TimeInv
<1>15. LoopInv'
  BY <1>1, <1>6, Shape DEF TimerInv, LoopInv
<1>16. TaskInv'
  BY <1>1 DEF TimerInv, TaskInv
<1>17. EraseInv'
  <2>1. \A b \in Actors : pc'[b] = "erase" => b # a /\ pc[b] = "erase" /\ subject'[b] = subject[b]
    BY <1>6
  <2>2. \A b \in Actors : pc[b] = "erase" => status'[subject[b]] = status[subject[b]]
    BY <1>2, <1>5 DEF TimerInv, EraseInv
  <2> QED
    BY <1>1, <2>1, <2>2 DEF TimerInv, EraseInv
<1> QED
  BY <1>7, <1>9, <1>10, <1>11, <1>12, <1>13, <1>14, <1>15, <1>16, <1>17 DEF TimerInv, PlaceInv

\* A deletion marks its event, wherever that is.
LEMMA CancelKeeps ==
    ASSUME TimerInv, UNCHANGED alone, NEW a \in Actors, NEW e \in Events, Cancel(a, e)
    PROVE  TimerInv'
<1>1. /\ UNCHANGED <<now, arrive, status, pending, armed, readable, last, repeats, tasks, lost>>
      /\ pc[a] = "idle" /\ status[e] \in {"added", "ran"} /\ deleted[e] = "no"
      /\ cancelled' = [cancelled EXCEPT ![e] = TRUE]
      /\ deleted' = [deleted EXCEPT ![e] = IF e \in ToSet(tasks) THEN "after" ELSE "before"]
      /\ subject' = [subject EXCEPT ![a] = e]
      /\ pc' = [pc EXCEPT ![a] = "erase"]
  BY DEF Cancel
<1>2. /\ cancelled'[e] /\ \A f \in Events : f # e => cancelled'[f] = cancelled[f]
      /\ deleted'[e] = IF e \in ToSet(tasks) THEN "after" ELSE "before"
      /\ \A f \in Events : f # e => deleted'[f] = deleted[f]
      /\ subject'[a] = e /\ \A b \in Actors : b # a => subject'[b] = subject[b]
      /\ pc'[a] = "erase" /\ \A b \in Actors : b # a => pc'[b] = pc[b]
  BY <1>1 DEF TimerInv, TypeOK
<1>3. TypeOK'
  <2>1. /\ cancelled' \in [Events -> BOOLEAN]
        /\ deleted' \in [Events -> {"no", "before", "after"}]
        /\ subject' \in [Actors -> Events \cup {Never}]
        /\ pc' \in [Actors -> Steps]
    BY <1>1 DEF TimerInv, TypeOK, Steps
  <2> QED
    BY <1>1, <2>1 DEF TimerInv, TypeOK
<1>4. \A f : Erasing(f)' <=> f = e \/ Erasing(f)
  BY <1>1, <1>2 DEF Erasing
<1>5. NewInv' /\ OnceInv'
  BY <1>1, <1>2 DEF TimerInv, PlaceInv, NewInv, OnceInv
<1>6. MadeInv'
  BY <1>1, <1>2 DEF TimerInv, PlaceInv, MadeInv
<1>7. KeptInv'
  BY <1>1, <1>2, <1>4, TimerAssumption DEF TimerInv, PlaceInv, KeptInv
<1>8. LostInv'
  <2>1. \A f \in Events : Gone(f)' <=> Gone(f)
    BY <1>1 DEF Gone
  <2>2. ASSUME NEW f \in Events, lost[f] # Never PROVE lost[f] \in Events /\ lost[f] # e
    BY <1>1, <2>2 DEF TimerInv, PlaceInv, LostInv, TypeOK
  <2> QED
    BY <1>1, <1>2, <1>4, <2>1, <2>2 DEF TimerInv, PlaceInv, LostInv
<1>9. TimeInv'
  BY <1>1 DEF TimerInv, TimeInv
<1>10. LoopInv'
  BY <1>1, <1>2, Shape DEF TimerInv, LoopInv
<1>11. TaskInv'
  <2>1. \A f \in Events : deleted'[f] = "before" => cancelled'[f] /\ f \notin ToSet(tasks)
    BY <1>1, <1>2 DEF TimerInv, TaskInv
  <2>2. \A f \in Events : deleted'[f] = "no" => ~cancelled'[f]
    BY <1>1, <1>2 DEF TimerInv, TaskInv
  <2> QED
    BY <1>1, <2>1, <2>2 DEF TimerInv, TaskInv
<1>12. EraseInv'
  <2>1. \A b \in Actors : b # a /\ pc[b] = "erase" => subject[b] \in Events /\ subject[b] # e
    BY <1>1 DEF TimerInv, EraseInv
  <2> QED
    BY <1>1, <1>2, <2>1 DEF TimerInv, EraseInv
<1> QED
  BY <1>3, <1>5, <1>6, <1>7, <1>8, <1>9, <1>10, <1>11, <1>12 DEF TimerInv, PlaceInv

\* A deletion takes one event off the map, and its thread is done with it.
LEMMA ErasedOne ==
    ASSUME TimerInv, NEW a \in Actors, NEW n \in 1 .. Len(pending),
           pending' = RemoveAt(pending, n),
           pc[a] = "erase", subject' = [subject EXCEPT ![a] = Never], pc' = [pc EXCEPT ![a] = "idle"]
    PROVE  /\ pending' \in Seq(Events) /\ IsInjective(pending')
           /\ ToSet(pending') = ToSet(pending) \ {pending[n]}
           /\ \A i, j \in DOMAIN pending' : i < j => arrive[pending'[i]] <= arrive[pending'[j]]
           /\ pending[n] \in Events /\ pending[n] \in ToSet(pending)
<1>1. /\ pending \in Seq(Events) /\ IsInjective(pending)
      /\ arrive \in [Events -> Nat] /\ Sorted(pending, arrive)
  BY Shape DEF TimerInv, TypeOK, PlaceInv, OnceInv
<1>2. /\ pending' \in Seq(Events) /\ IsInjective(pending') /\ ToSet(pending') = ToSet(pending) \ {pending[n]}
      /\ Sorted(pending', arrive)
  BY <1>1, RemoveElements
<1>3. pending[n] \in Events /\ pending[n] \in ToSet(pending)
  BY <1>1 DEF ToSet
<1> QED
  BY <1>2, <1>3 DEF Sorted

\* What the end of a deletion does to who is deleting what.
LEMMA ErasingEnds ==
    ASSUME TimerInv, NEW a \in Actors, pc[a] = "erase",
           subject' = [subject EXCEPT ![a] = Never], pc' = [pc EXCEPT ![a] = "idle"]
    PROVE  /\ subject' \in [Actors -> Events \cup {Never}] /\ pc' \in [Actors -> Steps]
           /\ pc'[a] = "idle"
           /\ \A b \in Actors : b # a => pc'[b] = pc[b] /\ subject'[b] = subject[b]
           /\ \A f : Erasing(f)' => Erasing(f)
           /\ ~\E b \in Actors : pc'[b] = "erase" /\ subject'[b] = subject[a]
           /\ Erasing(subject[a])
<1>1. /\ subject' \in [Actors -> Events \cup {Never}] /\ pc' \in [Actors -> Steps]
      /\ pc'[a] = "idle"
      /\ \A b \in Actors : b # a => pc'[b] = pc[b] /\ subject'[b] = subject[b]
  BY DEF TimerInv, TypeOK, Steps
<1>2. \A f : Erasing(f)' => Erasing(f)
  BY <1>1 DEF Erasing
<1> DEFINE e == subject[a]
<1>3. ASSUME \E b \in Actors : pc'[b] = "erase" /\ subject'[b] = e PROVE FALSE
  <2>1. \E b \in Actors : pc'[b] = "erase" /\ subject'[b] = subject[a]
    BY <1>3
  <2>2. \E b \in Actors : b # a /\ pc[b] = "erase" /\ subject[b] = subject[a]
    BY <1>1, <2>1
  <2> QED
    BY <2>2 DEF TimerInv, EraseInv
<1>4. Erasing(subject[a])
  BY DEF Erasing
<1> QED
  BY <1>1, <1>2, <1>3, <1>4

\* What a deletion's second step leaves alone.
LEMMA EraseLeaves ==
    ASSUME TimerInv, NEW a \in Actors, pc[a] = "erase",
           UNCHANGED <<now, arrive, cancelled, status, last, repeats, tasks, deleted>>,
           subject' = [subject EXCEPT ![a] = Never], pc' = [pc EXCEPT ![a] = "idle"],
           \A f \in Events : status[f] \in {"new", "made"} => f \notin ToSet(pending')
    PROVE  /\ NewInv' /\ MadeInv' /\ TimeInv' /\ LoopInv' /\ TaskInv' /\ EraseInv'
<1>1. /\ pc'[a] = "idle"
      /\ \A b \in Actors : b # a => pc'[b] = pc[b] /\ subject'[b] = subject[b]
  BY ErasingEnds
<1>2. NewInv'
  BY DEF TimerInv, PlaceInv, NewInv
<1>3. MadeInv' /\ EraseInv'
  BY <1>1 DEF TimerInv, PlaceInv, MadeInv, EraseInv
<1>4. LoopInv'
  <2>1. \A b \in Actors : /\ pc'[b] \in {"collect", "repeat", "again"} => pc'[b] = pc[b]
                          /\ pc[b] \in {"collect", "repeat", "again"} => pc'[b] = pc[b]
    BY <1>1
  <2> QED
    BY <2>1, Shape DEF TimerInv, LoopInv
<1>5. TimeInv' /\ TaskInv'
  BY DEF TimerInv, TimeInv, TaskInv
<1> QED
  BY <1>2, <1>3, <1>4, <1>5

\* A deletion erases its event.
LEMMA FoundKeeps ==
    ASSUME TimerInv, UNCHANGED alone, NEW a \in Actors, EraseFound(a) PROVE TimerInv'
<1> DEFINE e == subject[a]
<1>1. /\ UNCHANGED <<now, arrive, cancelled, status, armed, readable, last, repeats, tasks, deleted, lost>>
      /\ pc[a] = "erase"
      /\ subject' = [subject EXCEPT ![a] = Never]
      /\ pc' = [pc EXCEPT ![a] = "idle"]
  BY DEF EraseFound, history
<1>2. PICK n \in 1 .. Len(pending) : pending' = RemoveAt(pending, n) /\ pending[n] = e
  BY DEF EraseFound, Places, TimerInv, TypeOK
<1>3. /\ pending' \in Seq(Events) /\ IsInjective(pending') /\ ToSet(pending') = ToSet(pending) \ {e}
      /\ \A i, j \in DOMAIN pending' : i < j => arrive[pending'[i]] <= arrive[pending'[j]]
      /\ e \in Events
  BY <1>1, <1>2, ErasedOne
<1>4. /\ subject' \in [Actors -> Events \cup {Never}] /\ pc' \in [Actors -> Steps]
      /\ \A f : Erasing(f)' => Erasing(f)
      /\ \A f : f = e => ~Erasing(f)'
  BY <1>1, ErasingEnds DEF Erasing
<1>5. deleted[e] # "no"
  BY <1>1 DEF TimerInv, EraseInv
<1> HIDE DEF e
<1>6. TypeOK'
  BY <1>1, <1>3, <1>4 DEF TimerInv, TypeOK
<1>7. NewInv' /\ MadeInv' /\ TimeInv' /\ LoopInv' /\ TaskInv' /\ EraseInv'
  BY <1>1, <1>3, EraseLeaves DEF TimerInv, PlaceInv, NewInv
<1>8. OnceInv'
  BY <1>1, <1>3 DEF TimerInv, PlaceInv, OnceInv
<1>9. KeptInv'
  BY <1>1, <1>3, <1>4, <1>5, TimerAssumption DEF TimerInv, PlaceInv, KeptInv
<1>10. LostInv'
  BY <1>1, <1>4 DEF TimerInv, PlaceInv, LostInv, Gone
<1> QED
  BY <1>6, <1>7, <1>8, <1>9, <1>10 DEF TimerInv, PlaceInv

\* A deletion that does not find its event erases another one, if there is one
\* behind: its own is with OnTimer, has run, repeats or was itself lost.
LEMMA NextKeeps ==
    ASSUME TimerInv, UNCHANGED alone, NEW a \in Actors, EraseNext(a) PROVE TimerInv'
<1> DEFINE e == subject[a]
           n == UpperBound(e)
<1>1. /\ UNCHANGED <<now, arrive, cancelled, status, armed, readable, last, repeats, tasks, deleted>>
      /\ pc[a] = "erase" /\ Places(e) = {}
      /\ IF n <= Len(pending)
         THEN pending' = RemoveAt(pending, n) /\ lost' = [lost EXCEPT ![pending[n]] = e]
         ELSE UNCHANGED <<pending, lost>>
      /\ subject' = [subject EXCEPT ![a] = Never]
      /\ pc' = [pc EXCEPT ![a] = "idle"]
  BY DEF EraseNext
<1>2. /\ subject' \in [Actors -> Events \cup {Never}] /\ pc' \in [Actors -> Steps]
      /\ \A f : Erasing(f)' => Erasing(f)
      /\ \A f : f = e => ~Erasing(f)'
      /\ Erasing(e)
  BY <1>1, ErasingEnds DEF Erasing
<1>3. e \in Events /\ deleted[e] # "no" /\ status[e] \in {"added", "ran"} /\ e \notin ToSet(pending)
  BY <1>1 DEF TimerInv, EraseInv, Places, ToSet
<1>4. e # Never
  BY <1>3, TimerAssumption
<1>5. e \in Repeated \/ Gone(e)
  BY <1>2, <1>3 DEF TimerInv, PlaceInv, KeptInv, Gone
<1>6. n <= Len(pending) => n \in 1 .. Len(pending)
  <2>1. n \in 1 .. (Len(pending) + 1) /\ Len(pending) \in Nat
    BY <1>3, UpperPlace DEF TimerInv, TypeOK
  <2> HIDE DEF n
  <2> QED
    BY <2>1
<1> HIDE DEF e, n
<1>7. CASE n > Len(pending) \/ n \notin 1 .. Len(pending)
  <2>1. UNCHANGED <<pending, lost>>
    <3>1. ~(n <= Len(pending))
      <4>1. n \in Nat => Len(pending) \in Nat
        BY DEF TimerInv, TypeOK
      <4> QED
        BY <1>6, <1>7, <4>1
    <3> QED
      BY <1>1, <3>1
  <2>2. TypeOK'
    BY <1>1, <1>2, <2>1 DEF TimerInv, TypeOK
  <2>3. NewInv' /\ MadeInv' /\ TimeInv' /\ LoopInv' /\ TaskInv' /\ EraseInv'
    BY <1>1, <2>1, EraseLeaves DEF TimerInv, PlaceInv, NewInv
  <2>4. OnceInv' /\ KeptInv' /\ LostInv'
    BY <1>1, <1>2, <2>1 DEF TimerInv, PlaceInv, OnceInv, KeptInv, LostInv, Gone
  <2> QED
    BY <2>2, <2>3, <2>4 DEF TimerInv, PlaceInv
<1>8. CASE n \in 1 .. Len(pending) /\ n <= Len(pending)
  <2> DEFINE v == pending[n]
  <2>1. pending' = RemoveAt(pending, n) /\ lost' = [lost EXCEPT ![v] = e]
    BY <1>1, <1>8
  <2>2. /\ pending' \in Seq(Events) /\ IsInjective(pending') /\ ToSet(pending') = ToSet(pending) \ {v}
        /\ \A i, j \in DOMAIN pending' : i < j => arrive[pending'[i]] <= arrive[pending'[j]]
        /\ v \in Events /\ v \in ToSet(pending)
    BY <1>1, <1>8, <2>1, ErasedOne
  <2> HIDE DEF v
  <2>3. /\ lost' \in [Events -> Events \cup {Never}] /\ lost'[v] = e
        /\ \A f \in Events : f # v => lost'[f] = lost[f]
    BY <1>3, <2>1, <2>2 DEF TimerInv, TypeOK
  <2>4. TypeOK'
    BY <1>1, <1>2, <2>2, <2>3 DEF TimerInv, TypeOK
  <2>5. NewInv' /\ MadeInv' /\ TimeInv' /\ LoopInv' /\ TaskInv' /\ EraseInv'
    BY <1>1, <2>2, EraseLeaves DEF TimerInv, PlaceInv, NewInv
  <2>6. OnceInv'
    BY <1>1, <2>2 DEF TimerInv, PlaceInv, OnceInv
  <2>7. \A f \in Events : lost[f] # Never => lost'[f] # Never
    BY <1>4, <2>3
  <2>8. KeptInv'
    <3>1. lost'[v] # Never
      BY <1>4, <2>3
    <3> QED
      BY <1>1, <1>2, <2>2, <2>7, <3>1, TimerAssumption DEF TimerInv, PlaceInv, KeptInv
  <2>9. LostInv'
    <3>1. \A f \in Events : Gone(f) => Gone(f)'
      BY <1>1, <2>7 DEF Gone
    <3>2. \A f \in Events : lost[f] # Never => lost[f] \in Events /\ lost[f] # e
      BY <1>2 DEF TimerInv, PlaceInv, LostInv, TypeOK
    <3>3. ASSUME NEW f \in Events, NEW s, lost'[f] = s, s # Never
          PROVE  /\ deleted[s] # "no" /\ ~Erasing(s)'
                 /\ s \in Repeated \/ Gone(s)'
                 /\ \A g \in Events : lost'[g] = s => g = f
      <4>1. CASE f = v
        <5>1. s = e /\ ~Erasing(s)'
          BY <1>2, <2>3, <3>3, <4>1
        <5>2. \A g \in Events : lost'[g] = e => g = v
          BY <1>4, <2>3, <3>2
        <5> QED
          BY <1>3, <1>5, <3>1, <4>1, <5>1, <5>2
      <4>2. CASE f # v
        <5>1. lost[f] = s /\ s \in Events /\ s # e
          BY <2>3, <3>2, <3>3, <4>2
        <5>2. /\ deleted[s] # "no" /\ ~Erasing(s)
              /\ s \in Repeated \/ Gone(s)
              /\ \A g \in Events : lost[g] = s => g = f
          BY <3>3, <5>1 DEF TimerInv, PlaceInv, LostInv
        <5>3. \A g \in Events : lost'[g] = s => g = f
          BY <2>3, <5>1, <5>2
        <5> QED
          BY <1>2, <3>1, <5>1, <5>2, <5>3
      <4> QED
        BY <4>1, <4>2
    <3> QED
      BY <1>1, <3>3 DEF LostInv, Erasing, Gone
  <2> QED
    BY <2>4, <2>5, <2>6, <2>8, <2>9 DEF TimerInv, PlaceInv
<1> QED
  <2>1. n > Len(pending) \/ n <= Len(pending) \/ n \notin 1 .. Len(pending)
    BY DEF TimerInv, TypeOK
  <2> QED
    BY <1>6, <1>7, <1>8, <2>1

\* OnTimer takes the arrived events off the map.
LEMMA CollectKeeps ==
    ASSUME TimerInv, UNCHANGED alone, Collect, UNCHANGED history PROVE TimerInv'
<1> DEFINE n == Arrived(last[Loop])
           taken == SubSeq(pending, 1, n)
           rest == SubSeq(pending, n + 1, Len(pending))
<1>1. /\ UNCHANGED <<now, arrive, cancelled, status, armed, readable, last, subject, deleted, lost>>
      /\ pc[Loop] = "collect" /\ pc' = [pc EXCEPT ![Loop] = "repeat"]
      /\ tasks' = taken /\ repeats' = RepeatedOf(taken) /\ pending' = rest
  BY DEF Collect, history
<1>2. /\ n \in 0 .. Len(pending)
      /\ \A i \in 1 .. n : arrive[pending[i]] <= last[Loop] /\ ~cancelled[pending[i]]
  BY ArrivedFirst, Shape DEF TimerInv
<1> HIDE DEF n
<1>3. /\ taken \in Seq(Events) /\ IsInjective(taken)
      /\ rest \in Seq(Events) /\ IsInjective(rest)
      /\ ToSet(taken) \cap ToSet(rest) = {} /\ ToSet(taken) \cup ToSet(rest) = ToSet(pending)
      /\ Sorted(rest, arrive)
      /\ \A e \in ToSet(taken) : \E i \in 1 .. n : e = pending[i]
  <2>1. /\ pending \in Seq(Events) /\ IsInjective(pending)
        /\ arrive \in [Events -> Nat] /\ Sorted(pending, arrive)
    BY Shape DEF TimerInv, TypeOK, PlaceInv, OnceInv
  <2>2. /\ taken \in Seq(Events) /\ IsInjective(taken)
        /\ rest \in Seq(Events) /\ IsInjective(rest)
        /\ ToSet(taken) \cap ToSet(rest) = {}
    BY <1>2, <2>1, CutElements
  <2>3. /\ ToSet(taken) \cup ToSet(rest) = ToSet(pending)
        /\ Sorted(rest, arrive)
        /\ \A e \in ToSet(taken) : \E i \in 1 .. n : e = pending[i]
    BY <1>2, <2>1, CutSorted
  <2> QED
    BY <2>2, <2>3
<1> HIDE DEF taken, rest
<1>4. /\ RepeatedOf(taken) \in Seq(Events) /\ IsInjective(RepeatedOf(taken))
      /\ ToSet(RepeatedOf(taken)) = ToSet(taken) \cap Repeated
  BY <1>3, RepeatedElements
<1>5. \A e \in ToSet(taken) : ~cancelled[e] /\ arrive[e] <= now
  <2> TAKE e \in ToSet(taken)
  <2>1. arrive[e] <= last[Loop] /\ ~cancelled[e]
    BY <1>2, <1>3
  <2>2. last[Loop] <= now /\ last[Loop] \in Nat /\ now \in Nat /\ arrive[e] \in Nat
    <3>1. last[Loop] <= now
      BY <1>1 DEF TimerInv, LoopInv
    <3>2. e \in Events
      BY <1>3, Shape DEF TimerInv
    <3> QED
      BY <3>1, <3>2, Shape DEF TimerInv
  <2> QED
    BY <2>1, <2>2
<1>6. tasks = <<>> /\ repeats = <<>> /\ ToSet(tasks) = {} /\ ToSet(repeats) = {}
  BY <1>1, EmptyElements DEF TimerInv, LoopInv
<1>7. /\ pc' \in [Actors -> Steps] /\ pc'[Loop] = "repeat"
      /\ \A b \in Actors : /\ pc'[b] = "erase" <=> pc[b] = "erase"
                           /\ pc'[b] = "add" <=> pc[b] = "add"
  BY <1>1, Shape DEF TimerInv, TypeOK, Steps
<1>8. TypeOK'
  BY <1>1, <1>3, <1>4, <1>7 DEF TimerInv, TypeOK, Sorted
<1>9. \A e : Erasing(e)' <=> Erasing(e)
  BY <1>1, <1>7 DEF Erasing
<1>10. NewInv' /\ MadeInv' /\ EraseInv'
  <2>1. ToSet(pending') \subseteq ToSet(pending) /\ ToSet(repeats') \subseteq ToSet(pending)
        /\ ToSet(tasks') \subseteq ToSet(pending)
    BY <1>1, <1>3, <1>4
  <2>2. NewInv'
    BY <1>1, <2>1 DEF TimerInv, PlaceInv, NewInv
  <2> QED
    BY <1>1, <1>7, <2>2 DEF TimerInv, PlaceInv, MadeInv, EraseInv
<1>11. TimeInv' /\ LoopInv'
  BY <1>1, <1>7 DEF TimerInv, TimeInv, LoopInv
<1>12. OnceInv'
  <2>1. /\ ToSet(rest) \cap (ToSet(taken) \cap Repeated) = {}
        /\ ToSet(rest) \cap ToSet(taken) = {}
    BY <1>3
  <2> QED
    BY <1>1, <1>3, <1>4, <2>1 DEF OnceInv
<1>13. KeptInv'
  <2>1. \A e \in ToSet(pending) \cup ToSet(repeats) :
            e \in Repeated => e \in ToSet(pending') \cup ToSet(repeats')
    BY <1>1, <1>3, <1>4, <1>6
  <2>2. \A e \in ToSet(pending) \cup ToSet(tasks) : e \in ToSet(pending') \cup ToSet(tasks')
    BY <1>1, <1>3, <1>6
  <2> QED
    BY <1>1, <1>9, <2>1, <2>2, TimerAssumption DEF TimerInv, PlaceInv, KeptInv
<1>14. LostInv'
  <2>1. \A e \in Events : Gone(e) => Gone(e)'
    BY <1>1, <1>6 DEF Gone
  <2>2. \A e \in Events : lost[e] \in Events \cup {Never}
    BY DEF TimerInv, TypeOK
  <2> QED
    BY <1>1, <1>9, <2>1, <2>2 DEF TimerInv, PlaceInv, LostInv
<1>15. TaskInv'
  <2>1. \A e \in Events : deleted[e] = "before" => cancelled[e] /\ e \notin ToSet(tasks')
    BY <1>1, <1>5 DEF TimerInv, TaskInv
  <2> QED
    BY <1>1, <1>5, <2>1 DEF TimerInv, TaskInv
<1> QED
  BY <1>8, <1>10, <1>11, <1>12, <1>13, <1>14, <1>15 DEF TimerInv, PlaceInv

\* The first of OnTimer's list, and the list without it.
LEMMA FirstRepeat ==
    ASSUME TimerInv, repeats # <<>>
    PROVE  /\ Tail(repeats) \in Seq(Events) /\ IsInjective(Tail(repeats))
           /\ ToSet(Tail(repeats)) = ToSet(repeats) \ {Head(repeats)}
           /\ Head(repeats) \in ToSet(repeats) /\ Head(repeats) \in Events
           /\ Head(repeats) \in Repeated /\ Head(repeats) \in ToSet(tasks)
           /\ Head(repeats) \notin ToSet(pending)
           /\ status[Head(repeats)] \notin {"new", "made"}
<1>1. repeats \in Seq(Events) /\ IsInjective(repeats)
  BY DEF TimerInv, TypeOK, PlaceInv, OnceInv
<1>2. Tail(repeats) \in Seq(Events)
  BY <1>1
<1>3. /\ IsInjective(Tail(repeats)) /\ ToSet(Tail(repeats)) = ToSet(repeats) \ {Head(repeats)}
      /\ Head(repeats) \in ToSet(repeats)
  BY <1>1, TailElements
<1>4. Head(repeats) \in Events
  BY <1>3, Shape DEF TimerInv
<1> QED
  BY <1>2, <1>3, <1>4 DEF TimerInv, PlaceInv, OnceInv, NewInv

\* A repeated event is reset while it is in OnTimer's list.
LEMMA ResetKeeps ==
    ASSUME TimerInv, UNCHANGED alone, Reset, UNCHANGED history PROVE TimerInv'
<1> DEFINE e == Head(repeats)
<1>1. /\ UNCHANGED <<now, status, pending, armed, readable, last, subject, repeats, tasks, deleted, lost>>
      /\ pc[Loop] = "repeat" /\ repeats # <<>>
      /\ arrive' = [arrive EXCEPT ![e] = now + Interval[e]]
      /\ cancelled' = [cancelled EXCEPT ![e] = FALSE]
      /\ pc' = [pc EXCEPT ![Loop] = "again"]
  BY DEF Reset, history
<1>2. /\ e \in Events /\ e \in Repeated /\ e \in ToSet(tasks) /\ e \notin ToSet(pending)
      /\ status[e] # "new"
  BY <1>1, FirstRepeat
<1> HIDE DEF e
<1>3. now + Interval[e] \in Times
  <2>1. Interval[e] \in Nat /\ now \in Nat /\ MaxTime \in Nat
    BY <1>2, Shape, TimerAssumption DEF TimerInv
  <2>2. Interval[e] <= MaxTime /\ now <= MaxTime
    BY <1>2 DEF TimerInv, TimeInv
  <2> QED
    BY <2>1, <2>2 DEF Times
<1>4. /\ arrive' \in [Events -> Times] /\ \A f \in Events : f # e => arrive'[f] = arrive[f]
      /\ \A i, j \in DOMAIN pending : i < j => arrive'[pending[i]] <= arrive'[pending[j]]
  BY <1>1, <1>2, <1>3, Retimed DEF TimerInv
<1>5. /\ cancelled' \in [Events -> BOOLEAN] /\ ~cancelled'[e]
      /\ \A f \in Events : f # e => cancelled'[f] = cancelled[f]
  BY <1>1, <1>2 DEF TimerInv, TypeOK
<1>6. /\ pc' \in [Actors -> Steps] /\ pc'[Loop] = "again"
      /\ \A b \in Actors : (pc'[b] = "add" <=> pc[b] = "add") /\ (pc'[b] = "erase" <=> pc[b] = "erase")
  BY <1>1, Shape DEF TimerInv, TypeOK, Steps
<1>7. TypeOK'
  BY <1>1, <1>4, <1>5, <1>6 DEF TimerInv, TypeOK
<1>8. PlaceInv' /\ EraseInv'
  BY <1>1, <1>6, UnmovedKeeps DEF TimerInv, Unmoved
<1>9. TimeInv' /\ LoopInv'
  BY <1>1, <1>6 DEF TimerInv, TimeInv, LoopInv
<1>10. TaskInv'
  <2>1. \A f \in ToSet(tasks) : f \in Events
    BY Shape DEF TimerInv
  <2> QED
    BY <1>1, <1>2, <1>4, <1>5, <2>1 DEF TimerInv, TaskInv
<1> QED
  BY <1>7, <1>8, <1>9, <1>10 DEF TimerInv

\* It is put back.
LEMMA AgainKeeps ==
    ASSUME TimerInv, UNCHANGED alone, AddAgain, UNCHANGED history PROVE TimerInv'
<1> DEFINE e == Head(repeats)
<1>1. /\ UNCHANGED <<now, arrive, cancelled, status, armed, readable, last, subject, tasks, deleted, lost>>
      /\ pc[Loop] = "again" /\ repeats # <<>>
      /\ pending' = Emplace(pending, e, arrive)
      /\ repeats' = Tail(repeats)
      /\ pc' = [pc EXCEPT ![Loop] = "repeat"]
  BY DEF AddAgain, TimerInv, LoopInv, history
<1>2. /\ repeats' \in Seq(Events) /\ IsInjective(repeats')
      /\ ToSet(repeats') = ToSet(repeats) \ {e} /\ e \in ToSet(repeats)
      /\ e \in Events /\ e \in Repeated /\ e \in ToSet(tasks) /\ e \notin ToSet(pending)
      /\ status[e] \notin {"new", "made"}
  BY <1>1, FirstRepeat
<1> HIDE DEF e
<1>3. /\ pending' \in Seq(Events) /\ IsInjective(pending')
      /\ ToSet(pending') = ToSet(pending) \cup {e}
      /\ \A i, j \in DOMAIN pending' : i < j => arrive[pending'[i]] <= arrive[pending'[j]]
  BY <1>1, <1>2, PutIn DEF TimerInv, PlaceInv, OnceInv
<1>4. /\ pc' \in [Actors -> Steps] /\ pc'[Loop] = "repeat"
      /\ \A b \in Actors : (pc'[b] = "add" <=> pc[b] = "add") /\ (pc'[b] = "erase" <=> pc[b] = "erase")
  BY <1>1, Shape DEF TimerInv, TypeOK, Steps
<1>5. TypeOK'
  BY <1>1, <1>2, <1>3, <1>4 DEF TimerInv, TypeOK
<1>6. \A f : Erasing(f)' <=> Erasing(f)
  BY <1>1, <1>4 DEF Erasing
<1>7. NewInv' /\ MadeInv' /\ EraseInv'
  BY <1>1, <1>2, <1>3, <1>4 DEF TimerInv, PlaceInv, NewInv, MadeInv, EraseInv
<1>8. OnceInv'
  <2>1. /\ IsInjective(tasks) /\ ToSet(pending) \cap ToSet(repeats) = {}
        /\ ToSet(repeats) \subseteq Repeated /\ ToSet(repeats) \subseteq ToSet(tasks)
        /\ ToSet(pending) \cap ToSet(tasks) \subseteq Repeated
    BY DEF TimerInv, PlaceInv, OnceInv
  <2>2. /\ ToSet(pending') \cap ToSet(repeats') = {} /\ ToSet(repeats') \subseteq Repeated
        /\ ToSet(repeats') \subseteq ToSet(tasks)
        /\ ToSet(pending') \cap ToSet(tasks) \subseteq Repeated
    BY <1>2, <1>3, <2>1
  <2> QED
    BY <1>1, <1>2, <1>3, <2>1, <2>2 DEF OnceInv
<1>9. KeptInv'
  <2>1. ToSet(pending) \cup ToSet(repeats) = ToSet(pending') \cup ToSet(repeats')
    BY <1>2, <1>3
  <2>2. ToSet(pending) \cup ToSet(tasks) \subseteq ToSet(pending') \cup ToSet(tasks)
    BY <1>3
  <2> QED
    BY <1>1, <1>6, <2>1, <2>2, TimerAssumption DEF TimerInv, PlaceInv, KeptInv
<1>10. LostInv'
  BY <1>1, <1>6 DEF TimerInv, PlaceInv, LostInv, Gone
<1>11. TimeInv' /\ LoopInv' /\ TaskInv'
  BY <1>1, <1>4 DEF TimerInv, TimeInv, LoopInv, TaskInv
<1> QED
  BY <1>5, <1>7, <1>8, <1>9, <1>10, <1>11 DEF TimerInv, PlaceInv

\* A task runs.
LEMMA RunKeeps ==
    ASSUME TimerInv, UNCHANGED alone, RunTask, UNCHANGED history PROVE TimerInv'
<1> DEFINE e == Head(tasks)
<1>1. /\ UNCHANGED <<now, arrive, cancelled, pending, armed, readable, pc, last, subject, repeats, deleted, lost>>
      /\ pc[Loop] = "idle" /\ tasks # <<>>
      /\ status' = [status EXCEPT ![e] = IF e \in Repeated THEN "added" ELSE "ran"]
      /\ tasks' = Tail(tasks)
  BY DEF RunTask, history
<1>2. /\ tasks' \in Seq(Events) /\ IsInjective(tasks')
      /\ ToSet(tasks') = ToSet(tasks) \ {e} /\ e \in ToSet(tasks)
  <2>1. tasks \in Seq(Events) /\ IsInjective(tasks)
    BY DEF TimerInv, TypeOK, PlaceInv, OnceInv
  <2>2. Tail(tasks) \in Seq(Events)
    BY <1>1, <2>1
  <2>3. /\ IsInjective(Tail(tasks)) /\ ToSet(Tail(tasks)) = ToSet(tasks) \ {e}
        /\ e \in ToSet(tasks)
    BY <1>1, <2>1, TailElements
  <2> QED
    BY <1>1, <2>2, <2>3
<1> HIDE DEF e
<1>3. e \in Events /\ status[e] \notin {"new", "made"}
  BY <1>2, Shape DEF TimerInv, PlaceInv, NewInv
<1>4. /\ status' \in [Events -> {"new", "made", "added", "ran"}]
      /\ status'[e] = IF e \in Repeated THEN "added" ELSE "ran"
      /\ \A f \in Events : f # e => status'[f] = status[f]
  BY <1>1, <1>3 DEF TimerInv, TypeOK
<1>5. TypeOK'
  BY <1>1, <1>2, <1>4 DEF TimerInv, TypeOK
<1>6. \A f : Erasing(f)' <=> Erasing(f)
  BY <1>1 DEF Erasing
<1>7. \A f \in Events : status'[f] \in {"new", "made"} <=> status[f] \in {"new", "made"}
  BY <1>3, <1>4
<1>8. NewInv'
  BY <1>1, <1>2, <1>7 DEF TimerInv, PlaceInv, NewInv
<1>9. MadeInv'
  <2>1. \A f \in Events : status[f] = "made" => status'[f] = "made"
    BY <1>3, <1>4
  <2> QED
    BY <1>1, <2>1 DEF TimerInv, PlaceInv, MadeInv
<1>10. OnceInv'
  <2>1. ToSet(repeats) = {}
    BY <1>1, EmptyElements DEF TimerInv, LoopInv
  <2> QED
    BY <1>1, <1>2, <2>1 DEF TimerInv, PlaceInv, OnceInv
<1>11. KeptInv'
  <2>1. ASSUME NEW f \in Repeated, status'[f] = "added", deleted[f] = "no"
        PROVE  f \in ToSet(pending) \cup ToSet(repeats) \/ lost[f] # Never
    <3>1. f \in Events /\ (status[f] = "added" \/ (f = e /\ status[f] = "ran"))
      BY <1>3, <1>4, <2>1, TimerAssumption DEF TimerInv, TypeOK
    <3>2. status[f] = "added"
      BY <3>1 DEF TimerInv, TimeInv
    <3> QED
      BY <2>1, <3>1, <3>2 DEF TimerInv, PlaceInv, KeptInv
  <2>2. \A f \in Events \ Repeated : status'[f] = "added" => f # e /\ status[f] = "added"
    BY <1>4
  <2> QED
    BY <1>1, <1>2, <1>6, <2>1, <2>2 DEF TimerInv, PlaceInv, KeptInv
<1>12. LostInv'
  <2>1. \A f \in Events : f \notin Repeated /\ Gone(f) => Gone(f)'
    BY <1>1, <1>2, <1>4 DEF Gone
  <2>2. \A f \in Events : lost[f] \in Events \cup {Never}
    BY DEF TimerInv, TypeOK
  <2> QED
    BY <1>1, <1>6, <2>1, <2>2 DEF TimerInv, PlaceInv, LostInv
<1>13. TimeInv' /\ LoopInv'
  BY <1>1, <1>3, <1>4 DEF TimerInv, TimeInv, LoopInv
<1>14. TaskInv'
  BY <1>1, <1>2 DEF TimerInv, TaskInv
<1>15. EraseInv'
  <2>1. \A f \in Events : status[f] \in {"added", "ran"} => status'[f] \in {"added", "ran"}
    BY <1>4
  <2> QED
    BY <1>1, <2>1 DEF TimerInv, EraseInv
<1> QED
  BY <1>5, <1>8, <1>9, <1>10, <1>11, <1>12, <1>13, <1>14, <1>15 DEF TimerInv, PlaceInv


----------------------------------------------------------------------------
(* The theorems: for any number of threads that add and delete events.     *)

\* The invariant holds.
LEMMA TimerInvHolds == Spec => []TimerInv
<1>1. TimerInv /\ [Next]_vars => TimerInv'
  <2> SUFFICES ASSUME TimerInv, [Next]_vars PROVE TimerInv'
    OBVIOUS
  <2>1. CASE UNCHANGED alone /\ Tick /\ UNCHANGED history
    BY <2>1, ClockKeeps
  <2>2. CASE UNCHANGED alone /\ OnTimer
    BY <2>2, ReadKeeps, CollectKeeps, ResetKeeps, AgainKeeps, TimerFdKeeps, RunKeeps DEF OnTimer
  <2>3. ASSUME NEW a \in Actors, UNCHANGED alone, Continue(a) PROVE TimerInv'
    BY <2>3, AddKeeps, FoundKeeps, NextKeeps, TimerFdKeeps DEF Continue
  <2>4. ASSUME NEW a \in Actors, NEW e \in Events, UNCHANGED alone, MakeEvent(a, e) \/ Cancel(a, e)
        PROVE  TimerInv'
    BY <2>4, MakeKeeps, CancelKeeps
  <2>5. CASE UNCHANGED vars
    BY <2>5 DEF vars, history, TimerInv, PlaceInv, TypeOK, NewInv, MadeInv, TimeInv, OnceInv,
                KeptInv, LostInv, LoopInv, TaskInv, EraseInv, Erasing, Gone
  <2> QED
    BY <2>1, <2>2, <2>3, <2>4, <2>5 DEF Next, Users, Actors
<1> QED
  BY <1>1, InitTimerInv, PTL DEF Spec

\* The map keeps its shape and its order, every event that was added and not
\* deleted is in the map, in OnTimer's list or among its tasks until it has run,
\* unless the deletion of an event that was no longer in the map, or that
\* repeats, took its place, which each deletion does at most once; and none is
\* in two places that would run it twice.  This holds for any number of threads
\* that add events and delete them at any time: AddTimerEvent, DelTimerEvent,
\* ResetArriveTime and OnTimer.
THEOREM SoundHolds == Spec => []Sound
<1>1. TimerInv => Sound
  <2> SUFFICES ASSUME TimerInv PROVE Sound
    OBVIOUS
  <2>1. TypeOK /\ NeverTwice
    BY DEF TimerInv, PlaceInv, OnceInv, NeverTwice
  <2>2. NothingLost
    <3>1. ASSUME NEW e \in Events, status[e] = "added", deleted[e] = "no", lost[e] = Never
          PROVE  e \in ToSet(pending) \cup ToSet(repeats) \cup ToSet(tasks)
      BY <3>1 DEF TimerInv, PlaceInv, KeptInv
    <3> QED
      BY <3>1 DEF TimerInv, PlaceInv, LostInv, NothingLost
  <2> QED
    BY <2>1, <2>2 DEF Sound
<1> QED
  BY <1>1, TimerInvHolds, PTL

\* OnTimer runs no task before its time, and none of an event that was deleted
\* while OnTimer had not taken its task, whenever the deletion comes.
THEOREM RunsOnlyDueHolds == Spec => RunsOnlyDue
<1>1. TimerInv /\ [Next]_vars =>
        [tasks # <<>> /\ tasks' = Tail(tasks) =>
           /\ Head(tasks) \notin Repeated => arrive[Head(tasks)] <= now
           /\ deleted[Head(tasks)] # "before"]_vars
  <2> SUFFICES ASSUME TimerInv, tasks # <<>>
               PROVE  /\ Head(tasks) \notin Repeated => arrive[Head(tasks)] <= now
                      /\ deleted[Head(tasks)] # "before"
    OBVIOUS
  <2>1. Head(tasks) \in ToSet(tasks) /\ Head(tasks) \in Events
    BY TailElements, Shape DEF TimerInv, TypeOK, PlaceInv, OnceInv
  <2> QED
    BY <2>1 DEF TimerInv, TaskInv
<1> QED
  BY <1>1, TimerInvHolds, PTL DEF Spec, RunsOnlyDue

----------------------------------------------------------------------------
(* The reactor's thread alone with its timer.                              *)

\* The other threads do nothing; only a deletion under way has its event in the
\* map; the clock stands still in OnTimer.
CalmInv ==
    /\ \A a \in Others : pc[a] = "idle"
    /\ pc[Loop] = "collect" => last[Loop] = now
    /\ \A e \in ToSet(pending) : cancelled[e] => pc[Loop] = "erase" /\ subject[Loop] = e

\* What is about to be put in the map arrives an interval from now.
FreshInv ==
    /\ pc[Loop] = "add" => arrive[subject[Loop]] = now + Interval[subject[Loop]]
    /\ pc[Loop] = "again" =>
          arrive[Head(repeats)] = now + Interval[Head(repeats)] /\ ~cancelled[Head(repeats)]

\* When the timerfd is about to be set all events of the map lie ahead.
AheadInv ==
    /\ pc[Loop] \in {"repeat", "again", "reset", "arm"} => \A e \in ToSet(pending) : now < arrive[e]
    /\ pc[Loop] = "arm" => \E e \in ToSet(pending) : last[Loop] = arrive[e]

\* Between the operations the timerfd is armed or has expired, and it is set for
\* no later than an interval from now.
ArmedInv ==
    /\ pc[Loop] \in {"idle", "add", "erase"} /\ pending # <<>> => readable \/ armed # Never
    /\ armed # Never => now < armed /\ \E f \in Events : armed <= now + Interval[f]

\* It expires at most an interval after each event of the map.
LateInv ==
    \A e \in ToSet(pending) :
        /\ arrive[e] <= now + Interval[e]
        /\ \E f \in Events : now <= arrive[e] + Interval[f]
        /\ armed # Never => \E f \in Events : armed <= arrive[e] + Interval[f]

PunctualInv == alone => CalmInv /\ FreshInv /\ AheadInv /\ ArmedInv /\ LateInv

\* Numbers and places.
LEMMA AloneShape ==
    ASSUME TimerInv
    PROVE  /\ now \in Nat /\ arrive \in [Events -> Nat] /\ Interval \in [Events -> Nat]
           /\ armed # Never => armed \in Nat
           /\ ToSet(pending) \subseteq Events /\ pending \in Seq(Events)
           /\ (ToSet(pending) = {} <=> pending = <<>>)
           /\ pc \in [Actors -> Steps]
           /\ last \in [Actors -> Nat] /\ Loop \in Actors /\ Others \subseteq Actors
           /\ Loop \notin Others
<1>1. armed # Never => armed \in Nat
  BY Shape DEF TimerInv, TypeOK
<1>2. pending \in Seq(Events) /\ (ToSet(pending) = {} <=> pending = <<>>)
  <2>1. pending \in Seq(Events)
    BY DEF TimerInv, TypeOK
  <2>2. pending # <<>> => pending[1] \in ToSet(pending)
    BY <2>1 DEF ToSet
  <2> QED
    BY <2>1, <2>2, EmptyElements
<1>3. pc \in [Actors -> Steps]
  BY DEF TimerInv, TypeOK
<1> QED
  BY <1>1, <1>2, <1>3, Shape, TimerAssumption DEF TimerInv, Actors

\* The clock ticks only when nothing is under way.
LEMMA TickPunctual ==
    ASSUME TimerInv, alone, UNCHANGED alone, PunctualInv, Tick PROVE PunctualInv'
<1>1. /\ UNCHANGED <<arrive, cancelled, pending, pc, last, subject>>
      /\ now' = now + 1 /\ pc[Loop] = "idle" /\ ~readable
      /\ IF armed # Never /\ armed <= now' THEN readable' /\ armed' = Never
         ELSE UNCHANGED <<readable, armed>>
  BY AloneShape DEF Tick, Quiet
<1>2. CalmInv /\ FreshInv /\ AheadInv /\ ArmedInv /\ LateInv
  BY DEF PunctualInv
<1>3. CalmInv' /\ FreshInv' /\ AheadInv'
  BY <1>1, <1>2 DEF CalmInv, FreshInv, AheadInv
<1>4. ArmedInv'
  <2>1. \A f \in Events : armed <= now + Interval[f] /\ armed # Never => armed <= now' + Interval[f]
    BY <1>1, AloneShape
  <2> QED
    BY <1>1, <1>2, <2>1, AloneShape DEF ArmedInv
<1>5. ASSUME NEW e \in ToSet(pending)
      PROVE  /\ arrive[e] <= now' + Interval[e]
             /\ \E f \in Events : now' <= arrive[e] + Interval[f]
             /\ armed' # Never => \E f \in Events : armed' <= arrive[e] + Interval[f]
  <2>1. armed # Never /\ now < armed
    BY <1>1, <1>2, AloneShape DEF ArmedInv
  <2>2. PICK f \in Events : armed <= arrive[e] + Interval[f]
    BY <1>2, <2>1 DEF LateInv
  <2>3. arrive[e] \in Nat /\ Interval[e] \in Nat /\ Interval[f] \in Nat /\ arrive[e] <= now + Interval[e]
    BY <1>2, AloneShape DEF LateInv
  <2>4. now' <= arrive[e] + Interval[f] /\ arrive[e] <= now' + Interval[e]
    BY SMTT(30), <1>1, <2>1, <2>2, <2>3, AloneShape
  <2> QED
    BY <1>1, <2>2, <2>4
<1> QED
  BY <1>1, <1>3, <1>4, <1>5 DEF PunctualInv, LateInv

\* An event is made.
LEMMA MakePunctual ==
    ASSUME TimerInv, alone, UNCHANGED alone, PunctualInv, NEW e \in Events, MakeEvent(Loop, e)
    PROVE  PunctualInv'
<1>1. /\ UNCHANGED <<now, cancelled, pending, armed, readable, last, repeats>>
      /\ status[e] = "new" /\ pc[Loop] = "idle"
      /\ arrive' = [arrive EXCEPT ![e] = now + Interval[e]]
      /\ subject' = [subject EXCEPT ![Loop] = e]
      /\ pc' = [pc EXCEPT ![Loop] = "add"]
  BY DEF MakeEvent
<1>2. CalmInv /\ FreshInv /\ AheadInv /\ ArmedInv /\ LateInv
  BY DEF PunctualInv
<1>3. e \notin ToSet(pending) /\ ToSet(pending) \subseteq Events
  BY <1>1, AloneShape DEF TimerInv, PlaceInv, NewInv
<1>4. /\ pc'[Loop] = "add" /\ \A a \in Others : pc'[a] = pc[a]
      /\ subject'[Loop] = e /\ arrive'[e] = now + Interval[e]
      /\ \A f \in ToSet(pending) : arrive'[f] = arrive[f]
  BY <1>1, <1>3, AloneShape DEF TimerInv, TypeOK
<1>5. CalmInv' /\ FreshInv' /\ AheadInv'
  BY <1>1, <1>2, <1>4 DEF CalmInv, FreshInv, AheadInv
<1>6. ArmedInv' /\ LateInv'
  BY <1>1, <1>2, <1>4 DEF ArmedInv, LateInv
<1> QED
  BY <1>5, <1>6 DEF PunctualInv

\* An event that arrives an interval from now joins a map that is on time.
LEMMA JoinPunctual ==
    ASSUME TimerInv, LateInv, ArmedInv, \A f \in Events : Interval[f] > 0,
           UNCHANGED <<now, arrive, armed>>,
           NEW e \in Events, arrive[e] = now + Interval[e], ToSet(pending') = ToSet(pending) \cup {e}
    PROVE  now < arrive[e] /\ LateInv'
<1>1. Interval[e] \in Nat /\ Interval[e] > 0
  BY AloneShape
<1>2. now < arrive[e] /\ now <= arrive[e] + Interval[e] /\ arrive[e] <= now + Interval[e]
  BY <1>1, AloneShape
<1>3. ASSUME armed # Never PROVE \E g \in Events : armed <= arrive[e] + Interval[g]
  <2>1. PICK g \in Events : armed <= now + Interval[g]
    BY <1>3 DEF ArmedInv
  <2>2. armed \in Nat /\ Interval[g] \in Nat
    BY <1>3, AloneShape
  <2>3. armed <= arrive[e] + Interval[g]
    BY <1>1, <2>1, <2>2, AloneShape
  <2> QED
    BY <2>3
<1> QED
  BY <1>2, <1>3 DEF LateInv

\* It is added; when it becomes the earliest, all lie ahead.
LEMMA AddPunctual ==
    ASSUME TimerInv, alone, UNCHANGED alone, PunctualInv, \A f \in Events : Interval[f] > 0,
           AddTimerEvent(Loop)
    PROVE  PunctualInv'
<1> DEFINE e == subject[Loop]
<1>1. /\ UNCHANGED <<now, arrive, cancelled, armed, readable, last, repeats>> /\ pc[Loop] = "add"
      /\ pending' = Emplace(pending, e, arrive)
      /\ pc' = [pc EXCEPT ![Loop] =
                  IF pending = <<>> \/ arrive[e] < arrive[Head(pending)] THEN "reset" ELSE "idle"]
  BY DEF AddTimerEvent
<1>2. CalmInv /\ FreshInv /\ AheadInv /\ ArmedInv /\ LateInv
  BY DEF PunctualInv
<1>3. /\ e \in Events /\ e \notin ToSet(pending) /\ ~cancelled[e]
      /\ arrive[e] = now + Interval[e]
  BY <1>1, <1>2, AloneShape DEF TimerInv, PlaceInv, MadeInv, NewInv, TaskInv, FreshInv
<1> HIDE DEF e
<1>4. ToSet(pending') = ToSet(pending) \cup {e}
  BY <1>1, <1>3, PutIn DEF TimerInv, PlaceInv, OnceInv
<1>5. now < arrive[e] /\ LateInv'
  BY <1>1, <1>2, <1>3, <1>4, JoinPunctual
<1>6. /\ \A a \in Others : pc'[a] = pc[a]
      /\ pc'[Loop] = IF pending = <<>> \/ arrive[e] < arrive[Head(pending)] THEN "reset" ELSE "idle"
  BY <1>1, AloneShape
<1>7. CalmInv' /\ FreshInv'
  <2>1. pc'[Loop] \in {"reset", "idle"} /\ \A a \in Others : pc'[a] = "idle"
    BY <1>2, <1>6 DEF CalmInv
  <2>2. \A f \in ToSet(pending) : ~cancelled[f]
    BY <1>1, <1>2 DEF CalmInv
  <2> QED
    BY <1>1, <1>3, <1>4, <2>1, <2>2 DEF CalmInv, FreshInv
<1>8. AheadInv'
  <2> SUFFICES ASSUME pc'[Loop] = "reset", NEW f \in ToSet(pending') PROVE now < arrive[f]
    <3>1. pc'[Loop] \in {"reset", "idle"}
      BY <1>6
    <3> QED
      BY <1>1, <3>1 DEF AheadInv
  <2>1. ASSUME f \in ToSet(pending) PROVE now < arrive[f]
    <3>1. PICK i \in DOMAIN pending : f = pending[i]
      BY <2>1 DEF ToSet
    <3>2. /\ pending # <<>> /\ 1 \in DOMAIN pending /\ i \in DOMAIN pending /\ (i = 1 \/ 1 < i)
          /\ Head(pending) = pending[1]
      BY <3>1, AloneShape
    <3>3. arrive[Head(pending)] <= arrive[f] /\ arrive[f] \in Nat /\ arrive[Head(pending)] \in Nat
      <4>1. i = 1 \/ arrive[pending[1]] <= arrive[pending[i]]
        BY <3>2, Shape DEF Sorted, TimerInv
      <4>2. arrive[f] \in Nat /\ arrive[pending[1]] \in Nat
        BY <3>1, <3>2, AloneShape DEF ToSet
      <4> QED
        BY <3>1, <3>2, <4>1, <4>2
    <3>4. arrive[e] < arrive[Head(pending)] /\ arrive[e] \in Nat
      BY <1>3, <1>6, <3>2, AloneShape
    <3> QED
      BY <1>5, <3>3, <3>4, AloneShape
  <2> QED
    BY <1>4, <1>5, <2>1
<1>9. ArmedInv'
  <2>1. pc'[Loop] = "idle" => pending # <<>>
    BY <1>6
  <2>2. pc'[Loop] \in {"reset", "idle"}
    BY <1>6
  <2> QED
    BY <1>1, <1>2, <2>1, <2>2 DEF ArmedInv
<1> QED
  BY <1>5, <1>7, <1>8, <1>9 DEF PunctualInv

\* A deletion takes its event off; nothing is set.
LEMMA CancelPunctual ==
    ASSUME TimerInv, alone, UNCHANGED alone, PunctualInv, NEW e \in Events, Cancel(Loop, e)
    PROVE  PunctualInv'
<1>1. /\ UNCHANGED <<now, arrive, pending, armed, readable, last>> /\ pc[Loop] = "idle"
      /\ cancelled' = [cancelled EXCEPT ![e] = TRUE]
      /\ subject' = [subject EXCEPT ![Loop] = e]
      /\ pc' = [pc EXCEPT ![Loop] = "erase"]
  BY DEF Cancel
<1>2. CalmInv /\ FreshInv /\ AheadInv /\ ArmedInv /\ LateInv
  BY DEF PunctualInv
<1>3. /\ \A a \in Others : pc'[a] = pc[a]
      /\ pc'[Loop] = "erase" /\ subject'[Loop] = e
      /\ \A f \in Events : f # e => cancelled'[f] = cancelled[f]
  BY <1>1, AloneShape DEF TimerInv, TypeOK
<1>4. CalmInv' /\ FreshInv'
  BY <1>1, <1>2, <1>3, AloneShape DEF CalmInv, FreshInv
<1>5. AheadInv' /\ ArmedInv'
  BY <1>1, <1>2, <1>3 DEF AheadInv, ArmedInv
<1>6. LateInv'
  BY <1>1, <1>2 DEF LateInv
<1> QED
  BY <1>4, <1>5, <1>6 DEF PunctualInv

\* What a deletion takes off the map leaves the others on time.
LEMMA ErasePunctual ==
    ASSUME TimerInv, alone, UNCHANGED alone, PunctualInv, EraseFound(Loop) \/ EraseNext(Loop)
    PROVE  PunctualInv'
<1>1. /\ UNCHANGED <<now, arrive, cancelled, armed, readable, last, repeats>> /\ pc[Loop] = "erase"
      /\ pc' = [pc EXCEPT ![Loop] = "idle"] /\ subject' = [subject EXCEPT ![Loop] = Never]
  BY DEF EraseFound, EraseNext
<1>2. CalmInv /\ FreshInv /\ AheadInv /\ ArmedInv /\ LateInv
  BY DEF PunctualInv
<1>3. ToSet(pending') \subseteq ToSet(pending) \ {subject[Loop]} /\ (pending' # <<>> => pending # <<>>)
  <2>1. \A i \in DOMAIN pending : i \in 1 .. Len(pending)
    BY AloneShape
  <2>2. CASE \E i \in Places(subject[Loop]) : pending' = RemoveAt(pending, i)
    <3>1. PICK i \in DOMAIN pending : pending' = RemoveAt(pending, i) /\ pending[i] = subject[Loop]
      BY <2>2 DEF Places
    <3>2. ToSet(pending') = ToSet(pending) \ {pending[i]} /\ pending # <<>>
      BY <1>1, <2>1, <3>1, ErasedOne, AloneShape
    <3> QED
      BY <3>1, <3>2
  <2>3. CASE EraseNext(Loop)
    <3>1. subject[Loop] \notin ToSet(pending)
      BY <2>3 DEF EraseNext, Places, ToSet
    <3>2. CASE pending' = pending
      BY <3>1, <3>2
    <3>3. CASE pending' # pending
      <4> DEFINE i == UpperBound(subject[Loop])
      <4>1. i <= Len(pending) /\ pending' = RemoveAt(pending, i)
        BY <2>3, <3>3 DEF EraseNext
      <4>2. i \in 1 .. Len(pending)
        <5>1. subject[Loop] \in Events
          BY <1>1, AloneShape DEF TimerInv, EraseInv
        <5>2. i \in 1 .. (Len(pending) + 1)
          BY <5>1, UpperPlace DEF TimerInv
        <5> QED
          BY <4>1, <5>2, AloneShape
      <4> HIDE DEF i
      <4>3. ToSet(pending') = ToSet(pending) \ {pending[i]} /\ pending # <<>>
        BY <1>1, <4>1, <4>2, ErasedOne, AloneShape
      <4> QED
        BY <3>1, <4>3
    <3> QED
      BY <3>2, <3>3
  <2> QED
    BY <2>2, <2>3 DEF EraseFound
<1>4. pc'[Loop] = "idle" /\ \A a \in Others : pc'[a] = pc[a]
  BY <1>1, AloneShape
<1>5. CalmInv' /\ FreshInv' /\ AheadInv'
  BY <1>1, <1>2, <1>3, <1>4 DEF CalmInv, FreshInv, AheadInv
<1>6. ArmedInv' /\ LateInv'
  BY <1>1, <1>2, <1>3, <1>4 DEF ArmedInv, LateInv
<1> QED
  BY <1>5, <1>6 DEF PunctualInv

\* ResetArriveTime: nothing arrives between its copy of the map and the setting
\* of the timerfd, so a time is set, and it is ahead.
LEMMA ResetPunctual ==
    ASSUME TimerInv, alone, UNCHANGED alone, PunctualInv, CopyPending(Loop) \/ SetTime(Loop)
    PROVE  PunctualInv'
<1>1. /\ UNCHANGED <<now, arrive, cancelled, pending, subject>>
      /\ \A a \in Others : pc'[a] = pc[a]
  BY AloneShape DEF CopyPending, SetTime
<1>2. CalmInv /\ FreshInv /\ AheadInv /\ ArmedInv /\ LateInv
  BY DEF PunctualInv
<1>3. CASE CopyPending(Loop)
  <2>1. /\ pc[Loop] = "reset" /\ UNCHANGED <<armed, readable>>
        /\ \/ pending = <<>> /\ pc'[Loop] = "idle"
           \/ pending # <<>> /\ pc'[Loop] = "arm" /\ last'[Loop] = arrive[Last(pending)]
    BY <1>3, AloneShape DEF CopyPending
  <2>2. pending # <<>> => Last(pending) \in ToSet(pending)
    <3>1. pending # <<>> => Len(pending) \in DOMAIN pending
      BY AloneShape
    <3> QED
      BY <3>1 DEF Last, ToSet
  <2>3. CalmInv' /\ FreshInv'
    BY <1>1, <1>2, <2>1 DEF CalmInv, FreshInv
  <2>4. AheadInv'
    BY <1>1, <1>2, <2>1, <2>2 DEF AheadInv
  <2>5. ArmedInv'
    BY <1>1, <1>2, <2>1 DEF ArmedInv
  <2>6. LateInv'
    BY <1>1, <1>2, <2>1 DEF LateInv
  <2> QED
    BY <2>3, <2>4, <2>5, <2>6 DEF PunctualInv
<1>4. CASE SetTime(Loop)
  <2>1. pc[Loop] = "arm" /\ pc'[Loop] = "idle" /\ last' = last
    BY <1>4, AloneShape DEF SetTime
  <2>2. PICK e \in ToSet(pending) : last[Loop] = arrive[e]
    BY <1>2, <2>1 DEF AheadInv
  <2>3. now < last[Loop]
    BY <1>2, <2>1, <2>2 DEF AheadInv
  <2>4. armed' = last[Loop] /\ last[Loop] \in Nat
    BY <1>4, <2>3, AloneShape DEF SetTime
  <2>5. e \in Events /\ last[Loop] <= now + Interval[e]
    BY <1>2, <2>2, AloneShape DEF LateInv
  <2>6. armed' # Never
    BY <2>4, TimerAssumption
  <2>7. CalmInv' /\ FreshInv' /\ AheadInv'
    BY <1>1, <1>2, <2>1 DEF CalmInv, FreshInv, AheadInv
  <2>8. ArmedInv'
    BY <1>1, <2>3, <2>4, <2>5, <2>6 DEF ArmedInv
  <2>9. ASSUME NEW f \in ToSet(pending) PROVE armed' <= arrive[f] + Interval[e]
    <3>1. now < arrive[f] /\ arrive[f] \in Nat /\ Interval[e] \in Nat
      BY <1>2, <2>1, <2>5, AloneShape DEF AheadInv
    <3> QED
      BY <2>4, <2>5, <3>1, AloneShape
  <2>10. LateInv'
    BY <1>1, <1>2, <2>5, <2>9 DEF LateInv
  <2> QED
    BY <2>7, <2>8, <2>10 DEF PunctualInv
<1> QED
  BY <1>3, <1>4

\* OnTimer takes all that has arrived, so that what is left lies ahead, like the
\* events that are put back.
LEMMA OnTimerPunctual ==
    ASSUME TimerInv, alone, UNCHANGED alone, PunctualInv, \A f \in Events : Interval[f] > 0, OnTimer
    PROVE  PunctualInv'
<1>1. CalmInv /\ FreshInv /\ AheadInv /\ ArmedInv /\ LateInv
  BY DEF PunctualInv
<1>2. CASE ReadTimerFd
  <2>1. /\ UNCHANGED <<now, arrive, cancelled, pending, armed, subject>> /\ pc[Loop] = "idle"
        /\ pc'[Loop] = "collect" /\ last'[Loop] = now /\ \A a \in Others : pc'[a] = pc[a]
    BY <1>2, AloneShape DEF ReadTimerFd
  <2>2. CalmInv' /\ FreshInv' /\ AheadInv'
    BY <1>1, <2>1 DEF CalmInv, FreshInv, AheadInv
  <2>3. ArmedInv' /\ LateInv'
    BY <1>1, <2>1 DEF ArmedInv, LateInv
  <2> QED
    BY <2>2, <2>3 DEF PunctualInv
<1>3. CASE Collect
  <2> DEFINE n == Arrived(last[Loop])
  <2>1. /\ UNCHANGED <<now, arrive, cancelled, armed, readable, last, subject>> /\ pc[Loop] = "collect"
        /\ pending' = SubSeq(pending, n + 1, Len(pending))
        /\ pc'[Loop] = "repeat" /\ \A a \in Others : pc'[a] = pc[a]
    BY <1>3, AloneShape DEF Collect
  <2>2. last[Loop] = now /\ \A e \in ToSet(pending) : ~cancelled[e]
    BY <1>1, <2>1 DEF CalmInv
  <2>3. n \in 0 .. Len(pending) /\ \A i \in (n + 1) .. Len(pending) : now < arrive[pending[i]]
    BY <2>2, ArrivedFirst, ArrivedAll, Shape DEF TimerInv
  <2> HIDE DEF n
  <2>4. ASSUME NEW e \in ToSet(pending') PROVE e \in ToSet(pending) /\ now < arrive[e]
    <3>1. PICK i \in (n + 1) .. Len(pending) : e = pending[i]
      BY <2>1, <2>3, <2>4, CutSorted, Shape DEF TimerInv, TypeOK
    <3>2. i \in DOMAIN pending
      BY <2>3, <3>1, AloneShape
    <3> QED
      BY <2>3, <3>1, <3>2 DEF ToSet
  <2>5. CalmInv' /\ FreshInv' /\ AheadInv'
    BY <1>1, <2>1, <2>2, <2>4 DEF CalmInv, FreshInv, AheadInv
  <2>6. ArmedInv' /\ LateInv'
    BY <1>1, <2>1, <2>4 DEF ArmedInv, LateInv
  <2> QED
    BY <2>5, <2>6 DEF PunctualInv
<1>4. CASE Reset
  <2> DEFINE e == Head(repeats)
  <2>1. /\ UNCHANGED <<now, pending, armed, readable, last, subject, repeats>>
        /\ pc[Loop] = "repeat" /\ pc' = [pc EXCEPT ![Loop] = "again"]
        /\ arrive' = [arrive EXCEPT ![e] = now + Interval[e]]
        /\ cancelled' = [cancelled EXCEPT ![e] = FALSE] /\ repeats # <<>>
    BY <1>4 DEF Reset
  <2>2. e \in Events /\ e \notin ToSet(pending) /\ e = Head(repeats')
    BY <2>1, FirstRepeat
  <2> HIDE DEF e
  <2>3. /\ arrive'[e] = now + Interval[e] /\ ~cancelled'[e]
        /\ \A f \in ToSet(pending) : arrive'[f] = arrive[f] /\ cancelled'[f] = cancelled[f]
        /\ pc'[Loop] = "again" /\ \A a \in Others : pc'[a] = pc[a]
    BY <2>1, <2>2, AloneShape DEF TimerInv, TypeOK
  <2>4. CalmInv' /\ FreshInv' /\ AheadInv'
    BY <1>1, <2>1, <2>2, <2>3 DEF CalmInv, FreshInv, AheadInv
  <2>5. ArmedInv' /\ LateInv'
    BY <1>1, <2>1, <2>3 DEF ArmedInv, LateInv
  <2> QED
    BY <2>4, <2>5 DEF PunctualInv
<1>7. CASE AddAgain
  <2> DEFINE e == Head(repeats)
  <2>1. /\ UNCHANGED <<now, arrive, cancelled, armed, readable, last, subject>>
        /\ pc[Loop] = "again" /\ pc' = [pc EXCEPT ![Loop] = "repeat"]
        /\ pending' = Emplace(pending, e, arrive) /\ repeats # <<>>
    BY <1>7 DEF AddAgain, TimerInv, LoopInv
  <2>2. e \in Events /\ e \notin ToSet(pending) /\ arrive[e] = now + Interval[e] /\ ~cancelled[e]
    BY <1>1, <2>1, FirstRepeat DEF FreshInv
  <2> HIDE DEF e
  <2>3. ToSet(pending') = ToSet(pending) \cup {e}
    BY <2>1, <2>2, PutIn DEF TimerInv, PlaceInv, OnceInv
  <2>4. now < arrive[e] /\ LateInv'
    BY <1>1, <2>1, <2>2, <2>3, JoinPunctual
  <2>5. pc'[Loop] = "repeat" /\ \A a \in Others : pc'[a] = pc[a]
    BY <2>1, AloneShape
  <2>6. CalmInv' /\ FreshInv' /\ AheadInv'
    BY <1>1, <2>1, <2>2, <2>3, <2>4, <2>5 DEF CalmInv, FreshInv, AheadInv
  <2>7. ArmedInv'
    BY <1>1, <2>1, <2>5 DEF ArmedInv
  <2> QED
    BY <2>4, <2>6, <2>7 DEF PunctualInv
<1>5. CASE RepeatsDone
  <2>1. /\ UNCHANGED <<now, arrive, cancelled, pending, armed, readable, last, subject>>
        /\ pc[Loop] = "repeat" /\ pc'[Loop] = "reset" /\ \A a \in Others : pc'[a] = pc[a]
    BY <1>5, AloneShape DEF RepeatsDone
  <2>2. CalmInv' /\ FreshInv' /\ AheadInv'
    BY <1>1, <2>1 DEF CalmInv, FreshInv, AheadInv
  <2>3. ArmedInv' /\ LateInv'
    BY <1>1, <2>1 DEF ArmedInv, LateInv
  <2> QED
    BY <2>2, <2>3 DEF PunctualInv
<1>6. CASE RunTask
  BY <1>1, <1>6 DEF RunTask, PunctualInv, CalmInv, FreshInv, AheadInv, ArmedInv, LateInv
<1> QED
  BY <1>2, <1>3, <1>4, <1>5, <1>6, <1>7 DEF OnTimer

\* While the reactor's thread is the only one that uses its timer, the clock
\* does not tick inside an operation and every interval is above zero (a time
\* left of zero would disarm the timerfd), the timerfd is armed or has expired
\* whenever an event is pending between two operations, and no event is overdue
\* by more than the longest interval, although ResetArriveTime sets it for the
\* last event of the map.
THEOREM PunctualAloneHolds ==
    ASSUME \A e \in Events : Interval[e] > 0
    PROVE  Spec => []PunctualAlone
<1>1. Init => PunctualInv
  <2> SUFFICES ASSUME Init PROVE PunctualInv
    OBVIOUS
  <2>1. ToSet(<<>>) = {}
    BY EmptyElements
  <2> QED
    BY <2>1, TimerAssumption DEF Init, PunctualInv, CalmInv, FreshInv, AheadInv, ArmedInv, LateInv, Actors
<1>2. TimerInv /\ PunctualInv /\ [Next]_vars => PunctualInv'
  <2> SUFFICES ASSUME TimerInv, PunctualInv, [Next]_vars PROVE PunctualInv'
    OBVIOUS
  <2>1. CASE UNCHANGED vars
    BY <2>1 DEF vars, history, PunctualInv, CalmInv, FreshInv, AheadInv, ArmedInv, LateInv
  <2>2. CASE ~alone /\ Next
    BY <2>2 DEF Next, PunctualInv
  <2>3. CASE alone /\ UNCHANGED alone /\ Tick
    BY <2>3, TickPunctual
  <2>4. CASE alone /\ UNCHANGED alone /\ OnTimer
    BY <2>4, OnTimerPunctual
  <2>5. ASSUME alone, UNCHANGED alone, Continue(Loop) PROVE PunctualInv'
    BY <2>5, AddPunctual, ResetPunctual, ErasePunctual DEF Continue
  <2>6. ASSUME alone, UNCHANGED alone, NEW e \in Events, MakeEvent(Loop, e) \/ Cancel(Loop, e)
        PROVE  PunctualInv'
    BY <2>6, MakePunctual, CancelPunctual
  <2> QED
    BY <2>1, <2>2, <2>3, <2>4, <2>5, <2>6 DEF Next, Users
<1>3. TimerInv /\ PunctualInv => PunctualAlone
  <2> SUFFICES ASSUME TimerInv, PunctualInv, alone PROVE TimerArmed /\ NotTooLate
    BY DEF PunctualAlone
  <2> QED
    BY AloneShape DEF PunctualInv, ArmedInv, LateInv, TimerArmed, NotTooLate
<1> QED
  BY <1>1, <1>2, <1>3, TimerInvHolds, PTL DEF Spec
=============================================================================
