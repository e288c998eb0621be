---------------------------- MODULE RpcCallProofs ----------------------------
(* What the calls of one thread keep, for any number of callers, addresses *)
(* and descriptors and any time-outs.                                      *)
EXTENDS RpcCall, SequenceElements, FiniteSetTheorems

----------------------------------------------------------------------------
(* The timer's events as sorted sequences.                                 *)

\* Two events are the same but for their times.
Same(e, d) == e.kind = d.kind /\ e.caller = d.caller /\ e.frame = d.frame

\* No event is there twice.
Unique(s) == \A i, j \in DOMAIN s : Same(s[i], s[j]) => i = j

Order(s) == \A i, j \in DOMAIN s : i < j => s[i].at <= s[j].at

\* A sequence's places, its elements and its first one.
LEMMA EventPlaces ==
    ASSUME NEW s \in Seq(Event)
    PROVE  /\ Len(s) \in Nat /\ DOMAIN s = 1 .. Len(s)
           /\ \A i \in 1 .. Len(s) : s[i] \in Event /\ s[i].at \in Int /\ s[i] \in ToSet(s)
           /\ \A e \in ToSet(s) : e \in Event /\ e.at \in Int /\ \E i \in 1 .. Len(s) : e = s[i]
           /\ s # <<>> => Len(s) >= 1 /\ Head(s) = s[1] /\ Head(s) \in ToSet(s)
<1>1. /\ Len(s) \in Nat /\ DOMAIN s = 1 .. Len(s) /\ \A i \in 1 .. Len(s) : s[i] \in Event
      /\ s # <<>> => Len(s) >= 1 /\ Head(s) = s[1] /\ 1 \in 1 .. Len(s)
  OBVIOUS
<1>2. \A e \in Event : e.at \in Int
  BY DEF Event
<1>3. ToSet(s) = {s[i] : i \in 1 .. Len(s)}
  BY <1>1 DEF ToSet
<1> QED
  BY <1>1, <1>2, <1>3

\* The number of events that are due is where the sequence is cut.
LEMMA DueCuts ==
    ASSUME NEW s \in Seq(Event), NEW t \in Int, Order(s)
    PROVE  /\ Due(s, t) \in 0 .. Len(s)
           /\ \A i \in 1 .. Len(s) : s[i].at <= t <=> i <= Due(s, t)
<1> DEFINE Before == {i \in DOMAIN s : s[i].at <= t}
<1>1. Len(s) \in Nat /\ DOMAIN s = 1 .. Len(s) /\ \A i \in 1 .. Len(s) : s[i].at \in Int
  BY EventPlaces
<1>2. /\ Before \in SUBSET (1 .. Len(s))
      /\ \A i \in Before : \A j \in 1 .. Len(s) : j < i => j \in Before
  BY <1>1 DEF Order
<1>3. PICK m \in 0 .. Len(s) : Before = 1 .. m /\ Cardinality(Before) = m
  <2> HIDE DEF Before
  <2> QED
    BY <1>1, <1>2, FirstPlaces
<1>4. Due(s, t) = m
  BY <1>3, Zenon DEF Due
<1>5. \A i \in 1 .. Len(s) : s[i].at <= t <=> i \in 1 .. m
  BY <1>1, <1>3
<1> QED
  BY <1>1, <1>4, <1>5

\* An event that is put in keeps the order and the others.
LEMMA InsertedFacts ==
    ASSUME NEW s \in Seq(Event), NEW e \in Event, Order(s)
    PROVE  /\ Inserted(s, e) \in Seq(Event) /\ Order(Inserted(s, e))
           /\ ToSet(Inserted(s, e)) = ToSet(s) \cup {e}
           /\ Unique(s) /\ (\A d \in ToSet(s) : ~Same(d, e)) => Unique(Inserted(s, e))
           /\ Inserted(s, e) # <<>>
           /\ s = <<>> => Head(Inserted(s, e)) = e
           /\ s # <<>> /\ Head(s).at <= e.at => Head(Inserted(s, e)) = Head(s)
<1> DEFINE m == Due(s, e.at)
           r == Inserted(s, e)
<1>1. /\ Len(s) \in Nat /\ DOMAIN s = 1 .. Len(s) /\ e.at \in Int
      /\ \A i \in 1 .. Len(s) : s[i] \in Event /\ s[i].at \in Int /\ s[i] \in ToSet(s)
  BY EventPlaces DEF Event
<1>2. m \in 0 .. Len(s) /\ \A i \in 1 .. Len(s) : s[i].at <= e.at <=> i <= m
  BY <1>1, DueCuts
<1>3. r \in Seq(Event) /\ IsInserted(r, s, m, e)
  <2> HIDE DEF m
  <2>1. InsertAt(s, m + 1, e) \in Seq(Event) /\ IsInserted(InsertAt(s, m + 1, e), s, m, e)
    BY <1>2, InsertPlaces
  <2> QED
    BY <2>1, Zenon DEF Inserted, m
<1> HIDE DEF r, m
<1>4. /\ Len(r) = Len(s) + 1 /\ r[m + 1] = e
      /\ \A i \in 1 .. m : r[i] = s[i]
      /\ \A i \in (m + 2) .. (Len(s) + 1) : r[i] = s[i - 1]
  BY <1>3 DEF IsInserted
<1>5. m \in Nat /\ m <= Len(s) /\ DOMAIN r = 1 .. (Len(s) + 1)
  BY <1>1, <1>2, <1>3, <1>4
<1> DEFINE From(i) == IF i <= m THEN i ELSE i - 1
<1>6. \A i \in 1 .. (Len(s) + 1) : i # m + 1 => From(i) \in 1 .. Len(s) /\ r[i] = s[From(i)]
  <2> TAKE i \in 1 .. (Len(s) + 1)
  <2>1. CASE i <= m
    <3>1. i \in 1 .. m /\ i \in 1 .. Len(s)
      BY <1>1, <1>5, <2>1
    <3> QED
      BY <1>4, <2>1, <3>1
  <2>2. CASE i > m + 1
    <3>1. i \in (m + 2) .. (Len(s) + 1) /\ ~(i <= m) /\ i - 1 \in 1 .. Len(s)
      BY <1>1, <1>5, <2>2
    <3> QED
      BY <1>4, <3>1
  <2> QED
    BY <1>5, <2>1, <2>2
<1>7. \A i, j \in 1 .. (Len(s) + 1) : i # m + 1 /\ j # m + 1 =>
          (i < j => From(i) < From(j)) /\ (From(i) = From(j) => i = j)
  BY <1>5
<1>8. \A i \in 1 .. (Len(s) + 1) : i # m + 1 => (i < m + 1 <=> From(i) <= m)
  BY <1>5
<1> HIDE DEF From
<1>9. Order(r)
  <2> SUFFICES ASSUME NEW i \in 1 .. (Len(s) + 1), NEW j \in 1 .. (Len(s) + 1), i < j
               PROVE  r[i].at <= r[j].at
    BY <1>5 DEF Order
  <2>1. CASE i # m + 1 /\ j # m + 1
    <3>1. /\ From(i) < From(j) /\ From(i) \in DOMAIN s /\ From(j) \in DOMAIN s
          /\ r[i] = s[From(i)] /\ r[j] = s[From(j)]
      BY <1>1, <1>6, <1>7, <2>1
    <3> QED
      BY <3>1 DEF Order
  <2>2. CASE i = m + 1
    <3>1. j # m + 1 /\ ~(j < m + 1)
      BY <1>5, <2>2
    <3>2. From(j) \in 1 .. Len(s) /\ r[j] = s[From(j)] /\ ~(From(j) <= m)
      BY <1>6, <1>8, <3>1
    <3>3. ~(s[From(j)].at <= e.at) /\ s[From(j)].at \in Int
      BY <1>1, <1>2, <3>2
    <3> QED
      BY <1>1, <1>4, <2>2, <3>2, <3>3
  <2>3. CASE j = m + 1
    <3>1. i # m + 1 /\ i < m + 1
      BY <1>5, <2>3
    <3>2. From(i) \in 1 .. Len(s) /\ r[i] = s[From(i)] /\ From(i) <= m
      BY <1>6, <1>8, <3>1
    <3>3. s[From(i)].at <= e.at
      BY <1>2, <3>2
    <3> QED
      BY <1>4, <2>3, <3>2, <3>3
  <2> QED
    BY <2>1, <2>2, <2>3
<1>10. ToSet(r) = ToSet(s) \cup {e}
  <2>1. \A i \in 1 .. (Len(s) + 1) : r[i] \in ToSet(s) \cup {e}
    BY <1>1, <1>4, <1>6
  <2>2. ASSUME NEW k \in 1 .. Len(s) PROVE \E j \in 1 .. (Len(s) + 1) : r[j] = s[k]
    <3>1. CASE k <= m
      <4>1. k \in 1 .. m /\ k \in 1 .. (Len(s) + 1)
        BY <1>5, <3>1
      <4> QED
        BY <1>4, <4>1
    <3>2. CASE k > m
      <4>1. k + 1 \in (m + 2) .. (Len(s) + 1) /\ (k + 1) - 1 = k /\ k + 1 \in 1 .. (Len(s) + 1)
        BY <1>5, <3>2
      <4>2. r[k + 1] = s[(k + 1) - 1]
        BY <1>4, <4>1
      <4> QED
        BY <4>1, <4>2
    <3> QED
      BY <1>5, <3>1, <3>2
  <2>3. m + 1 \in 1 .. (Len(s) + 1)
    BY <1>5
  <2>4. ToSet(r) = {r[i] : i \in 1 .. (Len(s) + 1)} /\ ToSet(s) = {s[i] : i \in 1 .. Len(s)}
    BY <1>1, <1>5 DEF ToSet
  <2>5. e \in ToSet(r) /\ ToSet(s) \subseteq ToSet(r) /\ ToSet(r) \subseteq ToSet(s) \cup {e}
    BY <1>4, <2>1, <2>2, <2>3, <2>4
  <2> QED
    BY <2>5
<1>11. ASSUME Unique(s), \A d \in ToSet(s) : ~Same(d, e) PROVE Unique(r)
  <2> SUFFICES ASSUME NEW i \in 1 .. (Len(s) + 1), NEW j \in 1 .. (Len(s) + 1), Same(r[i], r[j])
               PROVE  i = j
    BY <1>5 DEF Unique
  <2>1. \A k \in 1 .. (Len(s) + 1) : k # m + 1 => ~Same(r[k], e)
    BY <1>1, <1>6, <1>11
  <2>2. CASE i # m + 1 /\ j # m + 1
    <3>1. From(i) \in DOMAIN s /\ From(j) \in DOMAIN s /\ Same(s[From(i)], s[From(j)])
      BY <1>1, <1>6, <2>2
    <3>2. From(i) = From(j)
      BY <1>11, <3>1 DEF Unique
    <3> QED
      BY <1>7, <2>2, <3>2
  <2>3. CASE i = m + 1 /\ j # m + 1
    <3>1. Same(e, r[j]) /\ ~Same(r[j], e)
      BY <1>4, <2>1, <2>3
    <3> QED
      BY <3>1 DEF Same
  <2>4. CASE i # m + 1 /\ j = m + 1
    <3>1. Same(r[i], e) /\ ~Same(r[i], e)
      BY <1>4, <2>1, <2>4
    <3> QED
      BY <3>1
  <2> QED
    BY <2>2, <2>3, <2>4
<1>12. r # <<>> /\ Head(r) = r[1]
  BY <1>1, <1>3, <1>4, EventPlaces
<1>13. ASSUME s = <<>> PROVE Head(r) = e
  <2>1. m + 1 = 1
    BY <1>1, <1>5, <1>13
  <2> QED
    BY <1>4, <1>12, <2>1
<1>14. ASSUME s # <<>>, Head(s).at <= e.at PROVE Head(r) = Head(s)
  <2>1. Len(s) >= 1 /\ Head(s) = s[1] /\ 1 \in 1 .. Len(s)
    BY <1>1, <1>14, EventPlaces
  <2>2. 1 <= m
    BY <1>2, <1>14, <2>1
  <2>3. 1 \in 1 .. m
    BY <1>5, <2>2
  <2> QED
    BY <1>4, <1>12, <2>1, <2>3
<1> QED
  BY <1>3, <1>9, <1>10, <1>11, <1>12, <1>13, <1>14 DEF r

\* A place taken out keeps the order of the others.
LEMMA RemovedFacts ==
    ASSUME NEW s \in Seq(Event), NEW n \in 1 .. Len(s), Order(s)
    PROVE  /\ RemoveAt(s, n) \in Seq(Event) /\ Order(RemoveAt(s, n))
           /\ \A d \in ToSet(RemoveAt(s, n)) : \E i \in 1 .. Len(s) : i # n /\ d = s[i]
           /\ Unique(s) => Unique(RemoveAt(s, n))
           /\ n # 1 => RemoveAt(s, n) # <<>> /\ Head(RemoveAt(s, n)) = Head(s)
<1> DEFINE r == RemoveAt(s, n)
<1>1. /\ Len(s) \in Nat /\ DOMAIN s = 1 .. Len(s) /\ n \in Nat /\ n <= Len(s)
      /\ \A i \in 1 .. Len(s) : s[i] \in Event /\ s[i].at \in Int /\ s[i] \in ToSet(s)
  BY EventPlaces
<1>2. r \in Seq(Event) /\ IsRemoved(r, s, n)
  BY RemovePlaces
<1> HIDE DEF r
<1>3. /\ Len(r) = Len(s) - 1
      /\ \A i \in 1 .. (n - 1) : r[i] = s[i]
      /\ \A i \in n .. (Len(s) - 1) : r[i] = s[i + 1]
  BY <1>2 DEF IsRemoved
<1>4. DOMAIN r = 1 .. (Len(s) - 1)
  BY <1>2, <1>3
<1> DEFINE From(i) == IF i < n THEN i ELSE i + 1
<1>5. \A i \in 1 .. (Len(s) - 1) : From(i) \in 1 .. Len(s) /\ From(i) # n /\ r[i] = s[From(i)]
  <2> TAKE i \in 1 .. (Len(s) - 1)
  <2>1. CASE i < n
    <3>1. i \in 1 .. (n - 1) /\ From(i) = i /\ i \in 1 .. Len(s) /\ i # n
      BY <1>1, <2>1
    <3> QED
      BY <1>3, <3>1
  <2>2. CASE ~(i < n)
    <3>1. i \in n .. (Len(s) - 1) /\ From(i) = i + 1
      BY <1>1, <2>2
    <3>2. i + 1 \in 1 .. Len(s) /\ i + 1 # n
      BY <1>1, <2>2
    <3> QED
      BY <1>3, <3>1, <3>2
  <2> QED
    BY <2>1, <2>2
<1>6. \A i, j \in 1 .. (Len(s) - 1) :
          (i < j => From(i) < From(j)) /\ (From(i) = From(j) => i = j)
  BY <1>1
<1> HIDE DEF From
<1>7. Order(r)
  <2> SUFFICES ASSUME NEW i \in 1 .. (Len(s) - 1), NEW j \in 1 .. (Len(s) - 1), i < j
               PROVE  r[i].at <= r[j].at
    BY <1>4 DEF Order
  <2>1. /\ From(i) < From(j) /\ From(i) \in DOMAIN s /\ From(j) \in DOMAIN s
        /\ r[i] = s[From(i)] /\ r[j] = s[From(j)]
    BY <1>1, <1>5, <1>6
  <2> QED
    BY <2>1 DEF Order
<1>8. ASSUME Unique(s) PROVE Unique(r)
  <2> SUFFICES ASSUME NEW i \in 1 .. (Len(s) - 1), NEW j \in 1 .. (Len(s) - 1), Same(r[i], r[j])
               PROVE  i = j
    BY <1>4 DEF Unique
  <2>1. From(i) \in DOMAIN s /\ From(j) \in DOMAIN s /\ Same(s[From(i)], s[From(j)])
    BY <1>1, <1>5
  <2>2. From(i) = From(j)
    BY <1>8, <2>1 DEF Unique
  <2> QED
    BY <1>6, <2>2
<1>9. \A d \in ToSet(r) : \E i \in 1 .. Len(s) : i # n /\ d = s[i]
  <2>1. \A d \in ToSet(r) : \E j \in 1 .. (Len(s) - 1) : d = r[j]
    BY <1>4 DEF ToSet
  <2> QED
    BY <1>5, <2>1
<1>10. ASSUME n # 1 PROVE r # <<>> /\ Head(r) = Head(s)
  <2>1. Len(s) - 1 >= 1 /\ 1 \in 1 .. (n - 1) /\ s # <<>>
    BY <1>1, <1>10
  <2>2. r # <<>> /\ Head(r) = r[1] /\ Head(s) = s[1]
    BY <1>2, <1>3, <2>1
  <2> QED
    BY <1>3, <2>1, <2>2
<1> QED
  BY <1>2, <1>7, <1>8, <1>9, <1>10 DEF r

\* An event with another's time is it when they are the same.
LEMMA SameIs ==
    ASSUME NEW d \in Event, NEW e \in Event
    PROVE  [d EXCEPT !.at = e.at] = e <=> Same(d, e)
BY DEF Event, Same

\* DelTimerEvent takes the event out, or another one that is not due before it.
LEMMA WithoutFacts ==
    ASSUME NEW s \in Seq(Event), NEW e \in Event, Order(s)
    PROVE  /\ Without(s, e) \in Seq(Event) /\ Order(Without(s, e))
           /\ ToSet(Without(s, e)) \subseteq ToSet(s)
           /\ s = <<>> => Without(s, e) = <<>>
           /\ Unique(s) => /\ Unique(Without(s, e))
                           /\ \A d \in ToSet(Without(s, e)) : ~Same(d, e)
           /\ s # <<>> /\ Head(s).at <= e.at /\ ~Same(Head(s), e) =>
                 Without(s, e) # <<>> /\ Head(Without(s, e)) = Head(s)
           /\ Unique(s) /\ s # <<>> /\ Head(s) \in ToSet(Without(s, e)) =>
                 Without(s, e) # <<>> /\ Head(Without(s, e)) = Head(s)
<1> DEFINE here == {i \in DOMAIN s : [s[i] EXCEPT !.at = e.at] = e}
           next == {i \in DOMAIN s : s[i].at > e.at}
           r == Without(s, e)
<1>1. /\ Len(s) \in Nat /\ DOMAIN s = 1 .. Len(s) /\ e.at \in Int
      /\ \A i \in 1 .. Len(s) : s[i] \in Event /\ s[i].at \in Int /\ s[i] \in ToSet(s)
      /\ s # <<>> => Len(s) >= 1 /\ Head(s) = s[1] /\ Head(s) \in ToSet(s)
      /\ \A d \in ToSet(s) : \E i \in 1 .. Len(s) : d = s[i]
  BY EventPlaces DEF Event
<1>2. here = {i \in 1 .. Len(s) : Same(s[i], e)}
  BY <1>1, SameIs
<1>3. here \in SUBSET Nat /\ next \in SUBSET Nat
  BY <1>1
<1>4. r = CASE here # {} -> RemoveAt(s, Min(here))
            [] here = {} /\ next # {} -> RemoveAt(s, Min(next))
            [] here = {} /\ next = {} -> s
  BY DEF Without
<1>5. \A i \in next : i \in 1 .. Len(s) /\ s[i].at > e.at
  BY <1>1
<1> HIDE DEF here, next, r
<1>6. CASE here # {}
  <2>1. PICK n : n = Min(here)
    OBVIOUS
  <2>2. n \in here /\ n \in 1 .. Len(s) /\ Same(s[n], e)
    BY <1>2, <1>3, <1>6, <2>1, MinOfSet
  <2>3. r = RemoveAt(s, n)
    BY <1>4, <1>6, <2>1
  <2>4. /\ r \in Seq(Event) /\ Order(r)
        /\ \A d \in ToSet(r) : \E i \in 1 .. Len(s) : i # n /\ d = s[i]
        /\ Unique(s) => Unique(r)
        /\ n # 1 => r # <<>> /\ Head(r) = Head(s)
    BY <2>2, <2>3, RemovedFacts
  <2>5. ASSUME Unique(s) PROVE \A d \in ToSet(r) : ~Same(d, e)
    <3> SUFFICES ASSUME NEW d \in ToSet(r), Same(d, e) PROVE FALSE
      OBVIOUS
    <3>1. PICK i \in 1 .. Len(s) : i # n /\ d = s[i]
      BY <2>4
    <3>2. Same(s[i], s[n])
      BY <2>2, <3>1 DEF Same
    <3>3. i = n
      BY <1>1, <2>2, <2>5, <3>2 DEF Unique
    <3> QED
      BY <3>1, <3>3
  <2>6. ASSUME s # <<>>, ~Same(Head(s), e) PROVE n # 1
    BY <1>1, <2>2, <2>6
  <2>7. ASSUME s # <<>>, Unique(s), Head(s) \in ToSet(r) PROVE n # 1
    <3>1. PICK i \in 1 .. Len(s) : i # n /\ Head(s) = s[i]
      BY <2>4, <2>7
    <3>2. Same(s[i], s[1]) /\ 1 \in 1 .. Len(s)
      BY <1>1, <2>7, <3>1 DEF Same
    <3>3. i = 1
      BY <1>1, <2>7, <3>2 DEF Unique
    <3> QED
      BY <3>1, <3>3
  <2>8. s # <<>>
    BY <1>1, <2>2
  <2>9. ToSet(r) \subseteq ToSet(s)
    BY <1>1, <2>4
  <2> QED
    BY <2>4, <2>5, <2>6, <2>7, <2>8, <2>9 DEF r
<1>7. CASE here = {} /\ next # {}
  <2>1. PICK n : n = Min(next)
    OBVIOUS
  <2>2. n \in next /\ n \in 1 .. Len(s) /\ s[n].at > e.at
    BY <1>3, <1>5, <1>7, <2>1, MinOfSet
  <2>3. r = RemoveAt(s, n)
    BY <1>4, <1>7, <2>1
  <2>4. /\ r \in Seq(Event) /\ Order(r)
        /\ \A d \in ToSet(r) : \E i \in 1 .. Len(s) : i # n /\ d = s[i]
        /\ Unique(s) => Unique(r)
        /\ n # 1 => r # <<>> /\ Head(r) = Head(s)
    BY <2>2, <2>3, RemovedFacts
  <2>5. \A d \in ToSet(r) : ~Same(d, e)
    BY <1>2, <1>7, <2>4
  <2>6. ASSUME s # <<>>, Head(s).at <= e.at PROVE n # 1
    BY <1>1, <2>2, <2>6
  <2>7. ASSUME s # <<>>, Unique(s), Head(s) \in ToSet(r) PROVE n # 1
    <3>1. PICK i \in 1 .. Len(s) : i # n /\ Head(s) = s[i]
      BY <2>4, <2>7
    <3>2. Same(s[i], s[1]) /\ 1 \in 1 .. Len(s)
      BY <1>1, <2>7, <3>1 DEF Same
    <3>3. i = 1
      BY <1>1, <2>7, <3>2 DEF Unique
    <3> QED
      BY <3>1, <3>3
  <2>8. s # <<>>
    BY <1>1, <2>2
  <2>9. ToSet(r) \subseteq ToSet(s)
    BY <1>1, <2>4
  <2> QED
    BY <2>4, <2>5, <2>6, <2>7, <2>8, <2>9 DEF r
<1>8. CASE here = {} /\ next = {}
  <2>1. r = s
    BY <1>4, <1>8
  <2>2. \A d \in ToSet(s) : ~Same(d, e)
    BY <1>1, <1>2, <1>8
  <2> QED
    BY <1>1, <2>1, <2>2 DEF r
<1> QED
  BY <1>6, <1>7, <1>8

\* OnTimer takes the events that are due and leaves the others.
LEMMA DueFacts ==
    ASSUME NEW s \in Seq(Event), NEW t \in Int, Order(s)
    PROVE  LET first == SubSeq(s, 1, Due(s, t))
               rest == SubSeq(s, Due(s, t) + 1, Len(s))
           IN  /\ first \in Seq(Event) /\ rest \in Seq(Event) /\ Order(rest)
               /\ ToSet(first) \cup ToSet(rest) \subseteq ToSet(s)
               /\ \A e \in ToSet(first) : e.at <= t
               /\ \A e \in ToSet(rest) : ~(e.at <= t)
               /\ Len(first) + Len(rest) = Len(s)
               /\ Unique(s) => /\ Unique(first) /\ Unique(rest)
                               /\ \A d \in ToSet(first), e \in ToSet(rest) : ~Same(d, e)
<1> DEFINE m == Due(s, t)
           first == SubSeq(s, 1, m)
           rest == SubSeq(s, m + 1, Len(s))
<1>1. /\ Len(s) \in Nat /\ DOMAIN s = 1 .. Len(s)
      /\ \A i \in 1 .. Len(s) : s[i] \in Event /\ s[i].at \in Int /\ s[i] \in ToSet(s)
  BY EventPlaces
<1>2. m \in 0 .. Len(s) /\ \A i \in 1 .. Len(s) : s[i].at <= t <=> i <= m
  BY DueCuts
<1> HIDE DEF m
<1>3. first \in Seq(Event) /\ rest \in Seq(Event) /\ IsCut(first, rest, s, m)
  BY <1>2, CutPlaces
<1> HIDE DEF first, rest
<1>4. /\ Len(first) = m /\ Len(rest) = Len(s) - m
      /\ \A i \in 1 .. m : first[i] = s[i]
      /\ \A i \in 1 .. (Len(s) - m) : rest[i] = s[m + i]
  BY <1>3 DEF IsCut
<1>5. /\ DOMAIN first = 1 .. m /\ DOMAIN rest = 1 .. (Len(s) - m) /\ m \in Nat /\ m <= Len(s)
      /\ \A i \in 1 .. m : i \in 1 .. Len(s) /\ i <= m
      /\ \A i \in 1 .. (Len(s) - m) : m + i \in 1 .. Len(s) /\ ~(m + i <= m)
      /\ \A i, j \in 1 .. (Len(s) - m) : (i < j => m + i < m + j) /\ (m + i = m + j => i = j)
      /\ m + (Len(s) - m) = Len(s)
  BY <1>1, <1>2, <1>3, <1>4
<1>6. /\ \A e \in ToSet(first) : \E i \in 1 .. m : e = s[i]
      /\ \A e \in ToSet(rest) : \E i \in 1 .. (Len(s) - m) : e = s[m + i]
  <2>1. /\ \A e \in ToSet(first) : \E i \in 1 .. m : e = first[i]
        /\ \A e \in ToSet(rest) : \E i \in 1 .. (Len(s) - m) : e = rest[i]
    BY <1>5 DEF ToSet
  <2>2. \A e \in ToSet(first) : \E i \in 1 .. m : e = s[i]
    BY <1>4, <2>1
  <2>3. ASSUME NEW e \in ToSet(rest) PROVE \E i \in 1 .. (Len(s) - m) : e = s[m + i]
    <3>1. PICK i \in 1 .. (Len(s) - m) : e = rest[i]
      BY <2>1
    <3>2. rest[i] = s[m + i]
      BY <1>4
    <3> QED
      BY <3>1, <3>2
  <2> QED
    BY <2>2, <2>3
<1>7. Order(rest)
  <2> SUFFICES ASSUME NEW i \in 1 .. (Len(s) - m), NEW j \in 1 .. (Len(s) - m), i < j
               PROVE  rest[i].at <= rest[j].at
    BY <1>5 DEF Order
  <2>1. m + i < m + j /\ m + i \in DOMAIN s /\ m + j \in DOMAIN s
    BY <1>1, <1>5
  <2>2. rest[i] = s[m + i] /\ rest[j] = s[m + j]
    BY <1>4
  <2> QED
    BY <2>1, <2>2 DEF Order
<1>8. ToSet(first) \cup ToSet(rest) \subseteq ToSet(s)
  BY <1>1, <1>5, <1>6
<1>9. (\A e \in ToSet(first) : e.at <= t) /\ \A e \in ToSet(rest) : ~(e.at <= t)
  BY <1>2, <1>5, <1>6
<1>10. ASSUME Unique(s)
       PROVE  /\ Unique(first) /\ Unique(rest)
              /\ \A d \in ToSet(first), e \in ToSet(rest) : ~Same(d, e)
  <2>1. \A i, j \in 1 .. Len(s) : Same(s[i], s[j]) => i = j
    BY <1>1, <1>10 DEF Unique
  <2>2. Unique(first)
    BY <1>4, <1>5, <2>1 DEF Unique
  <2>3. Unique(rest)
    <3> SUFFICES ASSUME NEW i \in 1 .. (Len(s) - m), NEW j \in 1 .. (Len(s) - m),
                        Same(rest[i], rest[j])
                 PROVE  i = j
      BY <1>5 DEF Unique
    <3>1. Same(s[m + i], s[m + j]) /\ m + i \in 1 .. Len(s) /\ m + j \in 1 .. Len(s)
      BY <1>4, <1>5
    <3>2. m + i = m + j
      BY <2>1, <3>1
    <3> QED
      BY <1>5, <3>2
  <2>4. ASSUME NEW d \in ToSet(first), NEW e \in ToSet(rest), Same(d, e) PROVE FALSE
    <3>1. PICK i \in 1 .. m : d = s[i]
      BY <1>6
    <3>2. PICK j \in 1 .. (Len(s) - m) : e = s[m + j]
      BY <1>6
    <3>3. i = m + j
      BY <1>5, <2>1, <2>4, <3>1, <3>2
    <3> QED
      BY <1>5, <3>3
  <2> QED
    BY <2>2, <2>3, <2>4
<1>11. Len(first) + Len(rest) = Len(s)
  BY <1>4, <1>5
<1> QED
  BY <1>3, <1>7, <1>8, <1>9, <1>10, <1>11 DEF first, rest, m

\* The tail's elements are the others.
LEMMA TailFacts ==
    ASSUME NEW s \in Seq(Event), s # <<>>
    PROVE  /\ Tail(s) \in Seq(Event) /\ Len(Tail(s)) = Len(s) - 1
           /\ ToSet(Tail(s)) \subseteq ToSet(s) /\ Head(s) \in ToSet(s)
           /\ Unique(s) => /\ Unique(Tail(s))
                           /\ \A d \in ToSet(Tail(s)) : ~Same(d, Head(s))
<1> DEFINE r == Tail(s)
<1>1. /\ r \in Seq(Event) /\ Len(r) = Len(s) - 1 /\ Head(s) = s[1] /\ Len(s) \in Nat \ {0}
      /\ \A i \in 1 .. (Len(s) - 1) : r[i] = s[i + 1]
  BY HeadTailProperties
<1>2. /\ DOMAIN s = 1 .. Len(s) /\ DOMAIN r = 1 .. (Len(s) - 1) /\ 1 \in 1 .. Len(s)
      /\ \A i \in 1 .. (Len(s) - 1) : i + 1 \in 1 .. Len(s) /\ i + 1 # 1
      /\ \A i, j \in 1 .. (Len(s) - 1) : i + 1 = j + 1 => i = j
  BY <1>1
<1> HIDE DEF r
<1>3. \A d \in ToSet(r) : \E i \in 1 .. (Len(s) - 1) : d = s[i + 1]
  BY <1>1, <1>2 DEF ToSet
<1>4. ToSet(r) \subseteq ToSet(s) /\ Head(s) \in ToSet(s)
  BY <1>1, <1>2, <1>3 DEF ToSet
<1>5. ASSUME Unique(s) PROVE Unique(r) /\ \A d \in ToSet(r) : ~Same(d, Head(s))
  <2>1. \A i, j \in 1 .. Len(s) : Same(s[i], s[j]) => i = j
    BY <1>2, <1>5 DEF Unique
  <2>2. ASSUME NEW i \in 1 .. (Len(s) - 1), NEW j \in 1 .. (Len(s) - 1), Same(r[i], r[j])
        PROVE  i = j
    <3>1. Same(s[i + 1], s[j + 1])
      BY <1>1, <2>2
    <3> QED
      BY <1>2, <2>1, <3>1
  <2>3. Unique(r)
    BY <1>2, <2>2 DEF Unique
  <2>4. ASSUME NEW d \in ToSet(r), Same(d, Head(s)) PROVE FALSE
    <3>1. PICK i \in 1 .. (Len(s) - 1) : d = s[i + 1]
      BY <1>3
    <3> QED
      BY <1>1, <1>2, <2>1, <2>4, <3>1
  <2> QED
    BY <2>3, <2>4
<1> QED
  BY <1>1, <1>4, <1>5 DEF r

\* A tick takes one off a time, down to the floor.
LEMMA LaterFacts ==
    ASSUME NEW t \in Int
    PROVE  /\ Later(t) \in Int
           /\ t >= Floor => Later(t) >= Floor
           /\ t <= 0 => Later(t) <= 0
           /\ \A u \in Int : t >= Floor /\ t <= u => Later(t) <= Later(u)
<1>1. \A u \in Int : Max({Floor, u - 1}) = IF u - 1 > Floor THEN u - 1 ELSE Floor
  BY DEF Max, Floor
<1> QED
  BY <1>1 DEF Later, Floor, Never

\* The events after a tick.
LEMMA TickFacts ==
    ASSUME NEW s \in Seq(Event), Order(s), \A e \in ToSet(s) : e.at >= Floor
    PROVE  LET r == [i \in DOMAIN s |-> [s[i] EXCEPT !.at = Later(@)]]
           IN  /\ r \in Seq(Event) /\ Len(r) = Len(s) /\ Order(r)
               /\ \A e \in ToSet(r) : \E d \in ToSet(s) : Same(e, d) /\ e.at = Later(d.at)
               /\ s # <<>> => /\ r # <<>> /\ Head(r).at = Later(Head(s).at)
                              /\ Same(Head(r), Head(s))
               /\ Unique(s) => Unique(r)
<1> DEFINE r == [i \in DOMAIN s |-> [s[i] EXCEPT !.at = Later(@)]]
<1>1. /\ Len(s) \in Nat /\ DOMAIN s = 1 .. Len(s)
      /\ \A i \in 1 .. Len(s) : s[i] \in Event /\ s[i].at \in Int /\ s[i] \in ToSet(s)
  BY EventPlaces
<1>2. \A d \in Event : d.at \in Int /\ Later(d.at) \in Int
  BY LaterFacts DEF Event
<1>3. ASSUME NEW d \in Event
      PROVE  LET e == [d EXCEPT !.at = Later(@)]
             IN  e \in Event /\ e.at = Later(d.at) /\ Same(e, d)
  BY <1>2 DEF Event, Same
<1>4. \A i \in 1 .. Len(s) : r[i] \in Event /\ r[i].at = Later(s[i].at) /\ Same(r[i], s[i])
  BY <1>1, <1>3
<1>5. r \in Seq(Event) /\ Len(r) = Len(s) /\ DOMAIN r = 1 .. Len(s)
  <2>1. \A n \in Nat : \A f \in [1 .. n -> Event] : f \in Seq(Event) /\ Len(f) = n
    OBVIOUS
  <2>2. r \in [1 .. Len(s) -> Event]
    BY <1>1, <1>4
  <2> HIDE DEF r
  <2> QED
    BY <1>1, <2>1, <2>2
<1> HIDE DEF r
<1>6. Order(r)
  <2>1. \A i \in 1 .. Len(s) : s[i].at >= Floor
    BY <1>1
  <2> SUFFICES ASSUME NEW i \in 1 .. Len(s), NEW j \in 1 .. Len(s), i < j
               PROVE  r[i].at <= r[j].at
    BY <1>5 DEF Order
  <2>2. s[i].at <= s[j].at
    BY <1>1 DEF Order
  <2> QED
    BY <1>1, <1>4, <2>1, <2>2, LaterFacts
<1>7. \A e \in ToSet(r) : \E d \in ToSet(s) : Same(e, d) /\ e.at = Later(d.at)
  <2>1. \A e \in ToSet(r) : \E i \in 1 .. Len(s) : e = r[i]
    BY <1>5 DEF ToSet
  <2> QED
    BY <1>1, <1>4, <2>1
<1>8. ASSUME s # <<>> PROVE r # <<>> /\ Head(r).at = Later(Head(s).at) /\ Same(Head(r), Head(s))
  <2>1. Len(s) >= 1 /\ Head(s) = s[1] /\ 1 \in 1 .. Len(s)
    BY <1>1, <1>8
  <2>2. r # <<>> /\ Head(r) = r[1]
    BY <1>5, <2>1
  <2> QED
    BY <1>4, <2>1, <2>2
<1>9. ASSUME Unique(s) PROVE Unique(r)
  <2> SUFFICES ASSUME NEW i \in 1 .. Len(s), NEW j \in 1 .. Len(s), Same(r[i], r[j])
               PROVE  i = j
    BY <1>5 DEF Unique
  <2>1. Same(s[i], s[j])
    BY <1>4 DEF Same
  <2> QED
    BY <1>1, <1>9, <2>1 DEF Unique
<1> QED
  BY <1>5, <1>6, <1>7, <1>8, <1>9 DEF r

----------------------------------------------------------------------------
(* The invariant: what holds under any faults.                             *)

Pcs == {"idle", "select", "connect", "connecting", "send", "recv", "receiving", "sending",
        "abandoned", "crashed"}

CallType == [pc : Pcs, calls : Nat, retry : Nat, addr : Addrs, fd : Fds \cup {NoFd},
             connFd : Fds \cup {NoFd}, left : Int, connectAt : Int,
             isTimeout : BOOLEAN, overTime : BOOLEAN, result : {"none", "ok", "timeout"}]

SocketType == [state : {"none", "fresh", "syn", "up", "refused", "closed"},
               owner : Callers \cup {NoCaller}, asked : SUBSET Callers, answered : SUBSET Callers]

\* TypeOK, and the variables it says nothing of.
TypeInv ==
    /\ TypeOK
    /\ faults \in FaultSets
    /\ sock \in [Fds -> SocketType]
    /\ watch \in [Fds -> {"none", "READ", "WRITE"}]
    /\ cor \in [Fds -> Callers \cup {NoCaller}]
    /\ call \in [Callers -> CallType]
    /\ armed \in Int
    /\ \A e \in ToSet(pending) : e.at >= Floor

\* Who has made a socket remembers its number, and one that connects has one.
BaseInv ==
    /\ \A c \in Callers :
        /\ call[c].pc \in {"idle", "select"} <=> call[c].fd = NoFd
        /\ call[c].pc \notin {"idle", "select"} => call[c].connFd \in Fds
        /\ call[c].pc = "connect" =>
              running = c /\ sock[call[c].fd].owner = c /\ sock[call[c].fd].state = "fresh"
        /\ call[c].pc # "idle" => call[c].result = "none" /\ call[c].left >= Floor
        /\ call[c].pc = "connecting" => call[c].connectAt >= Floor
    /\ \A f \in Fds : sock[f].state # "none" =>
          sock[f].owner \in Callers /\ call[sock[f].owner].fd = f

----------------------------------------------------------------------------
(* The invariant: sockets, under one fault.                                *)

Single == Cardinality(faults) = 1

\* Without overlap one caller is in a call, and its number is the lowest.
Alone == "overlap" \notin faults =>
    /\ \A c, d \in Callers : call[c].pc # "idle" /\ call[d].pc # "idle" => c = d
    /\ \A c \in Callers : \A g \in Fds : call[c].fd <= g

\* What the socket of a caller is when it uses it.
Uses(c, state, pcs) ==
    call[c].pc \in pcs =>
        /\ call[c].connFd = call[c].fd
        /\ sock[call[c].fd].owner = c /\ sock[call[c].fd].state \in state

Place(c) ==
    /\ running = c => call[c].pc # "idle"
    /\ call[c].pc \in {"select", "connect", "send", "recv"} => running = c
    /\ Uses(c, {"fresh"}, {"connect"})
    /\ Uses(c, {"syn", "up", "refused", "closed"}, {"connecting"})
    /\ Uses(c, {"up", "closed"}, {"send", "recv", "receiving"})
    /\ Uses(c, {"closed"}, {"sending"})
    /\ call[c].pc = "abandoned" => "overlap" \notin faults /\ \A f \in Fds : sock[f].state = "none"
    /\ call[c].pc = "crashed" => crashed # "no"

SocketPlace(f) ==
    /\ sock[f].state = "closed" => "peerCloses" \in faults
    /\ sock[f].asked \cup sock[f].answered \subseteq {sock[f].owner}

Places == (\A c \in Callers : Place(c)) /\ (\A f \in Fds : SocketPlace(f))

\* The coroutine of an FdEvent waits there.
Cors ==
    \A f \in Fds, c \in Callers : cor[f] = c =>
        /\ call[c].fd = f /\ call[c].pc \in {"connecting", "receiving"}
        /\ call[c].pc = "connecting" => watch[f] # "READ"
        /\ call[c].pc = "receiving" => watch[f] # "WRITE"

\* What a caller that waits at f waits for has come.
Come(f, c) ==
    /\ running # c
    /\ call[c].pc = "connecting" => sock[f].state \in {"up", "refused", "closed"}
    /\ call[c].pc = "receiving" => sock[f].answered # {} \/ sock[f].state = "closed"

\* Without batches the thread handles one thing at a time.
Queued == "batched" \notin faults =>
    /\ Len(queue) <= 1 /\ Len(batch) <= 1
    /\ queue # <<>> => batch = <<>> /\ tasks = <<>>
    /\ batch # <<>> => tasks = <<>> /\ running = NoCaller
    /\ \A f \in Fds : queue # <<>> /\ Head(queue) = f => cor[f] # NoCaller
    /\ \A f \in Fds, c \in Callers :
        (queue # <<>> /\ Head(queue) = f) \/ (batch # <<>> /\ Head(batch) = f) =>
            (cor[f] = c => Come(f, c))
    /\ crashed # "null coroutine"

----------------------------------------------------------------------------
(* The invariant: time-outs, when events are not batched and connections   *)
(* are not slow.                                                           *)

Prompt == "batched" \notin faults /\ "connectSlow" \notin faults

\* Why a caller has been resumed.
Woken(c) ==
    /\ running = c /\ call[c].pc = "connecting" =>
          sock[call[c].fd].state \in {"up", "refused", "closed"}
    /\ running = c /\ call[c].pc = "receiving" =>
          call[c].overTime \/ sock[call[c].fd].answered # {} \/ sock[call[c].fd].state = "closed"
    /\ running = c /\ call[c].pc \in {"sending", "abandoned"} => call[c].overTime
    /\ call[c].pc = "connecting" /\ running # c =>
          watch[call[c].fd] = "WRITE" \/ (queue # <<>> /\ Head(queue) = call[c].fd)
    /\ call[c].pc \in {"select", "connect", "connecting"} => call[c].left = Timeout
    /\ tasks # <<>> /\ running = c =>
          call[c].overTime /\ call[c].pc \in {"receiving", "sending", "abandoned"}
    /\ call[c].overTime /\ call[c].pc \notin {"idle", "select", "crashed"} =>
          /\ running = c /\ call[c].pc \in {"receiving", "sending", "abandoned"}
          /\ call[c].left <= 0
          /\ \A e \in ToSet(pending) \cup ToSet(tasks) : e.caller # c

Resumes == \A c \in Callers : Woken(c)

\* Every event is of an attempt that goes on.
PendingOf(c) ==
    \A e \in ToSet(pending) : e.caller = c =>
        /\ call[c].pc \notin {"idle", "select"} /\ e.frame = Frame(c)
        /\ e.kind = "connect" => call[c].pc = "connecting" /\ e.at = ConnectTimeout
        /\ e.kind = "call" => e.at = call[c].left

TasksOf(c) ==
    \A e \in ToSet(tasks) : e.caller = c =>
        /\ e.kind = "call" /\ e.frame = Frame(c)
        /\ call[c].pc \in {"receiving", "sending", "abandoned"}
        /\ call[c].left <= 0 /\ running # c
        /\ \A d \in ToSet(pending) : ~Same(d, e)

EventsLive ==
    /\ \A c \in Callers : PendingOf(c) /\ TasksOf(c)
    /\ Unique(pending) /\ Unique(tasks)

PromptInv == Prompt => Resumes /\ EventsLive

----------------------------------------------------------------------------
(* The invariant: time-outs, when events are batched or connections are    *)
(* slow.  An event may then outlive its attempt, but only behind the       *)
(* timerfd: that is never armed again.                                     *)

Live(e) == call[e.caller].pc \notin {"idle", "select"} /\ e.frame = Frame(e.caller)

Dead == armed = Never /\ TimerFd \notin ToSet(batch)

\* No event is of an attempt to come.
Older ==
    \A e \in ToSet(pending) \cup ToSet(tasks) : \A c \in Callers : e.caller = c =>
        /\ e.frame[1] <= call[c].calls
        /\ call[c].pc # "idle" /\ e.frame[1] = call[c].calls => e.frame[2] <= call[c].retry
        /\ call[c].pc = "select" => e.frame # Frame(c)

\* The timer begins with an event of an attempt that has ended.
StaleFirst ==
    \E h \in Event :
        /\ pending # <<>> /\ h = Head(pending) /\ h.kind = "call" /\ ~Live(h) /\ h.at <= 0
        /\ \A c \in Callers : call[c].pc # "idle" =>
              h.at <= call[c].left /\ (call[c].pc = "connecting" => h.at <= call[c].connectAt)

\* The timer begins with the time-out of an attempt of c that goes on.
LiveFirst(c) ==
    \E h \in Event :
        /\ pending # <<>> /\ h = Head(pending) /\ h.kind = "call" /\ h.caller = c
        /\ Live(h) /\ h.at <= 0

SlowPending ==
    /\ IsInjective(batch) /\ Unique(pending)
    /\ \A e \in ToSet(pending) : \A c \in Callers : e.caller = c =>
        /\ e.kind = "connect" => Live(e) /\ call[c].pc = "connecting"
        /\ e.kind = "call" /\ Live(e) => e.at = call[c].left
    /\ (\E e \in ToSet(pending) : e.kind = "call" /\ ~Live(e)) => StaleFirst /\ Dead /\ tasks = <<>>

\* A time-out that is about to run: the call has ended, the attempt goes on, or
\* a later attempt of the call is behind a dead timer.
Goes(e, c) ==
    \/ call[c].pc \in {"idle", "crashed"}
    \/ /\ e.frame = Frame(c)
       /\ \A d \in ToSet(pending) : ~(d.kind = "call" /\ d.caller = c)
       /\ running = c => pending = <<>> /\ Dead
    \/ /\ e.frame # Frame(c) /\ Dead
       /\ call[c].pc = "connecting" => running # c
       /\ (call[c].pc = "select" /\ pending = <<>>) \/ (call[c].pc # "select" /\ LiveFirst(c))

SlowTasks ==
    /\ Unique(tasks) /\ Len(tasks) <= 2
    /\ \A e, d \in ToSet(tasks) : e.caller = d.caller
    /\ \A e \in ToSet(tasks) : \A c \in Callers : e.caller = c =>
        /\ e.kind = "connect" => call[c].pc # "abandoned"
        /\ e.kind = "call" /\ call[c].pc # "idle" => call[c].left <= 0
        /\ e.kind = "call" /\ call[c].pc = "abandoned" => e.frame = Frame(c)
        /\ e.kind = "call" => Goes(e, c)
        /\ Len(tasks) = 2 => Live(e) /\ call[c].pc = "connecting" /\ ~call[c].overTime
    /\ Len(tasks) = 2 => running = NoCaller /\ pending = <<>> /\ Dead
    /\ \A c \in Callers : running = c /\ tasks # <<>> =>
          call[c].pc \in {"connecting", "select", "connect", "send", "recv", "crashed"}
    /\ \A c \in Callers : running = c /\ call[c].pc = "abandoned" => call[c].overTime

\* A caller whose flag is set has no time left, and its time-out will not fire.
SlowOver ==
    \A c \in Callers : call[c].overTime /\ call[c].pc \notin {"idle", "select"} =>
        /\ call[c].left <= 0
        /\ (\E e \in ToSet(pending) : e.kind = "call" /\ e.caller = c /\ Live(e)) =>
              Dead /\ tasks = <<>> /\ LiveFirst(c)

SlowInv == ~Prompt => Older /\ SlowPending /\ SlowTasks /\ SlowOver

\* What the properties need.
RpcInv ==
    /\ TypeInv /\ BaseInv
    /\ Single => Alone /\ Places /\ Cors /\ Queued /\ PromptInv /\ SlowInv

----------------------------------------------------------------------------
(* Facts about states that satisfy it.                                     *)

\* One fault is there and no other.
LEMMA SingleIs ==
    ASSUME TypeInv, Single
    PROVE  \E f \in Faults : faults = {f}
<1>1. faults \subseteq Faults
  BY RpcCallAssumption DEF TypeInv
<1>2. IsFiniteSet(Faults)
  <2>1. IsFiniteSet({"overlap"})
    BY FS_Singleton
  <2>2. IsFiniteSet({"overlap"} \cup {"connectSlow"})
    BY <2>1, FS_AddElement
  <2>3. IsFiniteSet(({"overlap"} \cup {"connectSlow"}) \cup {"peerCloses"})
    BY <2>2, FS_AddElement
  <2>4. IsFiniteSet((({"overlap"} \cup {"connectSlow"}) \cup {"peerCloses"}) \cup {"batched"})
    BY <2>3, FS_AddElement
  <2>5. (({"overlap"} \cup {"connectSlow"}) \cup {"peerCloses"}) \cup {"batched"} = Faults
    BY DEF Faults
  <2> QED
    BY <2>4, <2>5
<1>3. IsFiniteSet(faults)
  BY <1>1, <1>2, FS_Subset
<1> QED
  BY <1>1, <1>3, FS_Singleton DEF Single

\* The cases that the parts of the invariant distinguish.
LEMMA FaultCases ==
    ASSUME TypeInv, Single
    PROVE  /\ Prompt => "batched" \notin faults
           /\ Prompt /\ "overlap" \notin faults => "peerCloses" \in faults
           /\ ~Prompt => "overlap" \notin faults /\ "peerCloses" \notin faults
           /\ "peerCloses" \in faults => "overlap" \notin faults
BY SingleIs DEF Prompt, Faults

\* socket() takes a free number, the lowest.
LEMMA LowestIs ==
    ASSUME NEW s, \E f \in Fds : s[f].state = "none"
    PROVE  /\ Lowest(s) \in Fds /\ s[Lowest(s)].state = "none"
           /\ \A g \in Fds : s[g].state = "none" => Lowest(s) <= g
<1> DEFINE T == {f \in Fds : s[f].state = "none"}
<1>1. T \in SUBSET Nat /\ T # {}
  BY RpcCallAssumption
<1>2. Min(T) \in T /\ \A g \in T : Min(T) <= g
  <2> HIDE DEF T
  <2> QED
    BY <1>1, MinOfSet
<1>3. Lowest(s) = Min(T)
  BY DEF Lowest
<1> HIDE DEF Lowest
<1> QED
  BY <1>2, <1>3

\* A caller without a number finds a free one: the others have one each.
LEMMA SomeFree ==
    ASSUME TypeInv, BaseInv, NEW c \in Callers, call[c].fd = NoFd
    PROVE  \E f \in Fds : sock[f].state = "none"
<1> SUFFICES ASSUME \A f \in Fds : sock[f].state # "none" PROVE FALSE
  OBVIOUS
<1> DEFINE T == Callers \ {c}
           owner == [f \in Fds |-> sock[f].owner]
<1>1. NoFd \notin Fds
  BY RpcCallAssumption DEF NoFd
<1>2. \A f \in Fds : sock[f].owner \in Callers /\ call[sock[f].owner].fd = f
  BY DEF BaseInv
<1>3. owner \in [Fds -> T]
  BY <1>1, <1>2
<1>4. IsFiniteSet(Callers) /\ IsFiniteSet(Fds) /\ Cardinality(Callers) <= Cardinality(Fds)
  BY RpcCallAssumption
<1>5. IsFiniteSet(T) /\ Cardinality(T) = Cardinality(Callers) - 1
  BY <1>4, FS_RemoveElement
<1>6. Cardinality(T) < Cardinality(Fds)
  <2>1. Cardinality(Callers) \in Nat /\ Cardinality(Fds) \in Nat
    BY <1>4, FS_CardinalityType
  <2> HIDE DEF T
  <2> QED
    BY <1>4, <1>5, <2>1
<1>7. PICK x, y \in Fds : x # y /\ owner[x] = owner[y]
  <2> HIDE DEF T, owner
  <2> QED
    BY <1>3, <1>4, <1>5, <1>6, FS_PigeonHole
<1> QED
  BY <1>2, <1>7

\* A descriptor number is a number.
LEMMA NumbersAre ==
    /\ NoFd \in Int /\ TimerFd \in Int /\ NoFd \notin Fds /\ TimerFd \notin Fds
    /\ \A f \in Fds : f \in Int /\ f >= 1
BY RpcCallAssumption DEF NoFd, TimerFd

\* A caller in an attempt has a number.
LEMMA FdIs ==
    ASSUME TypeInv, BaseInv
    PROVE  \A d \in Callers : call[d].pc \notin {"idle", "select"} =>
              call[d].fd \in Fds /\ call[d].connFd \in Fds
BY DEF TypeInv, BaseInv, CallType

\* What an event is made of.
LEMMA EventParts ==
    ASSUME TypeInv
    PROVE  \A e \in ToSet(pending) \cup ToSet(tasks) :
              /\ e \in Event /\ e.caller \in Callers /\ e.at \in Int /\ e.kind \in {"call", "connect"}
              /\ e.frame[1] \in Nat /\ e.frame[2] \in Nat
              /\ \A x, y : e.frame = <<x, y>> <=> e.frame[1] = x /\ e.frame[2] = y
<1>1. pending \in Seq(Event) /\ tasks \in Seq(Event)
  BY DEF TypeInv, TypeOK
<1>2. \A e \in ToSet(pending) \cup ToSet(tasks) : e \in Event
  BY <1>1, EventPlaces
<1> QED
  BY <1>2 DEF Event

\* The timerfd is armed for a number, and not for events that are due.
LEMMA ArmedFacts ==
    ASSUME armed \in Int, NEW s \in Seq(Event), s # <<>>
    PROVE  /\ Armed(s) \in Int
           /\ armed = Never /\ (\A e \in ToSet(s) : e.at <= 0) => Armed(s) = Never
<1>1. Last(s) \in ToSet(s)
  <2>1. Len(s) \in 1 .. Len(s) /\ DOMAIN s = 1 .. Len(s)
    BY EventPlaces
  <2> QED
    BY <2>1 DEF Last, ToSet
<1>2. Last(s).at \in Int
  BY <1>1, EventPlaces
<1> QED
  BY <1>1, <1>2 DEF Armed, Never

\* What AddTimerEvent does.
LEMMA AddFacts ==
    ASSUME TypeInv, NEW e \in Event, e.at >= Floor, AddTimerEvent(e)
    PROVE  /\ pending' \in Seq(Event) /\ Order(pending)' /\ pending' # <<>> /\ armed' \in Int
           /\ ToSet(pending)' = ToSet(pending) \cup {e}
           /\ \A d \in ToSet(pending)' : d.at >= Floor
           /\ Unique(pending) /\ (\A d \in ToSet(pending) : ~Same(d, e)) => Unique(pending)'
           /\ pending # <<>> /\ Head(pending).at <= e.at =>
                 Head(pending') = Head(pending) /\ armed' = armed
           /\ pending = <<>> =>
                 Head(pending') = e /\ (armed = Never /\ e.at <= 0 => armed' = Never)
<1>1. /\ pending \in Seq(Event) /\ Order(pending) /\ armed \in Int
      /\ \A d \in ToSet(pending) : d.at >= Floor
  BY DEF TypeInv, TypeOK, Order
<1>2. /\ pending' = Inserted(pending, e)
      /\ armed' = IF pending = <<>> \/ e.at < Head(pending).at THEN Armed(pending') ELSE armed
  BY DEF AddTimerEvent
<1> DEFINE r == Inserted(pending, e)
<1>3. /\ r \in Seq(Event) /\ Order(r) /\ r # <<>> /\ ToSet(r) = ToSet(pending) \cup {e}
      /\ Unique(pending) /\ (\A d \in ToSet(pending) : ~Same(d, e)) => Unique(r)
      /\ pending = <<>> => Head(r) = e
      /\ pending # <<>> /\ Head(pending).at <= e.at => Head(r) = Head(pending)
  BY <1>1, InsertedFacts
<1> HIDE DEF r
<1>4. Armed(r) \in Int /\ (armed = Never /\ (\A d \in ToSet(r) : d.at <= 0) => Armed(r) = Never)
  BY <1>1, <1>3, ArmedFacts
<1>5. e.at \in Int /\ (pending # <<>> => Head(pending).at \in Int)
  BY <1>1, EventPlaces DEF Event
<1>6. pending = <<>> => ToSet(pending) = {}
  BY EmptyElements
<1>7. pending' = r
  BY <1>2 DEF r
<1>8. armed' \in Int
  BY <1>1, <1>2, <1>4, <1>7
<1>9. ASSUME pending # <<>>, Head(pending).at <= e.at PROVE armed' = armed
  BY <1>2, <1>5, <1>9
<1>10. ASSUME pending = <<>>, armed = Never, e.at <= 0 PROVE armed' = Never
  BY <1>2, <1>3, <1>4, <1>6, <1>7, <1>10
<1>11. \A d \in ToSet(r) : d.at >= Floor
  BY <1>1, <1>3
<1> QED
  BY <1>3, <1>7, <1>8, <1>9, <1>10, <1>11

\* What DelTimerEvent does.
LEMMA DeleteFacts ==
    ASSUME TypeInv, NEW e \in Event, pending' = Without(pending, e)
    PROVE  /\ pending' \in Seq(Event) /\ Order(pending)'
           /\ ToSet(pending)' \subseteq ToSet(pending)
           /\ \A d \in ToSet(pending)' : d.at >= Floor
           /\ pending = <<>> => pending' = <<>>
           /\ Unique(pending) => Unique(pending)' /\ \A d \in ToSet(pending)' : ~Same(d, e)
           /\ pending # <<>> /\ Head(pending).at <= e.at /\ ~Same(Head(pending), e) =>
                 pending' # <<>> /\ Head(pending') = Head(pending)
           /\ Unique(pending) /\ pending # <<>> /\ Head(pending) \in ToSet(pending)' =>
                 pending' # <<>> /\ Head(pending') = Head(pending)
<1>1. /\ pending \in Seq(Event) /\ Order(pending)
      /\ \A d \in ToSet(pending) : d.at >= Floor
  BY DEF TypeInv, TypeOK, Order
<1> DEFINE r == Without(pending, e)
<1>2. /\ r \in Seq(Event) /\ Order(r) /\ ToSet(r) \subseteq ToSet(pending)
      /\ pending = <<>> => r = <<>>
      /\ Unique(pending) => Unique(r) /\ \A d \in ToSet(r) : ~Same(d, e)
      /\ pending # <<>> /\ Head(pending).at <= e.at /\ ~Same(Head(pending), e) =>
            r # <<>> /\ Head(r) = Head(pending)
      /\ Unique(pending) /\ pending # <<>> /\ Head(pending) \in ToSet(r) =>
            r # <<>> /\ Head(r) = Head(pending)
  BY <1>1, WithoutFacts
<1> HIDE DEF r
<1>3. pending' = r
  BY DEF r
<1>4. \A d \in ToSet(r) : d.at >= Floor
  BY <1>1, <1>2
<1> QED
  BY <1>2, <1>3, <1>4

\* The time-out event of a caller's attempt.
LEMMA CallEventIs ==
    ASSUME TypeInv, NEW c \in Callers
    PROVE  /\ CallEvent(c) \in Event /\ CallEvent(c).kind = "call" /\ CallEvent(c).caller = c
           /\ CallEvent(c).frame = Frame(c) /\ CallEvent(c).at = call[c].left
<1>1. call[c].calls \in Nat /\ call[c].retry \in Nat /\ call[c].left \in Int
  BY DEF TypeInv, CallType
<1> QED
  BY <1>1 DEF CallEvent, Event, Frame

\* And that of its connection.
LEMMA ConnectEventIs ==
    ASSUME TypeInv, NEW c \in Callers, NEW t \in Int
    PROVE  /\ ConnectEvent(c, t) \in Event /\ ConnectEvent(c, t).kind = "connect"
           /\ ConnectEvent(c, t).caller = c /\ ConnectEvent(c, t).frame = Frame(c)
           /\ ConnectEvent(c, t).at = t
<1>1. call[c].calls \in Nat /\ call[c].retry \in Nat
  BY DEF TypeInv, CallType
<1> QED
  BY <1>1 DEF ConnectEvent, Event, Frame

----------------------------------------------------------------------------
(* The steps.                                                              *)

\* Initially.
LEMMA InitInv == Init => RpcInv
<1> SUFFICES ASSUME Init PROVE RpcInv
  OBVIOUS
<1>1. Addrs # {} /\ (CHOOSE a \in Addrs : TRUE) \in Addrs
  BY RpcCallAssumption
<1>2. NoCall \in CallType
  BY <1>1 DEF NoCall, CallType, Pcs, Never
<1>3. Closed \in SocketType
  BY DEF Closed, SocketType
<1>4. call = [c \in Callers |-> NoCall] /\ sock = [f \in Fds |-> Closed]
  BY DEF Init
<1>5. NoCall.pc = "idle" /\ NoCall.fd = NoFd /\ NoCall.overTime = FALSE
  BY DEF NoCall
<1>6. Closed.state = "none" /\ Closed.asked = {} /\ Closed.answered = {}
  BY DEF Closed
<1>7. pending = <<>> /\ tasks = <<>> /\ batch = <<>> /\ queue = <<>> /\ running = NoCaller
      /\ crashed = "no" /\ armed = Never /\ addrs = Addrs /\ faults \in FaultSets
      /\ watch = [f \in Fds |-> "none"] /\ cor = [f \in Fds |-> NoCaller]
  BY DEF Init
<1>8. ToSet(pending) = {} /\ ToSet(tasks) = {} /\ IsInjective(batch)
  BY <1>7, EmptyElements
<1>9. DOMAIN pending = {} /\ DOMAIN tasks = {} /\ Len(tasks) = 0
  BY <1>7
<1> HIDE DEF NoCall, Closed
<1>10. TypeOK
  BY <1>3, <1>4, <1>6, <1>7, <1>9 DEF TypeOK, SocketType
<1>11. TypeInv
  BY <1>2, <1>3, <1>4, <1>7, <1>8, <1>10 DEF TypeInv, Never
<1>12. BaseInv
  BY <1>4, <1>5, <1>6 DEF BaseInv
<1>13. Alone
  BY <1>4, <1>5, NumbersAre DEF Alone, NoFd
<1>14. Places
  BY <1>4, <1>5, <1>6, <1>7, RpcCallAssumption DEF Places, Place, SocketPlace, Uses
<1>15. Cors
  BY <1>7, RpcCallAssumption DEF Cors
<1>16. Queued
  BY <1>7 DEF Queued
<1>17. PromptInv
  BY <1>4, <1>5, <1>7, <1>8, <1>9 DEF PromptInv, Resumes, Woken, EventsLive, PendingOf, TasksOf, Unique
<1>18. SlowInv
  BY <1>4, <1>5, <1>7, <1>8, <1>9, RpcCallAssumption
     DEF SlowInv, Older, SlowPending, SlowTasks, SlowOver, Unique
<1> QED
  BY <1>11, <1>12, <1>13, <1>14, <1>15, <1>16, <1>17, <1>18 DEF RpcInv

\* A call begins.
LEMMA BeginKeeps ==
    ASSUME RpcInv, crashed = "no", UNCHANGED faults, NEW c \in Callers, Begin(c)
    PROVE  RpcInv'
<1> DEFINE r == [call[c] EXCEPT !.pc = "select", !.calls = @ + 1, !.retry = 0,
                                !.left = Timeout, !.result = "none"]
<1>1. /\ TypeInv /\ BaseInv
      /\ Single => Alone /\ Places /\ Cors /\ Queued /\ PromptInv /\ SlowInv
  BY DEF RpcInv
<1>2. /\ running = NoCaller /\ tasks = <<>> /\ batch = <<>> /\ call[c].pc = "idle" /\ running' = c
      /\ "overlap" \in faults \/ \A d \in Callers : call[d].pc = "idle"
      /\ UNCHANGED <<faults, addrs, sock, watch, cor, pending, armed, tasks, batch, queue, crashed>>
  BY DEF Begin, socketVars, timerVars
<1>3. call \in [Callers -> CallType] /\ Timeout \in Int /\ \A d \in Callers : call[d].calls + 1 \in Nat
  BY <1>1, RpcCallAssumption DEF TypeInv, CallType
<1>5. /\ call' \in [Callers -> CallType] /\ \A d \in Callers \ {c} : call'[d] = call[d]
      /\ call'[c].pc = "select" /\ call'[c].calls = call[c].calls + 1 /\ call'[c].retry = 0
      /\ call'[c].left = Timeout /\ call'[c].fd = call[c].fd /\ call'[c].result = "none"
  <2>1. call' = [call EXCEPT ![c].pc = "select", ![c].calls = call[c].calls + 1, ![c].retry = 0,
                             ![c].left = Timeout, ![c].result = "none"]
    BY DEF Begin
  <2> QED
    BY <1>3, <2>1 DEF CallType, Pcs
<1>6. TypeInv'
  BY <1>1, <1>2, <1>5 DEF TypeInv, TypeOK
<1>7. BaseInv'
  BY <1>1, <1>2, <1>5, RpcCallAssumption DEF BaseInv, Floor
<1> SUFFICES ASSUME Single PROVE (Alone /\ Places /\ Cors /\ Queued /\ PromptInv /\ SlowInv)'
  BY <1>2, <1>6, <1>7 DEF RpcInv, Single
<1>8. Alone'
  BY <1>1, <1>2, <1>5 DEF Alone
<1>9. Places'
  BY <1>1, <1>2, <1>5, RpcCallAssumption DEF Places, Place, SocketPlace, Uses
<1>10. Cors'
  BY <1>1, <1>2, <1>5 DEF Cors
<1>11. Queued'
  BY <1>1, <1>2, <1>5, RpcCallAssumption DEF Queued, Come, Cors
<1>12. ASSUME Prompt PROVE Resumes'
  BY <1>1, <1>2, <1>5, <1>12, RpcCallAssumption DEF PromptInv, Resumes, Woken
<1>13. ASSUME Prompt PROVE EventsLive'
  BY <1>1, <1>2, <1>5, <1>13 DEF PromptInv, EventsLive, PendingOf, TasksOf, Frame
<1>14. ASSUME ~Prompt
       PROVE  (Older /\ SlowPending /\ SlowTasks /\ SlowOver)'
  <2>1. Older /\ SlowPending /\ \A d \in Callers : call[d].pc = "idle"
    BY <1>1, <1>2, <1>14, FaultCases DEF SlowInv
  <2>2. \A e \in ToSet(pending) \cup ToSet(tasks) :
          /\ e.caller \in Callers /\ e.frame[1] \in Nat /\ e.kind \in {"call", "connect"}
          /\ \A x, y : e.frame = <<x, y>> <=> e.frame[1] = x /\ e.frame[2] = y
    BY <1>1, EventParts
  <2>3. \A e \in ToSet(pending) \cup ToSet(tasks) : e.frame[1] <= call[e.caller].calls
    BY <2>1, <2>2 DEF Older
  <2>4. \A d \in Callers : call[d].calls \in Nat
    BY <1>3 DEF CallType
  <2>5. \A e \in ToSet(pending) \cup ToSet(tasks) : e.caller = c => e.frame[1] < call'[c].calls
    BY <1>5, <2>2, <2>3, <2>4
  <2>6. Older'
    <3> SUFFICES ASSUME NEW e \in ToSet(pending) \cup ToSet(tasks), NEW d \in Callers, e.caller = d
                 PROVE  /\ e.frame[1] <= call'[d].calls
                        /\ call'[d].pc # "idle" /\ e.frame[1] = call'[d].calls =>
                              e.frame[2] <= call'[d].retry
                        /\ call'[d].pc = "select" => e.frame # <<call'[d].calls, call'[d].retry>>
      BY <1>2 DEF Older, Frame
    <3>1. CASE d = c
      <4>1. e.frame[1] \in Nat /\ call'[c].calls \in Nat /\ e.frame[1] < call'[c].calls
        BY <1>5, <2>2, <2>4, <2>5, <3>1
      <4> QED
        BY <2>2, <3>1, <4>1
    <3>2. CASE d # c
      BY <1>5, <2>1, <2>3, <3>2
    <3> QED
      BY <3>1, <3>2
  <2>7. \A e \in ToSet(pending) : ~Live(e) /\ ~Live(e)' /\ e.kind = "call"
    BY <1>5, <2>1, <2>2, <2>5 DEF Live, Frame, SlowPending
  <2>8. SlowPending'
    <3>1. ASSUME NEW e \in ToSet(pending) PROVE StaleFirst' /\ Dead' /\ tasks' = <<>>
      <4>1. StaleFirst /\ Dead
        BY <2>1, <2>7 DEF SlowPending
      <4>2. PICK h \in Event : pending # <<>> /\ h = Head(pending) /\ h.kind = "call" /\ h.at <= 0
        BY <4>1 DEF StaleFirst
      <4>3. h \in ToSet(pending) /\ h.at \in Int
        <5>1. pending \in Seq(Event)
          BY <1>1 DEF TypeInv, TypeOK
        <5> QED
          BY <4>2, <5>1, EventPlaces
      <4>4. h.at <= Timeout
        BY <4>2, <4>3, RpcCallAssumption
      <4> QED
        BY <1>2, <1>5, <2>1, <2>7, <4>1, <4>2, <4>3, <4>4 DEF StaleFirst, Dead
    <3> QED
      BY <1>2, <2>1, <2>7, <3>1 DEF SlowPending
  <2>9. SlowTasks'
    BY <1>2, <1>5, EmptyElements DEF SlowTasks, Unique
  <2>10. SlowOver'
    BY <1>5, <2>1 DEF SlowOver
  <2> QED
    BY <2>6, <2>8, <2>9, <2>10
<1> QED
  BY <1>2, <1>8, <1>9, <1>10, <1>11, <1>12, <1>13, <1>14 DEF PromptInv, SlowInv, Prompt

\* An attempt begins: an address, a socket and the time-out event.
LEMMA SelectKeeps ==
    ASSUME RpcInv, crashed = "no", UNCHANGED faults, NEW c \in Callers, Select(c)
    PROVE  RpcInv'
<1>0. PICK f, e : f = Lowest(sock) /\ e = CallEvent(c)
  OBVIOUS
<1>1. /\ TypeInv /\ BaseInv
      /\ Single => Alone /\ Places /\ Cors /\ Queued /\ PromptInv /\ SlowInv
  BY DEF RpcInv
<1>2. /\ running = c /\ call[c].pc = "select" /\ addrs' \subseteq Addrs
      /\ AddTimerEvent(e) /\ sock' = [sock EXCEPT ![f] = Fresh(c)]
      /\ UNCHANGED <<faults, watch, cor, tasks, batch, queue, running, crashed>>
  BY <1>0, <1>1 DEF Select, loopVars, TypeInv, TypeOK
<1>3. PICK a \in Addrs :
          call' = [call EXCEPT ![c] = [call[c] EXCEPT !.pc = "connect", !.addr = a, !.fd = f,
                                       !.connFd = f, !.isTimeout = FALSE, !.overTime = FALSE]]
  BY <1>0, <1>2 DEF Select
<1>4. call[c].fd = NoFd /\ call[c].left \in Int /\ call[c].left >= Floor
  BY <1>1, <1>2 DEF BaseInv, TypeInv, CallType
<1>5. f \in Fds /\ sock[f].state = "none" /\ \A g \in Fds : sock[g].state = "none" => f <= g
  BY <1>0, <1>1, <1>4, SomeFree, LowestIs
<1>6. e \in Event /\ e.kind = "call" /\ e.caller = c /\ e.frame = Frame(c) /\ e.at = call[c].left
  BY <1>0, <1>1, CallEventIs
<1>7. /\ pending' \in Seq(Event) /\ Order(pending)' /\ pending' # <<>> /\ armed' \in Int
      /\ ToSet(pending)' = ToSet(pending) \cup {e}
      /\ \A d \in ToSet(pending)' : d.at >= Floor
      /\ Unique(pending) /\ (\A d \in ToSet(pending) : ~Same(d, e)) => Unique(pending)'
      /\ pending # <<>> /\ Head(pending).at <= e.at =>
            Head(pending') = Head(pending) /\ armed' = armed
      /\ pending = <<>> => Head(pending') = e /\ (armed = Never /\ e.at <= 0 => armed' = Never)
  BY <1>1, <1>2, <1>4, <1>6, AddFacts
<1>8. /\ call' \in [Callers -> CallType] /\ \A d \in Callers \ {c} : call'[d] = call[d]
      /\ call'[c].pc = "connect" /\ call'[c].fd = f /\ call'[c].connFd = f
      /\ call'[c].overTime = FALSE /\ call'[c].calls = call[c].calls /\ call'[c].retry = call[c].retry
      /\ call'[c].left = call[c].left /\ call'[c].result = call[c].result
  <2>1. call \in [Callers -> CallType] /\ f \in Fds \cup {NoFd}
    BY <1>1, <1>5 DEF TypeInv
  <2> DEFINE r == [call[c] EXCEPT !.pc = "connect", !.addr = a, !.fd = f,
                                  !.connFd = f, !.isTimeout = FALSE, !.overTime = FALSE]
  <2>2. /\ r \in CallType /\ r.pc = "connect" /\ r.fd = f /\ r.connFd = f
        /\ r.overTime = FALSE /\ r.calls = call[c].calls /\ r.retry = call[c].retry
        /\ r.left = call[c].left /\ r.result = call[c].result
    BY <2>1, ZenonT(90) DEF CallType, Pcs
  <2>3. call' = [call EXCEPT ![c] = r]
    BY <1>3
  <2> HIDE DEF r
  <2> QED
    BY <2>1, <2>2, <2>3
<1>9. /\ sock' \in [Fds -> SocketType] /\ \A g \in Fds \ {f} : sock'[g] = sock[g]
      /\ sock'[f].state = "fresh" /\ sock'[f].owner = c
      /\ sock'[f].asked = {} /\ sock'[f].answered = {}
  BY <1>1, <1>2, <1>5 DEF TypeInv, SocketType, Fresh, Closed
<1>10. TypeInv'
  <2>1. TypeOK'
    BY <1>1, <1>2, <1>7, <1>9 DEF TypeInv, TypeOK, Order, SocketType
  <2> QED
    BY <1>1, <1>2, <1>7, <1>8, <1>9, <2>1 DEF TypeInv
<1>11. BaseInv'
  BY <1>1, <1>2, <1>4, <1>5, <1>8, <1>9, NumbersAre, RpcCallAssumption DEF BaseInv
<1> SUFFICES ASSUME Single PROVE (Alone /\ Places /\ Cors /\ Queued /\ PromptInv /\ SlowInv)'
  BY <1>2, <1>10, <1>11 DEF RpcInv, Single
<1>12. Alone'
  BY <1>1, <1>2, <1>5, <1>8, NumbersAre DEF Alone, BaseInv
<1>13. Places'
  <2>1. \A d \in Callers : d # c /\ call[d].pc \notin {"idle", "select"} => call[d].fd \in Fds
    BY <1>1, FdIs
  <2>2. \A d \in Callers : d # c => call[d].pc # "abandoned"
    BY <1>1, <1>2 DEF Alone, Places, Place, SocketPlace
  <2>3. ASSUME NEW d \in Callers, d # c,
               call[d].pc \in {"connect", "connecting", "send", "recv", "receiving", "sending"}
        PROVE  call[d].fd \in Fds \ {f}
    BY <1>1, <1>5, <2>1, <2>3 DEF Places, Place, SocketPlace, Uses
  <2> QED
    BY <1>1, <1>2, <1>5, <1>8, <1>9, <2>2, <2>3, RpcCallAssumption DEF Places, Place, SocketPlace, Uses
<1>14. Cors'
  BY <1>1, <1>2, <1>8 DEF Cors
<1>15. Queued'
  BY <1>1, <1>2, <1>5, <1>8, <1>9, RpcCallAssumption DEF Queued, Come, Cors, Places, Place, SocketPlace, Uses
<1>16. Frame(c)' = Frame(c) /\ \A d \in Callers : Frame(d)' = Frame(d)
  BY <1>8 DEF Frame
<1>17. ASSUME Prompt PROVE Resumes' /\ EventsLive'
  <2>1. tasks = <<>> /\ \A d \in ToSet(pending) : d.caller # c
    BY <1>1, <1>2, <1>17 DEF PromptInv, Resumes, Woken, EventsLive, PendingOf, TasksOf
  <2>2. Unique(pending)'
    BY <1>1, <1>6, <1>7, <1>17, <2>1 DEF PromptInv, EventsLive, PendingOf, TasksOf, Same
  <2>3. Resumes'
    BY <1>1, <1>2, <1>5, <1>6, <1>7, <1>8, <1>9, <1>17, <2>1, RpcCallAssumption DEF PromptInv, Resumes, Woken, Places, Place, SocketPlace, Uses
  <2>4. EventsLive'
    BY <1>1, <1>2, <1>6, <1>7, <1>8, <1>16, <1>17, <2>1, <2>2, EmptyElements DEF PromptInv, EventsLive, PendingOf, TasksOf
  <2> QED
    BY <2>3, <2>4
<1>18. ASSUME ~Prompt PROVE (Older /\ SlowPending /\ SlowTasks /\ SlowOver)'
  <2>1. /\ Older /\ SlowPending /\ SlowTasks /\ SlowOver
        /\ \A d \in Callers : d # c => call[d].pc = "idle"
    BY <1>1, <1>2, <1>18, FaultCases DEF SlowInv, Alone
  <2>2. \A d \in ToSet(pending) \cup ToSet(tasks) :
          d \in Event /\ d.caller \in Callers /\ d.kind \in {"call", "connect"} /\ d.at \in Int
    BY <1>1, EventParts
  <2>3. \A d \in ToSet(pending) \cup ToSet(tasks) : d.caller = c => d.frame # Frame(c)
    BY <1>2, <2>1 DEF Older
  <2>4. Older'
    <3> SUFFICES ASSUME NEW d \in ToSet(pending)' \cup ToSet(tasks), NEW x \in Callers, d.caller = x
                 PROVE  /\ d.frame[1] <= call'[x].calls
                        /\ call'[x].pc # "idle" /\ d.frame[1] = call'[x].calls =>
                              d.frame[2] <= call'[x].retry
                        /\ call'[x].pc = "select" => d.frame # Frame(x)'
      BY <1>2 DEF Older
    <3>1. call'[x].calls = call[x].calls /\ call'[x].retry = call[x].retry
          /\ (call'[x].pc # "idle" <=> call[x].pc # "idle") /\ call'[x].pc # "select"
      BY <1>2, <1>8, <2>1
    <3>2. CASE d = e
      <4>1. x = c /\ d.frame[1] = call[c].calls /\ d.frame[2] = call[c].retry
        BY <1>6, <3>2 DEF Frame
      <4>2. call[c].calls \in Nat /\ call[c].retry \in Nat
        BY <1>1 DEF TypeInv, CallType
      <4> QED
        BY <3>1, <4>1, <4>2
    <3>3. CASE d \in ToSet(pending) \cup ToSet(tasks)
      BY <2>1, <3>1, <3>3 DEF Older
    <3> QED
      BY <1>7, <3>2, <3>3
  <2>5. /\ \A d \in ToSet(pending) : ~Live(d) /\ ~Live(d)' /\ d.kind = "call"
        /\ Live(e)'
    <3>1. ASSUME NEW d \in ToSet(pending) PROVE ~Live(d) /\ ~Live(d)' /\ d.kind = "call"
      <4>1. CASE d.caller = c
        <5>1. d.frame # Frame(c) /\ d.frame # Frame(c)'
          BY <1>16, <2>3, <4>1
        <5>2. ~Live(d) /\ ~Live(d)'
          BY <4>1, <5>1 DEF Live
        <5> QED
          BY <2>1, <2>2, <5>2 DEF SlowPending
      <4>2. CASE d.caller # c
        <5>1. d.caller \in Callers /\ call[d.caller].pc = "idle" /\ call'[d.caller].pc = "idle"
          BY <1>8, <2>1, <2>2, <4>2
        <5>2. ~Live(d) /\ ~Live(d)'
          BY <5>1 DEF Live
        <5> QED
          BY <2>1, <2>2, <5>2 DEF SlowPending
      <4> QED
        BY <4>1, <4>2
    <3>2. Live(e)'
      BY <1>6, <1>8, <1>16 DEF Live
    <3> QED
      BY <3>1, <3>2
  <2>6. Unique(pending)'
    BY <1>6, <1>7, <2>1, <2>3 DEF SlowPending, Same
  <2>7. ASSUME pending # <<>>
        PROVE  /\ StaleFirst /\ Dead /\ tasks = <<>>
               /\ Head(pending') = Head(pending) /\ armed' = armed
    <3>1. Head(pending) \in ToSet(pending)
      BY <1>1, <2>7, EventPlaces DEF TypeInv, TypeOK
    <3>2. StaleFirst /\ Dead /\ tasks = <<>>
      BY <2>1, <2>5, <3>1 DEF SlowPending
    <3>3. Head(pending).at <= e.at
      BY <1>2, <1>6, <3>2 DEF StaleFirst
    <3> QED
      BY <1>7, <2>7, <3>2, <3>3
  <2>8. pending = <<>> => ToSet(pending) = {}
    BY EmptyElements
  <2>9. SlowPending'
    <3>1. ASSUME pending # <<>> PROVE StaleFirst' /\ Dead' /\ tasks' = <<>>
      <4>1. PICK h \in Event :
              /\ pending # <<>> /\ h = Head(pending) /\ h.kind = "call" /\ ~Live(h) /\ h.at <= 0
              /\ \A d \in Callers : call[d].pc # "idle" =>
                    h.at <= call[d].left /\ (call[d].pc = "connecting" => h.at <= call[d].connectAt)
        BY <2>7, <3>1 DEF StaleFirst
      <4>2. h \in ToSet(pending)
        BY <1>1, <4>1, EventPlaces DEF TypeInv, TypeOK
      <4>3. StaleFirst'
        BY <1>2, <1>7, <1>8, <2>1, <2>5, <2>7, <4>1, <4>2 DEF StaleFirst
      <4> QED
        BY <1>2, <2>7, <3>1, <4>3 DEF Dead
    <3>2. ASSUME NEW d \in ToSet(pending)', NEW x \in Callers, d.caller = x
          PROVE  d.kind = "call" /\ (Live(d)' => d.at = call'[x].left)
      BY <1>6, <1>7, <1>8, <2>5, <3>2
    <3>3. ASSUME NEW d \in ToSet(pending)', ~Live(d)' PROVE pending # <<>>
      BY <1>7, <2>5, <2>8, <3>3
    <3> QED
      BY <1>2, <2>1, <2>6, <3>1, <3>2, <3>3 DEF SlowPending
  <2>10. SlowTasks'
    <3>1. ASSUME NEW d \in ToSet(tasks), d.caller = c, d.kind = "call" PROVE Goes(d, c)'
      <4>1. pending = <<>> /\ Dead /\ call[c].left <= 0
        BY <1>2, <2>1, <2>3, <3>1 DEF SlowTasks, Goes
      <4>2. Head(pending') = e /\ armed' = Never
        BY <1>6, <1>7, <4>1 DEF Dead
      <4>3. LiveFirst(c)'
        BY <1>6, <1>7, <2>5, <4>1, <4>2 DEF LiveFirst
      <4>4. d.frame # Frame(c)' /\ Dead'
        BY <1>2, <1>16, <2>3, <3>1, <4>1, <4>2 DEF Dead
      <4> QED
        BY <1>8, <4>3, <4>4 DEF Goes
    <3>2. ASSUME NEW d \in ToSet(tasks), d.caller # c, d.kind = "call" PROVE Goes(d, d.caller)'
      BY <1>8, <2>1, <2>2, <3>2 DEF Goes
    <3> QED
      BY <1>2, <1>8, <2>1, <2>2, <3>1, <3>2, RpcCallAssumption DEF SlowTasks
  <2>11. SlowOver'
    BY <1>8, <2>1 DEF SlowOver
  <2> QED
    BY <2>4, <2>9, <2>10, <2>11
<1> QED
  BY <1>2, <1>12, <1>13, <1>14, <1>15, <1>17, <1>18 DEF PromptInv, SlowInv, Prompt

----------------------------------------------------------------------------
(* A caller's turn: what the others see of it.                             *)

\* c has run, at descriptor f; the others and their descriptors are as before.
Turn(c, f) ==
    /\ \A d \in Callers \ {c} : call'[d] = call[d]
    /\ \A g \in Fds \ {f} : sock'[g] = sock[g] /\ watch'[g] = watch[g] /\ cor'[g] = cor[g]
    /\ cor'[f] \in {cor[f], c, NoCaller}
    /\ running' \in {c, NoCaller}
    /\ UNCHANGED <<faults, tasks, batch, queue>>

\* Under one fault the others only wait, each at a descriptor of its own.
LEMMA OthersWait ==
    ASSUME TypeInv, BaseInv, Single, Alone, Places, crashed = "no",
           NEW c \in Callers, running = c, call[c].pc \notin {"idle", "select"}
    PROVE  /\ call[c].fd \in Fds
           /\ \A d \in Callers \ {c} :
                /\ call[d].pc \in {"idle", "connecting", "receiving", "sending"}
                /\ call[d].pc # "idle" => call[d].fd \in Fds \ {call[c].fd}
<1>1. /\ Place(c) /\ call[c].pc \in Pcs /\ call[c].fd \in Fds
      /\ \A d \in Callers : Place(d) /\ call[d].pc \in Pcs
  BY FdIs DEF Places, TypeInv, CallType
<1>2. CASE call[c].pc = "abandoned"
  BY <1>1, <1>2 DEF Place, Alone
<1>3. CASE call[c].pc # "abandoned"
  <2>1. sock[call[c].fd].owner = c
    BY <1>1, <1>3 DEF Place, Uses, Pcs
  <2> SUFFICES ASSUME NEW d \in Callers \ {c}
               PROVE  /\ call[d].pc \in {"idle", "connecting", "receiving", "sending"}
                      /\ call[d].pc # "idle" => call[d].fd \in Fds \ {call[c].fd}
    BY <1>1
  <2>2. call[d].pc # "abandoned"
    BY <1>1 DEF Place, Alone
  <2>3. call[d].pc \in {"idle", "connecting", "receiving", "sending"}
    BY <1>1, <2>2 DEF Place, Pcs
  <2>4. call[d].pc # "idle" => sock[call[d].fd].owner = d /\ call[d].fd \in Fds
    BY <1>1, <2>3, FdIs DEF Place, Uses
  <2> QED
    BY <2>1, <2>3, <2>4
<1> QED
  BY <1>2, <1>3

\* A turn is of the caller that is in a call.
LEMMA TurnAlone ==
    ASSUME Alone, faults' = faults, NEW c \in Callers, call[c].pc # "idle",
           \A d \in Callers \ {c} : call'[d] = call[d], call'[c].fd \in {call[c].fd, NoFd}
    PROVE  Alone'
<1> SUFFICES ASSUME "overlap" \notin faults
             PROVE  /\ \A x, y \in Callers : call'[x].pc # "idle" /\ call'[y].pc # "idle" => x = y
                    /\ \A x \in Callers : \A g \in Fds : call'[x].fd <= g
  BY DEF Alone
<1>1. /\ \A x, y \in Callers : call[x].pc # "idle" /\ call[y].pc # "idle" => x = y
      /\ \A x \in Callers : \A g \in Fds : call[x].fd <= g
  BY DEF Alone
<1>2. \A x \in Callers \ {c} : call'[x].pc = "idle"
  BY <1>1
<1>3. \A g \in Fds : NoFd <= g
  BY NumbersAre DEF NoFd
<1> QED
  BY <1>1, <1>2, <1>3

\* A turn leaves the others where they are.
LEMMA TurnPlaces ==
    ASSUME TypeInv, BaseInv, Single, Alone, Places, crashed = "no",
           NEW c \in Callers, running = c, call[c].pc \notin {"idle", "select"},
           Turn(c, call[c].fd), Place(c)', \A g \in Fds : g = call[c].fd => SocketPlace(g)'
    PROVE  Places'
<1>1. PICK f \in Fds : f = call[c].fd
  BY OthersWait
<1>2. ASSUME NEW d \in Callers, d # c PROVE Place(d)'
  <2>1. /\ call[d].pc \in {"idle", "connecting", "receiving", "sending"} /\ call'[d] = call[d]
        /\ call[d].pc # "idle" => call[d].fd \in Fds /\ sock'[call[d].fd] = sock[call[d].fd]
    BY <1>1, <1>2, OthersWait DEF Turn
  <2>2. running' # d
    BY <1>2, RpcCallAssumption DEF Turn
  <2> QED
    BY <2>1, <2>2 DEF Places, Place, Uses
<1>3. ASSUME NEW g \in Fds, g # f PROVE SocketPlace(g)'
  BY <1>1, <1>3 DEF Turn, Places, SocketPlace
<1> QED
  BY <1>1, <1>2, <1>3 DEF Places

\* And their coroutines.
LEMMA TurnCors ==
    ASSUME TypeInv, BaseInv, Single, Alone, Places, Cors, crashed = "no",
           NEW c \in Callers, running = c, call[c].pc \notin {"idle", "select"},
           Turn(c, call[c].fd),
           \A g \in Fds : cor'[g] = c =>
               /\ call'[c].fd = g /\ call'[c].pc \in {"connecting", "receiving"}
               /\ call'[c].pc = "connecting" => watch'[g] # "READ"
               /\ call'[c].pc = "receiving" => watch'[g] # "WRITE"
    PROVE  Cors'
<1>1. PICK f \in Fds : f = call[c].fd
  BY OthersWait
<1>2. ASSUME NEW g \in Fds, NEW d \in Callers, cor'[g] = d, d # c
      PROVE  /\ call'[d].fd = g /\ call'[d].pc \in {"connecting", "receiving"}
             /\ call'[d].pc = "connecting" => watch'[g] # "READ"
             /\ call'[d].pc = "receiving" => watch'[g] # "WRITE"
  <2>1. cor[g] = d
    BY <1>1, <1>2, RpcCallAssumption DEF Turn
  <2>2. call[d].fd = g /\ call[d].pc \in {"connecting", "receiving"}
    BY <2>1 DEF Cors
  <2>3. g # f
    BY <1>1, <1>2, <2>2, OthersWait
  <2>4. call'[d] = call[d] /\ watch'[g] = watch[g]
    BY <1>1, <1>2, <2>3 DEF Turn
  <2> QED
    BY <2>1, <2>2, <2>4 DEF Cors
<1> QED
  BY <1>2 DEF Cors

\* And what is queued for them.
LEMMA TurnQueued ==
    ASSUME TypeInv, BaseInv, Single, Alone, Places, Cors, Queued, crashed = "no",
           NEW c \in Callers, running = c, call[c].pc \notin {"idle", "select"},
           Turn(c, call[c].fd), crashed' # "null coroutine"
    PROVE  Queued'
<1>1. PICK f \in Fds : f = call[c].fd
  BY OthersWait
<1> SUFFICES ASSUME "batched" \notin faults PROVE Queued'
  BY DEF Queued, Turn
<1>2. /\ Len(queue) <= 1 /\ Len(batch) <= 1 /\ batch = <<>> /\ queue \in Seq(Fds)
      /\ queue # <<>> => tasks = <<>>
      /\ queue' = queue /\ batch' = batch /\ tasks' = tasks /\ faults' = faults
  BY RpcCallAssumption DEF Queued, Turn, TypeInv, TypeOK
<1>3. ASSUME NEW g \in Fds, queue # <<>>, Head(queue) = g
      PROVE  /\ cor'[g] # NoCaller
             /\ \A d \in Callers : cor'[g] = d => Come(g, d)'
  <2>1. PICK d \in Callers : cor[g] = d
    <3>1. cor[g] # NoCaller
      BY <1>3 DEF Queued
    <3> QED
      BY <3>1 DEF TypeInv
  <2>2. Come(g, d) /\ d # c
    BY <1>3, <2>1 DEF Queued, Come
  <2>3. call[d].fd = g /\ call[d].pc \in {"connecting", "receiving"}
    BY <2>1 DEF Cors
  <2>4. g # f
    BY <1>1, <2>2, <2>3, OthersWait
  <2>5. cor'[g] = d /\ sock'[g] = sock[g] /\ call'[d] = call[d] /\ running' # d
    BY <1>1, <2>1, <2>2, <2>4, RpcCallAssumption DEF Turn
  <2> QED
    BY <2>2, <2>5, RpcCallAssumption DEF Come
<1> QED
  BY <1>2, <1>3 DEF Queued

\* And their time-outs.
LEMMA TurnPrompt ==
    ASSUME TypeInv, BaseInv, Single, Alone, Places, Cors, Prompt, PromptInv, crashed = "no",
           NEW c \in Callers, running = c, call[c].pc \notin {"idle", "select"},
           Turn(c, call[c].fd), Woken(c)', PendingOf(c)', TasksOf(c)', Unique(pending)',
           \A e \in ToSet(pending)' : e \in ToSet(pending) \/ e.caller = c
    PROVE  PromptInv'
<1>1. PICK f \in Fds : f = call[c].fd
  BY OthersWait
<1>2. Resumes /\ EventsLive
  BY DEF PromptInv
<1>3. \A e \in ToSet(pending) \cup ToSet(tasks) : e.caller \in Callers
  BY EventParts
<1>4. tasks' = tasks /\ queue' = queue
  BY DEF Turn
<1>5. ASSUME NEW d \in Callers, d # c PROVE Woken(d)' /\ PendingOf(d)' /\ TasksOf(d)'
  <2>1. /\ call[d].pc \in {"idle", "connecting", "receiving", "sending"} /\ call'[d] = call[d]
        /\ call[d].pc # "idle" => call[d].fd \in Fds /\ watch'[call[d].fd] = watch[call[d].fd]
        /\ running # d /\ running' # d
    BY <1>1, <1>5, OthersWait, RpcCallAssumption DEF Turn
  <2>2. Frame(d)' = Frame(d)
    BY <2>1 DEF Frame
  <2>3. Woken(d)'
    BY <1>2, <1>4, <2>1 DEF Resumes, Woken
  <2>4. PendingOf(d)'
    BY <1>2, <1>5, <2>1, <2>2 DEF EventsLive, PendingOf
  <2>5. TasksOf(d)'
    <3> SUFFICES ASSUME NEW e \in ToSet(tasks), e.caller = d PROVE \A x \in ToSet(pending)' : ~Same(x, e)
      BY <1>2, <1>4, <2>1, <2>2 DEF EventsLive, TasksOf
    <3>1. \A x \in ToSet(pending) : ~Same(x, e)
      BY <1>2 DEF EventsLive, TasksOf
    <3> QED
      BY <1>5, <3>1 DEF Same
  <2> QED
    BY <2>3, <2>4, <2>5
<1> QED
  BY <1>2, <1>4, <1>5 DEF PromptInv, Resumes, EventsLive

----------------------------------------------------------------------------
(* A caller's turn when events are batched or connections slow: nobody     *)
(* else is in a call.                                                      *)

\* Two events of a timer are one when they are the same but for their times.
LEMMA UniqueIs ==
    ASSUME NEW s \in Seq(Event), Unique(s), NEW d \in ToSet(s), NEW e \in ToSet(s), Same(d, e)
    PROVE  d = e
<1>1. DOMAIN s = 1 .. Len(s)
  BY EventPlaces
<1>2. PICK i \in DOMAIN s, j \in DOMAIN s : d = s[i] /\ e = s[j]
  BY <1>1, EventPlaces
<1> QED
  BY <1>2 DEF Unique

\* The events while c is in an attempt.
LEMMA SlowFacts ==
    ASSUME TypeInv, BaseInv, Single, Alone, ~Prompt, SlowInv,
           NEW c \in Callers, call[c].pc \notin {"idle", "select"}
    PROVE  /\ Older /\ SlowPending /\ SlowTasks /\ SlowOver
           /\ \A d \in Callers : d # c => call[d].pc = "idle"
           /\ \A e \in Event : Live(e) <=> e.caller = c /\ e.frame = Frame(c)
           /\ \A e \in ToSet(pending) : e.kind = "connect" =>
                 e.caller = c /\ e.frame = Frame(c) /\ call[c].pc = "connecting"
           /\ \A e \in ToSet(pending) : ~Live(e) =>
                 e.kind = "call" /\ StaleFirst /\ Dead /\ tasks = <<>>
           /\ \A e \in ToSet(pending) : Live(e) /\ e.kind = "call" => e.at = call[c].left
           /\ \A e \in Event : e.caller \in Callers /\ e.kind \in {"call", "connect"} /\ e.at \in Int
           /\ \A e \in ToSet(pending) \cup ToSet(tasks) : e \in Event
<1>1. Older /\ SlowPending /\ SlowTasks /\ SlowOver /\ \A d \in Callers : d # c => call[d].pc = "idle"
  BY FaultCases DEF SlowInv, Alone
<1>2. /\ \A e \in Event : e.caller \in Callers /\ e.kind \in {"call", "connect"} /\ e.at \in Int
      /\ \A e \in ToSet(pending) \cup ToSet(tasks) : e \in Event
  BY EventParts DEF Event
<1>3. \A e \in Event : Live(e) <=> e.caller = c /\ e.frame = Frame(c)
  BY <1>1, <1>2 DEF Live
<1>4. ASSUME NEW e \in ToSet(pending), e.kind = "connect"
      PROVE  Live(e) /\ e.caller = c /\ e.frame = Frame(c) /\ call[c].pc = "connecting"
  <2>1. Live(e) /\ call[e.caller].pc = "connecting"
    BY <1>1, <1>2, <1>4 DEF SlowPending
  <2> QED
    BY <1>2, <1>3, <2>1
<1>5. ASSUME NEW e \in ToSet(pending), ~Live(e)
      PROVE  e.kind = "call" /\ StaleFirst /\ Dead /\ tasks = <<>>
  <2>1. e.kind = "call"
    BY <1>2, <1>4, <1>5
  <2> QED
    BY <1>1, <1>5, <2>1 DEF SlowPending
<1>6. ASSUME NEW e \in ToSet(pending), Live(e), e.kind = "call" PROVE e.at = call[c].left
  BY <1>1, <1>2, <1>3, <1>6 DEF SlowPending
<1> QED
  BY <1>1, <1>2, <1>3, <1>4, <1>5, <1>6

\* A turn within an attempt that leaves the timer alone.
LEMMA SlowMoves ==
    ASSUME TypeInv, BaseInv, Single, Alone, ~Prompt, SlowInv,
           NEW c \in Callers, running = c,
           call[c].pc \notin {"idle", "select", "connecting", "crashed"},
           call'[c].pc \notin {"idle", "select", "connecting", "crashed"},
           \A d \in Callers \ {c} : call'[d] = call[d],
           call'[c].calls = call[c].calls, call'[c].retry = call[c].retry,
           call'[c].left = call[c].left, call'[c].overTime = call[c].overTime,
           UNCHANGED <<faults, tasks, batch, pending, armed>>, running' \in {c, NoCaller},
           call'[c].pc = "abandoned" => tasks = <<>> /\ running' # c,
           running' = c /\ tasks # <<>> => call'[c].pc \in {"send", "recv"}
    PROVE  SlowInv'
<1>1. /\ Older /\ SlowPending /\ SlowTasks /\ SlowOver
      /\ \A d \in Callers : d # c => call[d].pc = "idle"
      /\ \A e \in ToSet(pending) : e.kind = "connect" =>
            e.caller = c /\ e.frame = Frame(c) /\ call[c].pc = "connecting"
      /\ \A e \in Event : e.caller \in Callers /\ e.kind \in {"call", "connect"} /\ e.at \in Int
      /\ \A e \in ToSet(pending) \cup ToSet(tasks) : e \in Event
  BY SlowFacts
<1>2. \A d \in Callers : Frame(d)' = Frame(d)
  BY DEF Frame
<1>3. \A e \in Event : Live(e)' <=> Live(e)
  <2> TAKE e \in Event
  <2>1. PICK d \in Callers : e.caller = d
    BY <1>1
  <2>2. call'[d].pc \notin {"idle", "select"} <=> call[d].pc \notin {"idle", "select"}
    OBVIOUS
  <2>3. Live(e) <=> call[d].pc \notin {"idle", "select"} /\ e.frame = Frame(d)
    BY <2>1 DEF Live
  <2>4. Live(e)' <=> call'[d].pc \notin {"idle", "select"} /\ e.frame = Frame(d)'
    BY <2>1 DEF Live
  <2> QED
    BY <1>2, <2>2, <2>3, <2>4
<1>4. StaleFirst => StaleFirst'
  BY <1>3 DEF StaleFirst
<1>5. LiveFirst(c) => LiveFirst(c)'
  BY <1>3 DEF LiveFirst
<1>6. Dead' <=> Dead
  BY DEF Dead
<1>7. Older'
  BY <1>1, <1>2 DEF Older
<1>8. SlowPending'
  BY <1>1, <1>3, <1>4, <1>6 DEF SlowPending
<1>9. \A e \in ToSet(tasks), d \in Callers : Goes(e, d) /\ e.caller = d => Goes(e, d)'
  <2> SUFFICES ASSUME NEW e \in ToSet(tasks), NEW d \in Callers, Goes(e, d) PROVE Goes(e, d)'
    OBVIOUS
  <2>1. CASE d = c
    BY <1>2, <1>5, <1>6, <2>1 DEF Goes
  <2>2. CASE d # c
    BY <1>1, <2>2 DEF Goes
  <2> QED
    BY <2>1, <2>2
<1>10. SlowTasks'
  <2>1. Len(tasks) # 2
    BY <1>1, RpcCallAssumption DEF SlowTasks
  <2>2. ASSUME NEW e \in ToSet(tasks), NEW d \in Callers, e.caller = d
        PROVE  /\ e.kind = "connect" => call'[d].pc # "abandoned"
               /\ e.kind = "call" /\ call'[d].pc # "idle" => call'[d].left <= 0
               /\ e.kind = "call" /\ call'[d].pc = "abandoned" => e.frame = Frame(d)'
               /\ e.kind = "call" => Goes(e, d)'
    <3>1. /\ e.kind = "call" /\ call[d].pc # "idle" => call[d].left <= 0
          /\ e.kind = "call" => Goes(e, d)
      BY <1>1, <2>2 DEF SlowTasks
    <3>2. call'[d].pc # "abandoned"
      BY <1>1, <2>2, EmptyElements
    <3> QED
      BY <1>1, <1>9, <2>2, <3>1, <3>2
  <2>3. ASSUME NEW d \in Callers, running' = d
        PROVE  /\ tasks # <<>> => call'[d].pc \in {"connecting", "select", "connect", "send", "recv", "crashed"}
               /\ call'[d].pc # "abandoned"
    BY <2>3, RpcCallAssumption, EmptyElements
  <2>4. /\ Unique(tasks) /\ Len(tasks) <= 2
        /\ \A e, d \in ToSet(tasks) : e.caller = d.caller
    BY <1>1 DEF SlowTasks
  <2> QED
    BY <2>1, <2>2, <2>3, <2>4 DEF SlowTasks
<1>11. SlowOver'
  BY <1>1, <1>3, <1>5, <1>6 DEF SlowOver
<1> QED
  BY <1>7, <1>8, <1>10, <1>11 DEF SlowInv, Prompt

\* A turn that ends an attempt with an error.
LEMMA SlowRetry ==
    ASSUME TypeInv, BaseInv, Single, Alone, ~Prompt, SlowInv,
           NEW c \in Callers, running = c, running' = c, call[c].pc \in {"connect", "connecting"},
           \/ call'[c].pc = "select" /\ call'[c].retry = call[c].retry + 1
           \/ call'[c].pc = "crashed" /\ call'[c].retry = call[c].retry,
           \A d \in Callers \ {c} : call'[d] = call[d],
           call'[c].calls = call[c].calls, call'[c].left = call[c].left,
           call'[c].overTime = call[c].overTime,
           UNCHANGED <<faults, tasks, batch, armed>>, pending' \in Seq(Event), Unique(pending)',
           \A e \in ToSet(pending)' : e \in ToSet(pending) /\ ~Live(e),
           StaleFirst => pending' # <<>> /\ Head(pending') = Head(pending)
    PROVE  SlowInv'
<1>1. /\ Older /\ SlowPending /\ SlowTasks /\ SlowOver
      /\ \A d \in Callers : d # c => call[d].pc = "idle"
      /\ \A e \in Event : Live(e) <=> e.caller = c /\ e.frame = Frame(c)
      /\ \A e \in ToSet(pending) : ~Live(e) =>
            e.kind = "call" /\ StaleFirst /\ Dead /\ tasks = <<>>
      /\ \A e \in Event : e.caller \in Callers /\ e.kind \in {"call", "connect"} /\ e.at \in Int
      /\ \A e \in ToSet(pending) \cup ToSet(tasks) : e \in Event
  BY SlowFacts
<1>2. \A d \in Callers : d # c => call'[d].pc = "idle"
  BY <1>1
<1>3. /\ call[c].calls \in Nat /\ call[c].retry \in Nat
      /\ \A e \in ToSet(pending) \cup ToSet(tasks) :
            /\ e.frame[1] \in Nat /\ e.frame[2] \in Nat
            /\ \A x, y : e.frame = <<x, y>> <=> e.frame[1] = x /\ e.frame[2] = y
  BY EventParts DEF TypeInv, CallType
<1>4. ASSUME NEW e \in ToSet(pending) \cup ToSet(tasks), e.caller = c
      PROVE  /\ e.frame[1] <= call'[c].calls
             /\ e.frame[1] = call'[c].calls => e.frame[2] <= call'[c].retry
             /\ call'[c].pc = "select" => e.frame # Frame(c)'
  <2>1. e.frame[1] <= call[c].calls /\ (e.frame[1] = call[c].calls => e.frame[2] <= call[c].retry)
    BY <1>1, <1>4 DEF Older
  <2>2. call'[c].pc = "select" => e.frame # <<call'[c].calls, call'[c].retry>>
    BY <1>3, <2>1
  <2> QED
    BY <1>3, <2>1, <2>2 DEF Frame
<1>5. Older'
  <2>1. \A e \in ToSet(pending)' \cup ToSet(tasks) : e \in ToSet(pending) \cup ToSet(tasks)
    OBVIOUS
  <2>2. \A e \in ToSet(pending) \cup ToSet(tasks), d \in Callers :
            d # c /\ e.caller = d => e.frame[1] <= call[d].calls
    BY <1>1 DEF Older
  <2> QED
    BY <1>2, <1>4, <2>1, <2>2 DEF Older
<1>6. ASSUME NEW e \in ToSet(pending) PROVE ~Live(e) => ~Live(e)'
  <2> SUFFICES ASSUME ~Live(e), e.caller = c, call'[c].pc = "crashed" PROVE e.frame # Frame(c)'
    BY <1>1, <1>2 DEF Live
  <2> QED
    BY <1>1 DEF Frame
<1>7. ASSUME pending' # <<>> PROVE StaleFirst' /\ Dead' /\ tasks = <<>>
  <2>1. Head(pending') \in ToSet(pending)'
    BY <1>7, EventPlaces
  <2>2. StaleFirst /\ Dead /\ tasks = <<>>
    BY <1>1, <2>1
  <2>3. PICK h \in Event :
          /\ pending # <<>> /\ h = Head(pending) /\ h.kind = "call" /\ ~Live(h) /\ h.at <= 0
          /\ \A d \in Callers : call[d].pc # "idle" =>
                h.at <= call[d].left /\ (call[d].pc = "connecting" => h.at <= call[d].connectAt)
    BY <2>2 DEF StaleFirst
  <2>4. h = Head(pending') /\ h \in ToSet(pending)
    BY <2>1, <2>2, <2>3
  <2>5. ~Live(h)'
    BY <1>6, <2>3, <2>4
  <2>6. StaleFirst'
    BY <1>2, <1>7, <2>3, <2>4, <2>5 DEF StaleFirst
  <2> QED
    BY <2>2, <2>6 DEF Dead
<1>8. ToSet(pending)' = {} \/ pending' # <<>>
  BY EmptyElements
<1>9. SlowPending'
  BY <1>1, <1>6, <1>7, <1>8 DEF SlowPending
<1>10. ASSUME NEW e \in ToSet(tasks), NEW d \in Callers, e.caller = d, e.kind = "call"
       PROVE  Goes(e, d)'
  <2>1. CASE d = c
    <3>1. Goes(e, c) /\ pending' = <<>>
      BY <1>1, <1>7, <1>10, <2>1, EmptyElements DEF SlowTasks
    <3>2. Dead'
      BY <3>1 DEF Goes, Dead
    <3> QED
      BY <1>4, <1>10, <2>1, <3>1, <3>2 DEF Goes
  <2>2. CASE d # c
    BY <1>2, <2>2 DEF Goes
  <2> QED
    BY <2>1, <2>2
<1>11. SlowTasks'
  <2>1. Len(tasks) # 2 /\ Unique(tasks) /\ Len(tasks) <= 2
    BY <1>1, RpcCallAssumption DEF SlowTasks
  <2>2. ASSUME NEW e \in ToSet(tasks), NEW d \in Callers, e.caller = d
        PROVE  e.kind = "call" /\ call'[d].pc # "idle" => call'[d].left <= 0
    BY <1>1, <2>2 DEF SlowTasks
  <2>3. \A e, d \in ToSet(tasks) : e.caller = d.caller
    BY <1>1 DEF SlowTasks
  <2> QED
    BY <1>2, <1>10, <2>1, <2>2, <2>3 DEF SlowTasks
<1>12. SlowOver'
  <2> SUFFICES ASSUME call'[c].overTime, call'[c].pc = "crashed"
               PROVE  call'[c].left <= 0 /\ \A e \in ToSet(pending)' : ~Live(e)'
    BY <1>2 DEF SlowOver
  <2> QED
    BY <1>1, <1>6 DEF SlowOver
<1> QED
  BY <1>5, <1>9, <1>11, <1>12 DEF SlowInv, Prompt

\* A turn that ends a call.
LEMMA SlowReturn ==
    ASSUME TypeInv, BaseInv, Single, Alone, ~Prompt, SlowInv,
           NEW c \in Callers, running = c, running' = NoCaller,
           call[c].pc \notin {"idle", "select", "connecting"}, call'[c].pc = "idle",
           \A d \in Callers \ {c} : call'[d] = call[d], call'[c].calls = call[c].calls,
           UNCHANGED <<faults, tasks, batch, armed>>, pending' \in Seq(Event), Unique(pending)',
           ToSet(pending)' \subseteq ToSet(pending),
           pending' # <<>> =>
               /\ Dead /\ tasks = <<>>
               /\ \E h \in Event : h = Head(pending') /\ h.kind = "call" /\ h.at <= 0
    PROVE  SlowInv'
<1>1. /\ Older /\ SlowPending /\ SlowTasks /\ SlowOver
      /\ \A d \in Callers : d # c => call[d].pc = "idle"
      /\ \A e \in ToSet(pending) : e.kind = "connect" =>
            e.caller = c /\ e.frame = Frame(c) /\ call[c].pc = "connecting"
      /\ \A e \in Event : e.caller \in Callers /\ e.kind \in {"call", "connect"} /\ e.at \in Int
      /\ \A e \in ToSet(pending) \cup ToSet(tasks) : e \in Event
  BY SlowFacts
<1>2. \A d \in Callers : call'[d].pc = "idle" /\ call'[d].calls = call[d].calls
  BY <1>1
<1>3. \A e \in Event : ~Live(e)'
  BY <1>1, <1>2 DEF Live
<1>4. Older'
  <2>1. \A e \in ToSet(pending)' \cup ToSet(tasks) : e \in ToSet(pending) \cup ToSet(tasks)
    OBVIOUS
  <2> QED
    BY <1>1, <1>2, <2>1 DEF Older
<1>5. pending' # <<>> => StaleFirst' /\ Dead' /\ tasks' = <<>>
  BY <1>2, <1>3 DEF StaleFirst, Dead
<1>6. ToSet(pending)' = {} \/ pending' # <<>>
  BY EmptyElements
<1>7. SlowPending'
  BY <1>1, <1>3, <1>5, <1>6 DEF SlowPending
<1>8. SlowTasks'
  <2>1. /\ Len(tasks) # 2 /\ Unique(tasks) /\ Len(tasks) <= 2
        /\ \A e, d \in ToSet(tasks) : e.caller = d.caller
    BY <1>1, RpcCallAssumption DEF SlowTasks
  <2> QED
    BY <1>2, <2>1, RpcCallAssumption DEF SlowTasks, Goes
<1>9. SlowOver'
  BY <1>2 DEF SlowOver
<1> QED
  BY <1>4, <1>7, <1>8, <1>9 DEF SlowInv, Prompt

\* A turn that waits for a connection.
LEMMA SlowSyn ==
    ASSUME TypeInv, BaseInv, Single, Alone, ~Prompt, SlowInv,
           NEW c \in Callers, running = c, running' = NoCaller,
           call[c].pc = "connect", call'[c].pc = "connecting",
           \A d \in Callers \ {c} : call'[d] = call[d],
           call'[c].calls = call[c].calls, call'[c].retry = call[c].retry,
           call'[c].left = call[c].left, call'[c].overTime = call[c].overTime,
           call'[c].connectAt = ConnectTimeout,
           UNCHANGED <<faults, tasks, batch>>, AddTimerEvent(ConnectEvent(c, ConnectTimeout))
    PROVE  SlowInv'
<1>1. /\ Older /\ SlowPending /\ SlowTasks /\ SlowOver
      /\ \A d \in Callers : d # c => call[d].pc = "idle"
      /\ \A e \in Event : Live(e) <=> e.caller = c /\ e.frame = Frame(c)
      /\ \A e \in ToSet(pending) : e.kind = "connect" => call[c].pc = "connecting"
      /\ \A e \in ToSet(pending) : ~Live(e) =>
            e.kind = "call" /\ StaleFirst /\ Dead /\ tasks = <<>>
      /\ \A e \in ToSet(pending) : Live(e) /\ e.kind = "call" => e.at = call[c].left
      /\ \A e \in Event : e.caller \in Callers /\ e.kind \in {"call", "connect"} /\ e.at \in Int
      /\ \A e \in ToSet(pending) \cup ToSet(tasks) : e \in Event
  BY SlowFacts
<1>2. PICK e : e = ConnectEvent(c, ConnectTimeout)
  OBVIOUS
<1>3. ConnectTimeout \in Int /\ ConnectTimeout >= 1
  BY RpcCallAssumption
<1>4. e \in Event /\ e.kind = "connect" /\ e.caller = c /\ e.frame = Frame(c) /\ e.at = ConnectTimeout
  BY <1>2, <1>3, ConnectEventIs
<1>5. /\ pending' \in Seq(Event) /\ pending' # <<>> /\ ToSet(pending)' = ToSet(pending) \cup {e}
      /\ Unique(pending) /\ (\A d \in ToSet(pending) : ~Same(d, e)) => Unique(pending)'
      /\ pending # <<>> /\ Head(pending).at <= e.at =>
            Head(pending') = Head(pending) /\ armed' = armed
      /\ pending = <<>> => Head(pending') = e /\ (armed = Never /\ e.at <= 0 => armed' = Never)
  BY <1>2, <1>3, <1>4, AddFacts DEF Floor
<1>6. \A d \in Callers : Frame(d)' = Frame(d)
  BY DEF Frame
<1>7. /\ \A d \in Callers : d # c => call'[d].pc = "idle"
      /\ \A h \in Event : Live(h)' <=> Live(h)
  <2>1. \A d \in Callers : d # c => call'[d].pc = "idle"
    BY <1>1
  <2> SUFFICES ASSUME NEW h \in Event PROVE Live(h)' <=> h.caller = c /\ h.frame = Frame(c)
    BY <1>1, <2>1
  <2>2. CASE h.caller = c
    BY <1>6, <2>2 DEF Live
  <2>3. CASE h.caller # c
    BY <1>1, <2>1, <2>3 DEF Live
  <2> QED
    BY <2>2, <2>3
<1>8. \A h \in ToSet(pending) : h.kind = "call" /\ ~Same(h, e)
  BY <1>1, <1>4 DEF Same
<1>9. ASSUME StaleFirst PROVE StaleFirst'
  <2>1. PICK h \in Event :
          /\ pending # <<>> /\ h = Head(pending) /\ h.kind = "call" /\ ~Live(h) /\ h.at <= 0
          /\ \A d \in Callers : call[d].pc # "idle" =>
                h.at <= call[d].left /\ (call[d].pc = "connecting" => h.at <= call[d].connectAt)
    BY <1>9 DEF StaleFirst
  <2>2. h = Head(pending') /\ h.at <= ConnectTimeout
    BY <1>1, <1>3, <1>4, <1>5, <2>1
  <2> QED
    BY <1>5, <1>7, <2>1, <2>2 DEF StaleFirst
<1>10. ASSUME LiveFirst(c) PROVE LiveFirst(c)'
  <2>1. PICK h \in Event :
          /\ pending # <<>> /\ h = Head(pending) /\ h.kind = "call" /\ h.caller = c
          /\ Live(h) /\ h.at <= 0
    BY <1>10 DEF LiveFirst
  <2>2. h = Head(pending')
    BY <1>1, <1>3, <1>4, <1>5, <2>1
  <2> QED
    BY <1>5, <1>7, <2>1, <2>2 DEF LiveFirst
<1>11. ASSUME StaleFirst \/ LiveFirst(c) PROVE armed' = armed
  <2>1. PICK h \in Event : pending # <<>> /\ h = Head(pending) /\ h.at <= 0
    BY <1>11 DEF StaleFirst, LiveFirst
  <2> QED
    BY <1>1, <1>3, <1>4, <1>5, <2>1
<1>12. Older'
  <2>1. call[c].calls \in Nat /\ call[c].retry \in Nat
    BY DEF TypeInv, CallType
  <2>2. e.frame[1] <= call'[c].calls /\ e.frame[2] <= call'[c].retry
    BY <1>4, <2>1 DEF Frame
  <2> SUFFICES ASSUME NEW h \in ToSet(pending)' \cup ToSet(tasks), NEW d \in Callers, h.caller = d
               PROVE  /\ h.frame[1] <= call'[d].calls
                      /\ call'[d].pc # "idle" /\ h.frame[1] = call'[d].calls =>
                            h.frame[2] <= call'[d].retry
                      /\ call'[d].pc # "select"
    BY DEF Older
  <2>3. CASE h = e
    BY <1>4, <2>2, <2>3
  <2>4. CASE h \in ToSet(pending) \cup ToSet(tasks)
    BY <1>1, <1>7, <2>4 DEF Older
  <2> QED
    BY <1>5, <2>3, <2>4
<1>13. SlowPending'
  <2>1. Unique(pending)'
    BY <1>1, <1>5, <1>8 DEF SlowPending
  <2>2. ASSUME NEW h \in ToSet(pending)', ~Live(h)' PROVE StaleFirst' /\ Dead' /\ tasks = <<>>
    <3>1. h \in ToSet(pending) /\ ~Live(h)
      BY <1>1, <1>4, <1>5, <1>7, <2>2
    <3>2. StaleFirst /\ Dead /\ tasks = <<>>
      BY <1>1, <3>1
    <3> QED
      BY <1>9, <1>11, <3>2 DEF Dead
  <2>3. ASSUME NEW h \in ToSet(pending)', NEW d \in Callers, h.caller = d
        PROVE  /\ h.kind = "connect" => Live(h)' /\ call'[d].pc = "connecting"
               /\ h.kind = "call" /\ Live(h)' => h.at = call'[d].left
    <3>1. CASE h = e
      BY <1>1, <1>4, <1>7, <2>3, <3>1
    <3>2. CASE h \in ToSet(pending)
      BY <1>1, <1>7, <1>8, <2>3, <3>2
    <3> QED
      BY <1>5, <3>1, <3>2
  <2> QED
    BY <1>1, <2>1, <2>2, <2>3 DEF SlowPending
<1>14. ASSUME NEW h \in ToSet(tasks), NEW d \in Callers, h.caller = d, h.kind = "call"
       PROVE  Goes(h, d)'
  <2>1. CASE d = c
    <3>1. Goes(h, c)
      BY <1>1, <1>14, <2>1 DEF SlowTasks
    <3>2. CASE h.frame = Frame(c)
      <4>1. \A x \in ToSet(pending)' : ~(x.kind = "call" /\ x.caller = c)
        BY <1>4, <1>5, <3>1, <3>2 DEF Goes
      <4> QED
        BY <1>6, <2>1, <3>2, <4>1, RpcCallAssumption DEF Goes
    <3>3. CASE h.frame # Frame(c)
      <4>1. Dead /\ LiveFirst(c)
        BY <3>1, <3>3 DEF Goes
      <4>2. Dead' /\ LiveFirst(c)'
        BY <1>10, <1>11, <4>1 DEF Dead
      <4> QED
        BY <1>6, <2>1, <3>3, <4>2, RpcCallAssumption DEF Goes
    <3> QED
      BY <3>2, <3>3
  <2>2. CASE d # c
    BY <1>7, <2>2 DEF Goes
  <2> QED
    BY <2>1, <2>2
<1>15. SlowTasks'
  <2>1. Len(tasks) # 2 /\ Unique(tasks) /\ Len(tasks) <= 2
    BY <1>1, RpcCallAssumption DEF SlowTasks
  <2>2. ASSUME NEW h \in ToSet(tasks), NEW d \in Callers, h.caller = d
        PROVE  h.kind = "call" /\ call'[d].pc # "idle" => call'[d].left <= 0
    BY <1>1, <2>2 DEF SlowTasks
  <2>3. \A h, d \in ToSet(tasks) : h.caller = d.caller
    BY <1>1 DEF SlowTasks
  <2> QED
    BY <1>7, <1>14, <2>1, <2>2, <2>3, RpcCallAssumption DEF SlowTasks
<1>16. SlowOver'
  <2> SUFFICES ASSUME call'[c].overTime
               PROVE  /\ call'[c].left <= 0
                      /\ (\E h \in ToSet(pending)' : h.kind = "call" /\ h.caller = c /\ Live(h)') =>
                            Dead' /\ tasks' = <<>> /\ LiveFirst(c)'
    BY <1>7 DEF SlowOver
  <2>1. /\ call[c].left <= 0
        /\ (\E h \in ToSet(pending) : h.kind = "call" /\ h.caller = c /\ Live(h)) =>
              Dead /\ tasks = <<>> /\ LiveFirst(c)
    BY <1>1 DEF SlowOver
  <2>2. ASSUME NEW h \in ToSet(pending)', h.kind = "call", h.caller = c, Live(h)'
        PROVE  Dead' /\ tasks' = <<>> /\ LiveFirst(c)'
    <3>1. h \in ToSet(pending) /\ Live(h)
      BY <1>1, <1>4, <1>5, <1>7, <2>2
    <3>2. Dead /\ tasks = <<>> /\ LiveFirst(c)
      BY <2>1, <2>2, <3>1
    <3> QED
      BY <1>10, <1>11, <3>2 DEF Dead
  <2> QED
    BY <2>1, <2>2
<1> QED
  BY <1>12, <1>13, <1>15, <1>16 DEF SlowInv, Prompt

\* A turn that has its connection, or makes another one.
LEMMA SlowConnected ==
    ASSUME TypeInv, BaseInv, Single, Alone, ~Prompt, SlowInv,
           NEW c \in Callers, running = c, running' = c,
           call[c].pc = "connecting", call'[c].pc \in {"send", "connect"},
           \A d \in Callers \ {c} : call'[d] = call[d],
           call'[c].calls = call[c].calls, call'[c].retry = call[c].retry,
           call'[c].left = call[c].left, call'[c].overTime = call[c].overTime,
           UNCHANGED <<faults, tasks, batch, armed>>,
           pending' = Without(pending, ConnectEvent(c, call[c].connectAt))
    PROVE  SlowInv'
<1>1. /\ Older /\ SlowPending /\ SlowTasks /\ SlowOver
      /\ \A d \in Callers : d # c => call[d].pc = "idle"
      /\ \A e \in Event : Live(e) <=> e.caller = c /\ e.frame = Frame(c)
      /\ \A e \in ToSet(pending) : e.kind = "connect" => e.caller = c /\ e.frame = Frame(c)
      /\ \A e \in ToSet(pending) : ~Live(e) =>
            e.kind = "call" /\ StaleFirst /\ Dead /\ tasks = <<>>
      /\ \A e \in ToSet(pending) : Live(e) /\ e.kind = "call" => e.at = call[c].left
      /\ \A e \in Event : e.caller \in Callers /\ e.kind \in {"call", "connect"} /\ e.at \in Int
      /\ \A e \in ToSet(pending) \cup ToSet(tasks) : e \in Event
  BY SlowFacts
<1>2. PICK e : e = ConnectEvent(c, call[c].connectAt)
  OBVIOUS
<1>3. /\ e \in Event /\ e.kind = "connect" /\ e.caller = c /\ e.frame = Frame(c)
      /\ e.at = call[c].connectAt
  <2>1. call[c].connectAt \in Int
    BY DEF TypeInv, CallType
  <2> QED
    BY <1>2, <2>1, ConnectEventIs
<1>4. /\ pending' \in Seq(Event) /\ ToSet(pending)' \subseteq ToSet(pending)
      /\ pending = <<>> => pending' = <<>>
      /\ Unique(pending) => Unique(pending)' /\ \A d \in ToSet(pending)' : ~Same(d, e)
      /\ pending # <<>> /\ Head(pending).at <= e.at /\ ~Same(Head(pending), e) =>
            pending' # <<>> /\ Head(pending') = Head(pending)
      /\ Unique(pending) /\ pending # <<>> /\ Head(pending) \in ToSet(pending)' =>
            pending' # <<>> /\ Head(pending') = Head(pending)
  BY <1>2, <1>3, DeleteFacts
<1>5. Unique(pending) /\ pending \in Seq(Event)
  BY <1>1 DEF SlowPending, TypeInv, TypeOK
<1>6. \A d \in Callers : Frame(d)' = Frame(d)
  BY DEF Frame
<1>7. /\ \A d \in Callers : d # c => call'[d].pc = "idle"
      /\ \A h \in Event : Live(h)' <=> Live(h)
  <2>1. \A d \in Callers : d # c => call'[d].pc = "idle"
    BY <1>1
  <2> SUFFICES ASSUME NEW h \in Event PROVE Live(h)' <=> h.caller = c /\ h.frame = Frame(c)
    BY <1>1, <2>1
  <2>2. CASE h.caller = c
    BY <1>6, <2>2 DEF Live
  <2>3. CASE h.caller # c
    BY <1>1, <2>1, <2>3 DEF Live
  <2> QED
    BY <2>2, <2>3
<1>8. \A h \in ToSet(pending)' : h \in ToSet(pending) /\ h.kind = "call"
  BY <1>1, <1>3, <1>4, <1>5 DEF Same
<1>9. ASSUME StaleFirst PROVE StaleFirst'
  <2>1. PICK h \in Event :
          /\ pending # <<>> /\ h = Head(pending) /\ h.kind = "call" /\ ~Live(h) /\ h.at <= 0
          /\ \A d \in Callers : call[d].pc # "idle" =>
                h.at <= call[d].left /\ (call[d].pc = "connecting" => h.at <= call[d].connectAt)
    BY <1>9 DEF StaleFirst
  <2>2. h.at <= e.at /\ ~Same(h, e)
    BY <1>3, <2>1 DEF Same
  <2>3. pending' # <<>> /\ h = Head(pending')
    BY <1>4, <2>1, <2>2
  <2> QED
    BY <1>7, <2>1, <2>3 DEF StaleFirst
<1>10. ASSUME LiveFirst(c), NEW d \in ToSet(pending)', d.caller = c, Live(d) PROVE LiveFirst(c)'
  <2>1. PICK h \in Event :
          /\ pending # <<>> /\ h = Head(pending) /\ h.kind = "call" /\ h.caller = c
          /\ Live(h) /\ h.at <= 0
    BY <1>10 DEF LiveFirst
  <2>2. h \in ToSet(pending) /\ d \in ToSet(pending) /\ d.kind = "call"
    BY <1>5, <1>8, <2>1, EventPlaces
  <2>3. Same(d, h)
    BY <1>1, <1>10, <2>1, <2>2 DEF Same
  <2>4. d = h
    BY <1>5, <2>2, <2>3, UniqueIs
  <2>5. pending' # <<>> /\ h = Head(pending')
    BY <1>4, <1>5, <2>1, <2>4
  <2> QED
    BY <1>7, <2>1, <2>5 DEF LiveFirst
<1>11. Dead' <=> Dead
  BY DEF Dead
<1>12. Older'
  <2>1. \A h \in ToSet(pending)' \cup ToSet(tasks) : h \in ToSet(pending) \cup ToSet(tasks)
    BY <1>8
  <2> QED
    BY <1>1, <1>6, <1>7, <2>1 DEF Older
<1>13. SlowPending'
  <2>1. ASSUME NEW h \in ToSet(pending)', ~Live(h)' PROVE StaleFirst' /\ Dead' /\ tasks = <<>>
    BY <1>1, <1>7, <1>8, <1>9, <1>11, <2>1
  <2>2. ASSUME NEW h \in ToSet(pending)', NEW d \in Callers, h.caller = d, Live(h)'
        PROVE  h.at = call'[d].left
    BY <1>1, <1>7, <1>8, <2>2
  <2> QED
    BY <1>1, <1>4, <1>5, <1>8, <2>1, <2>2 DEF SlowPending
<1>14. ASSUME NEW h \in ToSet(tasks), NEW d \in Callers, h.caller = d, h.kind = "call"
       PROVE  Goes(h, d)'
  <2>1. CASE d = c
    <3>1. h.frame = Frame(c) /\ pending = <<>> /\ Dead
      BY <1>1, <1>14, <2>1 DEF SlowTasks, Goes
    <3>2. pending' = <<>> /\ ToSet(pending)' = {}
      BY <1>4, <3>1, EmptyElements
    <3> QED
      BY <1>6, <1>11, <2>1, <3>1, <3>2 DEF Goes
  <2>2. CASE d # c
    BY <1>7, <2>2 DEF Goes
  <2> QED
    BY <2>1, <2>2
<1>15. SlowTasks'
  <2>1. Len(tasks) # 2 /\ Unique(tasks) /\ Len(tasks) <= 2
    BY <1>1, RpcCallAssumption DEF SlowTasks
  <2>2. ASSUME NEW h \in ToSet(tasks), NEW d \in Callers, h.caller = d
        PROVE  h.kind = "call" /\ call'[d].pc # "idle" => call'[d].left <= 0
    BY <1>1, <2>2 DEF SlowTasks
  <2>3. \A h, d \in ToSet(tasks) : h.caller = d.caller
    BY <1>1 DEF SlowTasks
  <2> QED
    BY <1>7, <1>14, <2>1, <2>2, <2>3 DEF SlowTasks
<1>16. SlowOver'
  <2> SUFFICES ASSUME call'[c].overTime
               PROVE  /\ call'[c].left <= 0
                      /\ (\E h \in ToSet(pending)' : h.kind = "call" /\ h.caller = c /\ Live(h)') =>
                            Dead' /\ tasks' = <<>> /\ LiveFirst(c)'
    BY <1>7 DEF SlowOver
  <2>1. /\ call[c].left <= 0
        /\ (\E h \in ToSet(pending) : h.kind = "call" /\ h.caller = c /\ Live(h)) =>
              Dead /\ tasks = <<>> /\ LiveFirst(c)
    BY <1>1 DEF SlowOver
  <2> QED
    BY <1>1, <1>7, <1>8, <1>10, <1>11, <2>1
<1> QED
  BY <1>12, <1>13, <1>15, <1>16 DEF SlowInv, Prompt

----------------------------------------------------------------------------
(* The end of an attempt and of a call.                                    *)

\* What is left of an attempt that ends with an error.
LEMMA RetryIs ==
    ASSUME TypeInv, BaseInv, NEW c \in Callers, call[c].pc \notin {"idle", "select"}, Retry(c)
    PROVE  /\ call' \in [Callers -> CallType] /\ \A d \in Callers \ {c} : call'[d] = call[d]
           /\ call'[c].calls = call[c].calls /\ call'[c].left = call[c].left
           /\ call'[c].overTime = call[c].overTime /\ call'[c].result = call[c].result
           /\ \/ /\ call'[c].pc = "select" /\ call'[c].retry = call[c].retry + 1
                 /\ call'[c].fd = NoFd /\ crashed' = crashed
              \/ /\ call'[c].pc = "crashed" /\ call'[c].retry = call[c].retry
                 /\ call'[c].fd = call[c].fd /\ call'[c].connFd = call[c].connFd
                 /\ crashed' = "null reply"
           /\ sock' = Closing(call[c].fd) /\ watch' = Unwatched(call[c].fd)
           /\ addrs' \subseteq addrs
<1>1. /\ call \in [Callers -> CallType] /\ \A d \in Callers : call[d].retry + 1 \in Nat
      /\ NoFd \in Fds \cup {NoFd} /\ Never \in Int
  BY DEF TypeInv, CallType, Never
<1>2. /\ sock' = Closing(call[c].fd) /\ watch' = Unwatched(call[c].fd)
      /\ addrs' = addrs \ {call[c].addr}
  BY DEF Retry
<1>3. CASE call[c].retry < MaxRetry
  <2>1. call' = [call EXCEPT ![c].pc = "select", ![c].retry = @ + 1,
                             ![c].fd = NoFd, ![c].connFd = NoFd, ![c].connectAt = Never]
    BY <1>3 DEF Retry
  <2>2. crashed' = crashed
    BY <1>3 DEF Retry
  <2> QED
    BY <1>1, <1>2, <2>1, <2>2 DEF CallType, Pcs
<1>4. CASE ~(call[c].retry < MaxRetry)
  <2>1. call' = [call EXCEPT ![c].pc = "crashed"] /\ crashed' = "null reply"
    BY <1>4 DEF Retry
  <2> QED
    BY <1>1, <1>2, <2>1 DEF CallType, Pcs
<1> QED
  BY <1>3, <1>4

\* And of a call that returns.
LEMMA ReturnIs ==
    ASSUME TypeInv, BaseInv, NEW c \in Callers, NEW r \in {"ok", "timeout"}, Return(c, r)
    PROVE  /\ call' \in [Callers -> CallType] /\ \A d \in Callers \ {c} : call'[d] = call[d]
           /\ call'[c].calls = call[c].calls /\ call'[c].pc = "idle" /\ call'[c].fd = NoFd
           /\ call'[c].result = r
           /\ sock' = Closing(call[c].fd) /\ watch' = Unwatched(call[c].fd)
           /\ running' = NoCaller /\ UNCHANGED <<addrs, crashed>>
<1> DEFINE n == [NoCall EXCEPT !.calls = call[c].calls, !.result = r]
<1>1. Addrs # {} /\ (CHOOSE a \in Addrs : TRUE) \in Addrs
  BY RpcCallAssumption
<1>2. call \in [Callers -> CallType] /\ call[c].calls \in Nat
  BY DEF TypeInv, CallType
<1>3. n \in CallType /\ n.calls = call[c].calls /\ n.pc = "idle" /\ n.fd = NoFd /\ n.result = r
  <2>1. NoCall \in CallType
    BY <1>1 DEF NoCall, CallType, Pcs, Never
  <2>2. NoCall.pc = "idle" /\ NoCall.fd = NoFd
    BY DEF NoCall
  <2> HIDE DEF NoCall
  <2> QED
    BY <1>2, <2>1, <2>2 DEF CallType
<1>4. call' = [call EXCEPT ![c] = n]
  BY DEF Return
<1> HIDE DEF n
<1>5. call' \in [Callers -> CallType] /\ call'[c] = n /\ \A d \in Callers \ {c} : call'[d] = call[d]
  BY <1>2, <1>3, <1>4
<1> QED
  BY <1>3, <1>5 DEF Return

\* A socket that is closed.
LEMMA ClosedIs ==
    ASSUME TypeInv, NEW f \in Fds, sock' = Closing(f), watch' = Unwatched(f)
    PROVE  /\ sock' \in [Fds -> SocketType] /\ watch' \in [Fds -> {"none", "READ", "WRITE"}]
           /\ \A g \in Fds \ {f} : sock'[g] = sock[g] /\ watch'[g] = watch[g]
           /\ sock'[f].state = "none" /\ watch'[f] = "none"
           /\ sock'[f].asked = {} /\ sock'[f].answered = {}
BY DEF TypeInv, Closing, Unwatched, Closed, SocketType

\* The types and the numbers after a caller has closed its socket.
LEMMA ClosedKeeps ==
    ASSUME TypeInv, BaseInv, NEW c \in Callers, running = c, running' \in {c, NoCaller},
           call[c].fd \in Fds, sock' = Closing(call[c].fd), watch' = Unwatched(call[c].fd),
           call' \in [Callers -> CallType], \A d \in Callers \ {c} : call'[d] = call[d],
           call'[c].pc \in {"idle", "select"} <=> call'[c].fd = NoFd,
           call'[c].pc \notin {"idle", "select"} => call'[c].connFd \in Fds,
           call'[c].pc \notin {"connect", "connecting"},
           call'[c].pc # "idle" => call'[c].result = "none" /\ call'[c].left >= Floor,
           addrs' \subseteq addrs, cor' \in [Fds -> Callers \cup {NoCaller}],
           pending' \in Seq(Event), Order(pending)', \A e \in ToSet(pending)' : e.at >= Floor,
           crashed' \in {"no", "null coroutine", "null reply"},
           UNCHANGED <<faults, tasks, batch, queue, armed>>
    PROVE  TypeInv' /\ BaseInv'
<1>1. PICK f \in Fds : f = call[c].fd
  OBVIOUS
<1>2. /\ sock' \in [Fds -> SocketType] /\ watch' \in [Fds -> {"none", "READ", "WRITE"}]
      /\ \A g \in Fds \ {f} : sock'[g] = sock[g] /\ watch'[g] = watch[g]
      /\ sock'[f].state = "none" /\ watch'[f] = "none"
      /\ sock'[f].asked = {} /\ sock'[f].answered = {}
  BY <1>1, ClosedIs
<1>3. TypeOK'
  BY <1>2 DEF TypeInv, TypeOK, SocketType, Order
<1>4. TypeInv'
  BY <1>2, <1>3 DEF TypeInv
<1>5. BaseInv'
  <2>0. /\ \A d \in Callers :
              /\ call[d].pc \in {"idle", "select"} <=> call[d].fd = NoFd
              /\ call[d].pc \notin {"idle", "select"} => call[d].connFd \in Fds
              /\ call[d].pc # "idle" => call[d].result = "none" /\ call[d].left >= Floor
              /\ call[d].pc = "connecting" => call[d].connectAt >= Floor
        /\ \A g \in Fds : \A d \in Callers : sock[g].state # "none" /\ sock[g].owner = d => call[d].fd = g
    BY DEF BaseInv
  <2>1. \A d \in Callers \ {c} : call[d].pc # "connect"
    BY DEF BaseInv
  <2>2. \A g \in Fds \ {f} : sock[g].state # "none" => sock[g].owner \in Callers \ {c}
    BY <1>1 DEF BaseInv
  <2>3. ASSUME NEW d \in Callers
        PROVE  /\ call'[d].pc \in {"idle", "select"} <=> call'[d].fd = NoFd
               /\ call'[d].pc \notin {"idle", "select"} => call'[d].connFd \in Fds
               /\ call'[d].pc # "connect"
               /\ call'[d].pc # "idle" => call'[d].result = "none" /\ call'[d].left >= Floor
               /\ call'[d].pc = "connecting" => call'[d].connectAt >= Floor
    <3>1. CASE d = c
      BY <3>1
    <3>2. CASE d # c
      BY <2>0, <2>1, <3>2
    <3> QED
      BY <3>1, <3>2
  <2>4. ASSUME NEW g \in Fds, sock'[g].state # "none"
        PROVE  sock'[g].owner \in Callers /\ call'[sock'[g].owner].fd = g
    <3>1. g # f /\ sock'[g] = sock[g]
      BY <1>2, <2>4
    <3>2. PICK d \in Callers \ {c} : d = sock[g].owner
      BY <2>2, <2>4, <3>1
    <3>3. sock[g].state # "none"
      BY <2>4, <3>1
    <3>4. d \in Callers /\ sock[g].owner = d
      BY <3>2
    <3>5. call[d].fd = g
      BY ONLY <2>0, <3>3, <3>4, g \in Fds
    <3> QED
      BY <3>1, <3>2, <3>5
  <2> QED
    BY <2>3, <2>4 DEF BaseInv
<1> QED
  BY <1>4, <1>5

\* Under one fault no event is there twice.
LEMMA UniqueEvents ==
    ASSUME TypeInv, Single, PromptInv, SlowInv
    PROVE  Unique(pending) /\ Unique(tasks)
BY DEF PromptInv, SlowInv, EventsLive, SlowPending, SlowTasks

\* An attempt that ends with an error keeps the invariant when its events are
\* gone from the timer.
LEMMA RetryKeeps ==
    ASSUME RpcInv, crashed = "no", NEW c \in Callers, running = c, running' = c,
           call[c].pc \notin {"idle", "select"}, Retry(c),
           UNCHANGED <<faults, tasks, batch, queue, armed>>,
           pending' \in Seq(Event), Order(pending)', \A e \in ToSet(pending)' : e.at >= Floor,
           ToSet(pending)' \subseteq ToSet(pending),
           cor' \in [Fds -> Callers \cup {NoCaller}],
           Single =>
               /\ \A g \in Fds : g # call[c].fd => cor'[g] = cor[g]
               /\ \A g \in Fds : g = call[c].fd => cor'[g] \in {cor[g], NoCaller}
               /\ call[c].pc \in {"connect", "connecting"} /\ \A g \in Fds : cor'[g] # c
               /\ Unique(pending)'
               /\ \A e \in ToSet(pending)' : ~(e.caller = c /\ e.frame = Frame(c))
               /\ ~Prompt /\ StaleFirst => pending' # <<>> /\ Head(pending') = Head(pending)
    PROVE  RpcInv'
<1>1. /\ TypeInv /\ BaseInv
      /\ Single => Alone /\ Places /\ Cors /\ Queued /\ PromptInv /\ SlowInv
  BY DEF RpcInv
<1>2. PICK f \in Fds : f = call[c].fd
  BY <1>1, FdIs
<1>3. /\ call' \in [Callers -> CallType] /\ \A d \in Callers \ {c} : call'[d] = call[d]
      /\ call'[c].calls = call[c].calls /\ call'[c].left = call[c].left
      /\ call'[c].overTime = call[c].overTime /\ call'[c].result = call[c].result
      /\ \/ /\ call'[c].pc = "select" /\ call'[c].retry = call[c].retry + 1
            /\ call'[c].fd = NoFd /\ crashed' = crashed
         \/ /\ call'[c].pc = "crashed" /\ call'[c].retry = call[c].retry
            /\ call'[c].fd = f /\ call'[c].connFd = call[c].connFd /\ crashed' = "null reply"
      /\ sock' = Closing(call[c].fd) /\ watch' = Unwatched(call[c].fd)
      /\ addrs' \subseteq addrs
  BY <1>1, <1>2, RetryIs
<1>4. /\ sock' \in [Fds -> SocketType] /\ watch' \in [Fds -> {"none", "READ", "WRITE"}]
      /\ \A g \in Fds \ {f} : sock'[g] = sock[g] /\ watch'[g] = watch[g]
      /\ sock'[f].state = "none" /\ watch'[f] = "none"
      /\ sock'[f].asked = {} /\ sock'[f].answered = {}
  BY <1>1, <1>2, <1>3, ClosedIs
<1>5. TypeInv' /\ BaseInv'
  <2>1. call[c].result = "none" /\ call[c].left >= Floor
    BY <1>1 DEF BaseInv
  <2>2. call'[c].pc \in {"idle", "select"} <=> call'[c].fd = NoFd
    BY <1>2, <1>3, NumbersAre
  <2>3. call'[c].pc \notin {"connect", "connecting"} /\ call[c].fd \in Fds
    BY <1>2, <1>3
  <2>4. /\ crashed' \in {"no", "null coroutine", "null reply"}
        /\ call'[c].pc \notin {"idle", "select"} => call'[c].connFd \in Fds
    BY <1>1, <1>3 DEF BaseInv
  <2> QED
    BY <1>1, <1>3, <2>1, <2>2, <2>3, <2>4, ClosedKeeps
<1> SUFFICES ASSUME Single PROVE (Alone /\ Places /\ Cors /\ Queued /\ PromptInv /\ SlowInv)'
  BY <1>5 DEF RpcInv, Single
<1>6. /\ call[c].pc \in {"connect", "connecting"} /\ \A g \in Fds : cor'[g] # c
      /\ Unique(pending)'
      /\ \A e \in ToSet(pending)' : e \in ToSet(pending) /\ ~(e.caller = c /\ e.frame = Frame(c))
  OBVIOUS
<1>7. Turn(c, call[c].fd)
  BY <1>2, <1>3, <1>4 DEF Turn
<1>8. Alone'
  BY <1>1, <1>2, <1>3, TurnAlone
<1>9. Places'
  <2>1. Place(c)'
    BY <1>3, RpcCallAssumption DEF Place, Uses
  <2>2. SocketPlace(f)'
    BY <1>4 DEF SocketPlace
  <2> QED
    BY <1>1, <1>2, <1>7, <2>1, <2>2, TurnPlaces
<1>10. Cors'
  BY <1>1, <1>6, <1>7, TurnCors
<1>11. Queued'
  BY <1>1, <1>3, <1>7, TurnQueued
<1>12. PromptInv'
  <2> SUFFICES ASSUME Prompt PROVE PromptInv'
    BY DEF PromptInv, Prompt
  <2>1. /\ tasks = <<>> /\ call[c].left = Timeout
        /\ \A e \in ToSet(pending) : e.caller = c => e.frame = Frame(c)
    BY <1>1, <1>6 DEF PromptInv, Resumes, Woken, EventsLive, PendingOf
  <2>2. \A e \in ToSet(pending)' : e.caller # c
    BY <1>6, <2>1
  <2>3. Woken(c)'
    BY <1>3, <2>1 DEF Woken
  <2>4. PendingOf(c)'
    BY <2>2 DEF PendingOf
  <2>5. TasksOf(c)'
    BY <2>1, EmptyElements DEF TasksOf
  <2> QED
    BY <1>1, <1>6, <1>7, <2>3, <2>4, <2>5, TurnPrompt
<1>13. SlowInv'
  <2> SUFFICES ASSUME ~Prompt PROVE SlowInv'
    BY DEF SlowInv, Prompt
  <2>1. /\ \A e \in Event : Live(e) <=> e.caller = c /\ e.frame = Frame(c)
        /\ \A e \in ToSet(pending) : e \in Event
    BY <1>1, SlowFacts
  <2>2. \A e \in ToSet(pending)' : e \in ToSet(pending) /\ ~Live(e)
    BY <1>6, <2>1
  <2>3. StaleFirst => pending' # <<>> /\ Head(pending') = Head(pending)
    OBVIOUS
  <2>4. \/ call'[c].pc = "select" /\ call'[c].retry = call[c].retry + 1
        \/ call'[c].pc = "crashed" /\ call'[c].retry = call[c].retry
    BY <1>3
  <2> QED
    BY <1>1, <1>3, <1>6, <2>2, <2>3, <2>4, SlowRetry
<1> QED
  BY <1>8, <1>9, <1>10, <1>11, <1>12, <1>13

\* A call that returns keeps it when no event of it is left, or none that the
\* timerfd still waits for.
LEMMA ReturnKeeps ==
    ASSUME RpcInv, crashed = "no", NEW c \in Callers, running = c,
           call[c].pc \notin {"idle", "select"}, NEW r \in {"ok", "timeout"}, Return(c, r),
           UNCHANGED <<faults, tasks, batch, queue, armed>>,
           pending' \in Seq(Event), Order(pending)', \A e \in ToSet(pending)' : e.at >= Floor,
           ToSet(pending)' \subseteq ToSet(pending),
           cor' \in [Fds -> Callers \cup {NoCaller}],
           Single =>
               /\ \A g \in Fds : g # call[c].fd => cor'[g] = cor[g]
               /\ \A g \in Fds : g = call[c].fd => cor'[g] \in {cor[g], NoCaller}
               /\ call[c].pc # "connecting" /\ \A g \in Fds : cor'[g] # c
               /\ Unique(pending)'
               /\ Prompt => \A e \in ToSet(pending)' \cup ToSet(tasks) : e.caller # c
               /\ ~Prompt /\ pending' # <<>> =>
                     /\ Dead /\ tasks = <<>>
                     /\ \E h \in Event : h = Head(pending') /\ h.kind = "call" /\ h.at <= 0
    PROVE  RpcInv'
<1>1. /\ TypeInv /\ BaseInv
      /\ Single => Alone /\ Places /\ Cors /\ Queued /\ PromptInv /\ SlowInv
  BY DEF RpcInv
<1>2. PICK f \in Fds : f = call[c].fd
  BY <1>1, FdIs
<1>3. /\ call' \in [Callers -> CallType] /\ \A d \in Callers \ {c} : call'[d] = call[d]
      /\ call'[c].calls = call[c].calls /\ call'[c].pc = "idle" /\ call'[c].fd = NoFd
      /\ sock' = Closing(call[c].fd) /\ watch' = Unwatched(call[c].fd)
      /\ running' = NoCaller /\ UNCHANGED <<addrs, crashed>>
  BY <1>1, ReturnIs
<1>4. /\ sock' \in [Fds -> SocketType] /\ watch' \in [Fds -> {"none", "READ", "WRITE"}]
      /\ \A g \in Fds \ {f} : sock'[g] = sock[g] /\ watch'[g] = watch[g]
      /\ sock'[f].state = "none" /\ watch'[f] = "none"
      /\ sock'[f].asked = {} /\ sock'[f].answered = {}
  BY <1>1, <1>2, <1>3, ClosedIs
<1>5. TypeInv' /\ BaseInv'
  <2>1. call'[c].pc \in {"idle", "select"} <=> call'[c].fd = NoFd
    BY <1>3
  <2>2. /\ call'[c].pc \notin {"connect", "connecting"} /\ call[c].fd \in Fds
        /\ call'[c].pc # "idle" => call'[c].result = "none" /\ call'[c].left >= Floor
        /\ addrs' \subseteq addrs /\ running' \in {c, NoCaller}
        /\ crashed' \in {"no", "null coroutine", "null reply"}
    BY <1>2, <1>3
  <2> QED
    BY <1>1, <1>3, <2>1, <2>2, ClosedKeeps
<1> SUFFICES ASSUME Single PROVE (Alone /\ Places /\ Cors /\ Queued /\ PromptInv /\ SlowInv)'
  BY <1>5 DEF RpcInv, Single
<1>6. /\ call[c].pc # "connecting" /\ \A g \in Fds : cor'[g] # c
      /\ Unique(pending)'
      /\ Prompt => \A e \in ToSet(pending)' \cup ToSet(tasks) : e.caller # c
      /\ ~Prompt /\ pending' # <<>> =>
            /\ Dead /\ tasks = <<>>
            /\ \E h \in Event : h = Head(pending') /\ h.kind = "call" /\ h.at <= 0
  OBVIOUS
<1>7. Turn(c, call[c].fd)
  BY <1>2, <1>3, <1>4 DEF Turn
<1>8. Alone'
  BY <1>1, <1>2, <1>3, TurnAlone
<1>9. Places'
  <2>1. Place(c)'
    BY <1>3, RpcCallAssumption DEF Place, Uses
  <2>2. SocketPlace(f)'
    BY <1>4 DEF SocketPlace
  <2> QED
    BY <1>1, <1>2, <1>7, <2>1, <2>2, TurnPlaces
<1>10. Cors'
  BY <1>1, <1>6, <1>7, TurnCors
<1>11. Queued'
  BY <1>1, <1>3, <1>7, TurnQueued
<1>12. PromptInv'
  <2> SUFFICES ASSUME Prompt PROVE PromptInv'
    BY DEF PromptInv, Prompt
  <2>1. Woken(c)'
    BY <1>3, RpcCallAssumption DEF Woken
  <2>2. PendingOf(c)' /\ TasksOf(c)'
    BY <1>6 DEF PendingOf, TasksOf
  <2>3. \A e \in ToSet(pending)' : e \in ToSet(pending) \/ e.caller = c
    OBVIOUS
  <2> QED
    BY <1>1, <1>6, <1>7, <2>1, <2>2, <2>3, TurnPrompt
<1>13. SlowInv'
  <2> SUFFICES ASSUME ~Prompt PROVE SlowInv'
    BY DEF SlowInv, Prompt
  <2> QED
    BY <1>1, <1>3, <1>6, SlowReturn
<1> QED
  BY <1>8, <1>9, <1>10, <1>11, <1>12, <1>13

----------------------------------------------------------------------------
(* The callers' steps.                                                     *)

\* A caller's socket under one fault: it connects, sends or reads there.
LEMMA PlaceIs ==
    ASSUME TypeInv, BaseInv, Places, NEW c \in Callers
    PROVE  /\ call[c].pc \in {"connect", "connecting", "send", "recv", "receiving", "sending"} =>
                 call[c].connFd = call[c].fd /\ sock[call[c].fd].owner = c
           /\ call[c].pc = "connect" => sock[call[c].fd].state = "fresh"
           /\ call[c].pc = "connecting" =>
                 sock[call[c].fd].state \in {"syn", "up", "refused", "closed"}
           /\ call[c].pc \in {"send", "recv", "receiving"} =>
                 sock[call[c].fd].state \in {"up", "closed"}
           /\ call[c].pc = "sending" => sock[call[c].fd].state = "closed"
           /\ \A f \in Fds : /\ sock[f].state = "closed" => "peerCloses" \in faults
                             /\ sock[f].asked \cup sock[f].answered \subseteq {sock[f].owner}
<1>1. Place(c) /\ \A f \in Fds : SocketPlace(f)
  BY DEF Places
<1> QED
  BY <1>1 DEF Place, SocketPlace, Uses

\* A connection is made at once.
LEMMA ConnectUpKeeps ==
    ASSUME RpcInv, crashed = "no", NEW c \in Callers, running = c, call[c].pc = "connect",
           sock' = [sock EXCEPT ![call[c].fd].state = "up"], call' = [call EXCEPT ![c].pc = "send"],
           UNCHANGED <<faults, addrs, watch, cor, pending, armed, tasks, batch, queue, running, crashed>>
    PROVE  RpcInv'
<1>1. /\ TypeInv /\ BaseInv
      /\ Single => Alone /\ Places /\ Cors /\ Queued /\ PromptInv /\ SlowInv
  BY DEF RpcInv
<1>2. PICK f \in Fds : f = call[c].fd
  BY <1>1, FdIs
<1>3. /\ sock' \in [Fds -> SocketType] /\ \A g \in Fds \ {f} : sock'[g] = sock[g]
      /\ sock'[f].state = "up" /\ sock'[f].owner = sock[f].owner
      /\ sock'[f].asked = sock[f].asked /\ sock'[f].answered = sock[f].answered
  BY <1>1, <1>2 DEF TypeInv, SocketType
<1>4. /\ call' \in [Callers -> CallType] /\ \A d \in Callers \ {c} : call'[d] = call[d]
      /\ call'[c].pc = "send" /\ call'[c].fd = f /\ call'[c].connFd = call[c].connFd
      /\ call'[c].calls = call[c].calls /\ call'[c].retry = call[c].retry
      /\ call'[c].left = call[c].left /\ call'[c].overTime = call[c].overTime
      /\ call'[c].result = call[c].result
  BY <1>1, <1>2 DEF TypeInv, CallType, Pcs
<1>5. TypeInv'
  <2>1. TypeOK'
    BY <1>1, <1>3 DEF TypeInv, TypeOK
  <2> QED
    BY <1>1, <1>3, <1>4, <2>1 DEF TypeInv
<1>6. sock[f].owner = c /\ sock[f].state = "fresh"
  BY <1>1, <1>2 DEF BaseInv
<1>7. BaseInv'
  BY <1>1, <1>2, <1>3, <1>4, <1>6, NumbersAre, RpcCallAssumption DEF BaseInv
<1> SUFFICES ASSUME Single PROVE (Alone /\ Places /\ Cors /\ Queued /\ PromptInv /\ SlowInv)'
  BY <1>5, <1>7 DEF RpcInv, Single
<1>8. Turn(c, call[c].fd)
  BY <1>2, <1>3, <1>4 DEF Turn
<1>9. Alone'
  BY <1>1, <1>2, <1>4, TurnAlone
<1>10. Places'
  <2>1. Place(c)'
    BY <1>1, <1>2, <1>3, <1>4, <1>6, PlaceIs DEF Place, Uses
  <2>2. SocketPlace(f)'
    BY <1>1, <1>3, PlaceIs DEF SocketPlace
  <2> QED
    BY <1>1, <1>2, <1>8, <2>1, <2>2, TurnPlaces
<1>11. Cors'
  BY <1>1, <1>8, TurnCors DEF Cors
<1>12. Queued'
  BY <1>1, <1>8, TurnQueued
<1>13. PromptInv'
  <2> SUFFICES ASSUME Prompt PROVE PromptInv'
    BY DEF PromptInv, Prompt
  <2>1. Woken(c) /\ PendingOf(c) /\ TasksOf(c) /\ Unique(pending)
    BY <1>1 DEF PromptInv, Resumes, EventsLive
  <2>2. Frame(c)' = Frame(c)
    BY <1>4 DEF Frame
  <2>3. tasks = <<>> /\ ToSet(tasks) = {}
    BY <2>1, EmptyElements DEF Woken
  <2>4. Woken(c)'
    BY <1>4, <2>1, <2>3 DEF Woken
  <2>5. PendingOf(c)' /\ TasksOf(c)'
    BY <1>4, <2>1, <2>2, <2>3 DEF PendingOf, TasksOf
  <2> QED
    BY <1>1, <1>8, <2>1, <2>4, <2>5, TurnPrompt
<1>14. SlowInv'
  <2> SUFFICES ASSUME ~Prompt PROVE SlowInv'
    BY DEF SlowInv, Prompt
  <2> QED
    BY <1>1, <1>4, SlowMoves
<1> QED
  BY <1>9, <1>10, <1>11, <1>12, <1>13, <1>14

\* The events of an attempt that is refused are gone.
LEMMA ConnectRefusedKeeps ==
    ASSUME RpcInv, crashed = "no", NEW c \in Callers, running = c, call[c].pc = "connect",
           pending' = Without(pending, CallEvent(c)), Retry(c),
           UNCHANGED <<faults, cor, armed, tasks, batch, queue, running>>
    PROVE  RpcInv'
<1>1. /\ TypeInv /\ BaseInv
      /\ Single => Alone /\ Places /\ Cors /\ Queued /\ PromptInv /\ SlowInv
  BY DEF RpcInv
<1>2. PICK e : e = CallEvent(c)
  OBVIOUS
<1>3. e \in Event /\ e.kind = "call" /\ e.caller = c /\ e.frame = Frame(c) /\ e.at = call[c].left
  BY <1>1, <1>2, CallEventIs
<1>4. /\ pending' \in Seq(Event) /\ Order(pending)'
      /\ ToSet(pending)' \subseteq ToSet(pending)
      /\ \A d \in ToSet(pending)' : d.at >= Floor
      /\ Unique(pending) => Unique(pending)' /\ \A d \in ToSet(pending)' : ~Same(d, e)
      /\ pending # <<>> /\ Head(pending).at <= e.at /\ ~Same(Head(pending), e) =>
            pending' # <<>> /\ Head(pending') = Head(pending)
  BY <1>1, <1>2, <1>3, DeleteFacts
<1>5. cor' \in [Fds -> Callers \cup {NoCaller}] /\ \A g \in Fds : cor'[g] = cor[g]
  BY <1>1 DEF TypeInv
<1>6. ASSUME Single
      PROVE  /\ \A g \in Fds : cor'[g] # c
             /\ Unique(pending)'
             /\ \A d \in ToSet(pending)' : ~(d.caller = c /\ d.frame = Frame(c))
             /\ ~Prompt /\ StaleFirst => pending' # <<>> /\ Head(pending') = Head(pending)
  <2>1. Unique(pending)' /\ \A d \in ToSet(pending)' : ~Same(d, e)
    BY <1>1, <1>4, <1>6, UniqueEvents
  <2>2. \A g \in Fds : cor'[g] # c
    BY <1>1, <1>5, <1>6 DEF Cors
  <2>3. ASSUME NEW d \in ToSet(pending), d.caller = c PROVE d.kind = "call"
    <3>1. d.kind \in {"call", "connect"}
      BY <1>1, EventParts
    <3>2. CASE Prompt
      BY <1>1, <1>6, <2>3, <3>1, <3>2 DEF PromptInv, EventsLive, PendingOf
    <3>3. CASE ~Prompt
      BY <1>1, <1>6, <3>1, <3>3, SlowFacts
    <3> QED
      BY <3>2, <3>3
  <2>4. \A d \in ToSet(pending)' : ~(d.caller = c /\ d.frame = Frame(c))
    BY <1>3, <1>4, <2>1, <2>3 DEF Same
  <2>5. ASSUME ~Prompt, StaleFirst PROVE pending' # <<>> /\ Head(pending') = Head(pending)
    <3>1. PICK h \in Event : pending # <<>> /\ h = Head(pending) /\ ~Live(h) /\ h.at <= call[c].left
      BY <2>5 DEF StaleFirst
    <3>2. Live(h) <=> h.caller = c /\ h.frame = Frame(c)
      BY <1>1, <1>6, <2>5, SlowFacts
    <3>3. ~Same(h, e) /\ h.at <= e.at
      BY <1>3, <3>1, <3>2 DEF Same
    <3> QED
      BY <1>4, <3>1, <3>3
  <2> QED
    BY <2>1, <2>2, <2>4, <2>5
<1> QED
  BY <1>4, <1>5, <1>6, RetryKeeps

\* A caller waits for a connection that is under way.
LEMMA ConnectSynKeeps ==
    ASSUME RpcInv, crashed = "no", NEW c \in Callers, running = c, call[c].pc = "connect",
           sock' = [sock EXCEPT ![call[c].fd].state = "syn"],
           watch' = [watch EXCEPT ![call[c].fd] = "WRITE"], cor' = [cor EXCEPT ![call[c].fd] = c],
           AddTimerEvent(ConnectEvent(c, ConnectTimeout)),
           call' = [call EXCEPT ![c].pc = "connecting", ![c].connectAt = ConnectTimeout],
           running' = NoCaller,
           UNCHANGED <<faults, addrs, tasks, batch, queue, crashed>>
    PROVE  RpcInv'
<1>1. /\ TypeInv /\ BaseInv
      /\ Single => Alone /\ Places /\ Cors /\ Queued /\ PromptInv /\ SlowInv
  BY DEF RpcInv
<1>2. PICK f \in Fds : f = call[c].fd
  BY <1>1, FdIs
<1>3. /\ sock' \in [Fds -> SocketType] /\ \A g \in Fds \ {f} : sock'[g] = sock[g]
      /\ sock'[f].state = "syn" /\ sock'[f].owner = sock[f].owner
      /\ sock'[f].asked = sock[f].asked /\ sock'[f].answered = sock[f].answered
  BY <1>1, <1>2 DEF TypeInv, SocketType
<1>4. ConnectTimeout \in Int /\ ConnectTimeout >= 1
  BY RpcCallAssumption
<1>5. /\ call' \in [Callers -> CallType] /\ \A d \in Callers \ {c} : call'[d] = call[d]
      /\ call'[c].pc = "connecting" /\ call'[c].fd = f /\ call'[c].connFd = call[c].connFd
      /\ call'[c].calls = call[c].calls /\ call'[c].retry = call[c].retry
      /\ call'[c].left = call[c].left /\ call'[c].overTime = call[c].overTime
      /\ call'[c].result = call[c].result /\ call'[c].connectAt = ConnectTimeout
  <2>1. call \in [Callers -> CallType]
    BY <1>1 DEF TypeInv
  <2> QED
    BY <1>2, <1>4, <2>1 DEF CallType, Pcs
<1>6. /\ watch' \in [Fds -> {"none", "READ", "WRITE"}] /\ cor' \in [Fds -> Callers \cup {NoCaller}]
      /\ \A g \in Fds \ {f} : watch'[g] = watch[g] /\ cor'[g] = cor[g]
      /\ watch'[f] = "WRITE" /\ cor'[f] = c
  BY <1>1, <1>2 DEF TypeInv
<1>7. PICK e : e = ConnectEvent(c, ConnectTimeout)
  OBVIOUS
<1>8. e \in Event /\ e.kind = "connect" /\ e.caller = c /\ e.frame = Frame(c) /\ e.at = ConnectTimeout
  BY <1>1, <1>4, <1>7, ConnectEventIs
<1>9. /\ pending' \in Seq(Event) /\ Order(pending)' /\ armed' \in Int
      /\ ToSet(pending)' = ToSet(pending) \cup {e}
      /\ \A d \in ToSet(pending)' : d.at >= Floor
      /\ Unique(pending) /\ (\A d \in ToSet(pending) : ~Same(d, e)) => Unique(pending)'
  BY <1>1, <1>4, <1>7, <1>8, AddFacts DEF Floor
<1>10. TypeInv'
  <2>1. TypeOK'
    BY <1>1, <1>3, <1>6, <1>9 DEF TypeInv, TypeOK, Order
  <2> QED
    BY <1>1, <1>3, <1>5, <1>6, <1>9, <2>1 DEF TypeInv
<1>11. sock[f].owner = c /\ sock[f].state = "fresh"
  BY <1>1, <1>2 DEF BaseInv
<1>12. BaseInv'
  BY <1>1, <1>2, <1>3, <1>4, <1>5, <1>11, NumbersAre, RpcCallAssumption DEF BaseInv, Floor
<1> SUFFICES ASSUME Single PROVE (Alone /\ Places /\ Cors /\ Queued /\ PromptInv /\ SlowInv)'
  BY <1>10, <1>12 DEF RpcInv, Single
<1>13. Turn(c, call[c].fd)
  BY <1>2, <1>3, <1>5, <1>6 DEF Turn
<1>14. Alone'
  BY <1>1, <1>2, <1>5, TurnAlone
<1>15. Places'
  <2>1. Place(c)'
    BY <1>1, <1>2, <1>3, <1>5, <1>11, PlaceIs, RpcCallAssumption DEF Place, Uses
  <2>2. SocketPlace(f)'
    BY <1>1, <1>3, PlaceIs DEF SocketPlace
  <2> QED
    BY <1>1, <1>2, <1>13, <2>1, <2>2, TurnPlaces
<1>16. Cors'
  <2>1. \A g \in Fds : cor[g] # c
    BY <1>1 DEF Cors
  <2> QED
    BY <1>1, <1>5, <1>6, <1>13, <2>1, TurnCors
<1>17. Queued'
  BY <1>1, <1>13, TurnQueued
<1>18. PromptInv'
  <2> SUFFICES ASSUME Prompt PROVE PromptInv'
    BY DEF PromptInv, Prompt
  <2>1. Woken(c) /\ PendingOf(c) /\ TasksOf(c) /\ Unique(pending)
    BY <1>1 DEF PromptInv, Resumes, EventsLive
  <2>2. Frame(c)' = Frame(c)
    BY <1>5 DEF Frame
  <2>3. tasks = <<>> /\ ToSet(tasks) = {}
    BY <2>1, EmptyElements DEF Woken
  <2>4. Woken(c)'
    BY <1>5, <1>6, <2>1, <2>3, RpcCallAssumption DEF Woken
  <2>5. \A d \in ToSet(pending) : ~Same(d, e)
    BY <1>8, <2>1 DEF PendingOf, Same
  <2>6. PendingOf(c)'
    BY <1>5, <1>8, <1>9, <2>1, <2>2 DEF PendingOf
  <2>7. TasksOf(c)'
    BY <2>3 DEF TasksOf
  <2> QED
    BY <1>1, <1>8, <1>9, <1>13, <2>1, <2>4, <2>5, <2>6, <2>7, TurnPrompt
<1>19. SlowInv'
  <2> SUFFICES ASSUME ~Prompt PROVE SlowInv'
    BY DEF SlowInv, Prompt
  <2> QED
    BY <1>1, <1>5, SlowSyn
<1> QED
  BY <1>14, <1>15, <1>16, <1>17, <1>18, <1>19

\* connect_hook up to its Yield.
LEMMA ConnectKeeps ==
    ASSUME RpcInv, crashed = "no", UNCHANGED faults, NEW c \in Callers, Connect(c)
    PROVE  RpcInv'
<1>1. running = c /\ call[c].pc = "connect"
  BY DEF Connect
<1> DEFINE Up == /\ sock' = [sock EXCEPT ![call[c].fd].state = "up"]
                 /\ call' = [call EXCEPT ![c].pc = "send"]
                 /\ UNCHANGED <<addrs, watch, cor, timerVars, loopVars, crashed>>
           Refused == /\ pending' = Without(pending, CallEvent(c)) /\ Retry(c)
                      /\ UNCHANGED <<cor, armed, loopVars>>
           Syn == /\ sock' = [sock EXCEPT ![call[c].fd].state = "syn"]
                  /\ watch' = [watch EXCEPT ![call[c].fd] = "WRITE"]
                  /\ cor' = [cor EXCEPT ![call[c].fd] = c]
                  /\ AddTimerEvent(ConnectEvent(c, ConnectTimeout))
                  /\ call' = [call EXCEPT ![c].pc = "connecting", ![c].connectAt = ConnectTimeout]
                  /\ running' = NoCaller
                  /\ UNCHANGED <<addrs, tasks, batch, queue, crashed>>
<1>2. Up \/ Refused \/ Syn
  BY DEF Connect
<1>3. CASE Up
  BY <1>1, <1>3, ConnectUpKeeps DEF timerVars, loopVars
<1>4. CASE Refused
  BY <1>1, <1>4, ConnectRefusedKeeps DEF loopVars
<1>5. CASE Syn
  BY <1>1, <1>5, ConnectSynKeeps
<1> QED
  BY <1>2, <1>3, <1>4, <1>5

\* A connection has been made.
LEMMA ConnectedKeeps ==
    ASSUME RpcInv, crashed = "no", NEW c \in Callers, running = c, call[c].pc = "connecting",
           cor' = [cor EXCEPT ![call[c].fd] = NoCaller],
           ConnectAgain(c) = "connected",
           pending' = Without(pending, ConnectEvent(c, call[c].connectAt)),
           watch' = Unwatched(call[c].fd),
           call' = [call EXCEPT ![c].pc = "send", ![c].connectAt = Never],
           UNCHANGED <<faults, addrs, sock, armed, tasks, batch, queue, running, crashed>>
    PROVE  RpcInv'
<1>1. /\ TypeInv /\ BaseInv
      /\ Single => Alone /\ Places /\ Cors /\ Queued /\ PromptInv /\ SlowInv
  BY DEF RpcInv
<1>2. PICK f \in Fds : f = call[c].fd
  BY <1>1, FdIs
<1>3. /\ call' \in [Callers -> CallType] /\ \A d \in Callers \ {c} : call'[d] = call[d]
      /\ call'[c].pc = "send" /\ call'[c].fd = f /\ call'[c].connFd = call[c].connFd
      /\ call'[c].calls = call[c].calls /\ call'[c].retry = call[c].retry
      /\ call'[c].left = call[c].left /\ call'[c].overTime = call[c].overTime
      /\ call'[c].result = call[c].result
  <2>1. call \in [Callers -> CallType] /\ Never \in Int
    BY <1>1 DEF TypeInv, Never
  <2>2. PICK r : r = [call[c] EXCEPT !.pc = "send", !.connectAt = Never]
    OBVIOUS
  <2>3. /\ r \in CallType /\ r.pc = "send" /\ r.fd = call[c].fd /\ r.connFd = call[c].connFd
        /\ r.calls = call[c].calls /\ r.retry = call[c].retry /\ r.left = call[c].left
        /\ r.overTime = call[c].overTime /\ r.result = call[c].result
    BY <2>1, <2>2 DEF CallType, Pcs
  <2>4. call' = [call EXCEPT ![c] = r]
    BY <2>1, <2>2
  <2> QED
    BY <1>2, <2>1, <2>3, <2>4
<1>4. /\ watch' \in [Fds -> {"none", "READ", "WRITE"}] /\ cor' \in [Fds -> Callers \cup {NoCaller}]
      /\ \A g \in Fds \ {f} : watch'[g] = watch[g] /\ cor'[g] = cor[g]
      /\ watch'[f] = "none" /\ cor'[f] = NoCaller
  BY <1>1, <1>2 DEF TypeInv, Unwatched
<1>5. PICK e : e = ConnectEvent(c, call[c].connectAt)
  OBVIOUS
<1>6. e \in Event /\ e.kind = "connect" /\ e.caller = c /\ e.frame = Frame(c)
  <2>1. call[c].connectAt \in Int
    BY <1>1 DEF TypeInv, CallType
  <2> QED
    BY <1>1, <1>5, <2>1, ConnectEventIs
<1>7. /\ pending' \in Seq(Event) /\ Order(pending)'
      /\ ToSet(pending)' \subseteq ToSet(pending)
      /\ \A d \in ToSet(pending)' : d.at >= Floor
      /\ Unique(pending) => Unique(pending)' /\ \A d \in ToSet(pending)' : ~Same(d, e)
  BY <1>1, <1>5, <1>6, DeleteFacts
<1>8. TypeInv'
  <2>1. TypeOK'
    BY <1>1, <1>4, <1>7 DEF TypeInv, TypeOK, Order
  <2> QED
    BY <1>1, <1>3, <1>4, <1>7, <2>1 DEF TypeInv
<1>9. BaseInv'
  <2>1. \A g \in Fds : sock[g].state # "none" => sock[g].owner \in Callers /\ call'[sock[g].owner].fd = g
    BY <1>1, <1>2, <1>3 DEF BaseInv
  <2> QED
    BY <1>1, <1>2, <1>3, <2>1, NumbersAre DEF BaseInv
<1> SUFFICES ASSUME Single PROVE (Alone /\ Places /\ Cors /\ Queued /\ PromptInv /\ SlowInv)'
  BY <1>8, <1>9 DEF RpcInv, Single
<1>10. Turn(c, call[c].fd)
  BY <1>2, <1>3, <1>4 DEF Turn
<1>11. sock[f].state \in {"up", "closed"}
  <2>1. sock[f].state \in {"syn", "up", "refused", "closed"}
    BY <1>1, <1>2, PlaceIs
  <2> QED
    BY <1>2, <2>1 DEF ConnectAgain
<1>12. Alone'
  BY <1>1, <1>2, <1>3, TurnAlone
<1>13. Places'
  <2>1. Place(c)'
    BY <1>1, <1>2, <1>3, <1>11, PlaceIs DEF Place, Uses
  <2>2. SocketPlace(f)'
    BY <1>1, PlaceIs DEF SocketPlace
  <2> QED
    BY <1>1, <1>2, <1>10, <2>1, <2>2, TurnPlaces
<1>14. Cors'
  <2>1. \A g \in Fds : cor'[g] # c
    BY <1>1, <1>2, <1>4, RpcCallAssumption DEF Cors
  <2> QED
    BY <1>1, <1>10, <2>1, TurnCors
<1>15. Queued'
  BY <1>1, <1>10, TurnQueued
<1>16. PromptInv'
  <2> SUFFICES ASSUME Prompt PROVE PromptInv'
    BY DEF PromptInv, Prompt
  <2>1. Woken(c) /\ PendingOf(c) /\ TasksOf(c) /\ Unique(pending)
    BY <1>1 DEF PromptInv, Resumes, EventsLive
  <2>2. Frame(c)' = Frame(c)
    BY <1>3 DEF Frame
  <2>3. tasks = <<>> /\ ToSet(tasks) = {}
    BY <2>1, EmptyElements DEF Woken
  <2>4. Woken(c)'
    BY <1>3, <2>1, <2>3 DEF Woken
  <2>5. \A d \in ToSet(pending)' : d.caller = c => d.kind = "call"
    <3> SUFFICES ASSUME NEW d \in ToSet(pending)', d.caller = c PROVE d.kind = "call"
      OBVIOUS
    <3>1. d.kind \in {"call", "connect"} /\ d.frame = Frame(c) /\ ~Same(d, e)
      BY <1>1, <1>7, <2>1, EventParts DEF PendingOf
    <3> QED
      BY <1>6, <3>1 DEF Same
  <2>6. PendingOf(c)' /\ TasksOf(c)'
    BY <1>3, <1>7, <2>1, <2>2, <2>3, <2>5 DEF PendingOf, TasksOf
  <2> QED
    BY <1>1, <1>7, <1>10, <2>1, <2>4, <2>6, TurnPrompt
<1>17. SlowInv'
  <2> SUFFICES ASSUME ~Prompt PROVE SlowInv'
    BY DEF SlowInv, Prompt
  <2> QED
    BY <1>1, <1>3, SlowConnected
<1> QED
  BY <1>12, <1>13, <1>14, <1>15, <1>16, <1>17

\* A connection that has failed: both events are deleted.
LEMMA ConnectFailedKeeps ==
    ASSUME RpcInv, crashed = "no", NEW c \in Callers, running = c, call[c].pc = "connecting",
           cor' = [cor EXCEPT ![call[c].fd] = NoCaller],
           pending' = Without(Without(pending, ConnectEvent(c, call[c].connectAt)), CallEvent(c)),
           Retry(c), UNCHANGED <<faults, armed, tasks, batch, queue, running>>
    PROVE  RpcInv'
<1>1. /\ TypeInv /\ BaseInv
      /\ Single => Alone /\ Places /\ Cors /\ Queued /\ PromptInv /\ SlowInv
  BY DEF RpcInv
<1>2. PICK f \in Fds : f = call[c].fd
  BY <1>1, FdIs
<1>3. PICK x, y : x = ConnectEvent(c, call[c].connectAt) /\ y = CallEvent(c)
  OBVIOUS
<1>4. /\ x \in Event /\ x.kind = "connect" /\ x.caller = c /\ x.frame = Frame(c)
      /\ x.at = call[c].connectAt
      /\ y \in Event /\ y.kind = "call" /\ y.caller = c /\ y.frame = Frame(c) /\ y.at = call[c].left
  <2>1. call[c].connectAt \in Int
    BY <1>1 DEF TypeInv, CallType
  <2> QED
    BY <1>1, <1>3, <2>1, ConnectEventIs, CallEventIs
<1>5. /\ pending \in Seq(Event) /\ Order(pending)
      /\ \A d \in ToSet(pending) : d.at >= Floor /\ d.kind \in {"call", "connect"}
  BY <1>1, EventParts DEF TypeInv, TypeOK, Order
<1>6. PICK m : m = Without(pending, x)
  OBVIOUS
<1>7. /\ m \in Seq(Event) /\ Order(m) /\ ToSet(m) \subseteq ToSet(pending)
      /\ Unique(pending) => Unique(m) /\ \A d \in ToSet(m) : ~Same(d, x)
      /\ pending # <<>> /\ Head(pending).at <= x.at /\ ~Same(Head(pending), x) =>
            m # <<>> /\ Head(m) = Head(pending)
  BY <1>4, <1>5, <1>6, WithoutFacts
<1>8. PICK r : r = Without(m, y)
  OBVIOUS
<1>9. /\ r \in Seq(Event) /\ Order(r) /\ ToSet(r) \subseteq ToSet(m)
      /\ Unique(m) => Unique(r) /\ \A d \in ToSet(r) : ~Same(d, y)
      /\ m # <<>> /\ Head(m).at <= y.at /\ ~Same(Head(m), y) => r # <<>> /\ Head(r) = Head(m)
  BY <1>4, <1>7, <1>8, WithoutFacts
<1>10. pending' = r
  BY <1>3, <1>6, <1>8
<1>11. /\ pending' \in Seq(Event) /\ Order(pending)' /\ ToSet(pending)' \subseteq ToSet(pending)
       /\ \A d \in ToSet(pending)' : d.at >= Floor
  BY <1>5, <1>7, <1>9, <1>10
<1>12. /\ cor' \in [Fds -> Callers \cup {NoCaller}]
       /\ \A g \in Fds : g # f => cor'[g] = cor[g]
       /\ cor'[f] = NoCaller
  BY <1>1, <1>2 DEF TypeInv
<1>13. ASSUME Single
       PROVE  /\ \A g \in Fds : cor'[g] # c
              /\ Unique(pending)'
              /\ \A d \in ToSet(pending)' : ~(d.caller = c /\ d.frame = Frame(c))
              /\ ~Prompt /\ StaleFirst => pending' # <<>> /\ Head(pending') = Head(pending)
  <2>1. Unique(r) /\ \A d \in ToSet(r) : ~Same(d, x) /\ ~Same(d, y)
    BY <1>1, <1>7, <1>9, <1>13, UniqueEvents
  <2>2. \A g \in Fds : cor'[g] # c
    BY <1>1, <1>2, <1>12, <1>13, RpcCallAssumption DEF Cors
  <2>3. \A d \in ToSet(r) : ~(d.caller = c /\ d.frame = Frame(c))
    BY <1>4, <1>5, <1>7, <1>9, <2>1 DEF Same
  <2>4. ASSUME ~Prompt, StaleFirst PROVE r # <<>> /\ Head(r) = Head(pending)
    <3>1. PICK h \in Event :
            /\ pending # <<>> /\ h = Head(pending) /\ ~Live(h)
            /\ h.at <= call[c].left /\ h.at <= call[c].connectAt
      BY <2>4 DEF StaleFirst
    <3>2. Live(h) <=> h.caller = c /\ h.frame = Frame(c)
      BY <1>1, <1>13, <2>4, SlowFacts
    <3>3. ~Same(h, x) /\ ~Same(h, y) /\ h.at <= x.at /\ h.at <= y.at
      BY <1>4, <3>1, <3>2 DEF Same
    <3> QED
      BY <1>7, <1>9, <3>1, <3>3
  <2> QED
    BY <1>10, <2>1, <2>2, <2>3, <2>4
<1>14. \A g \in Fds : g = call[c].fd => cor'[g] \in {cor[g], NoCaller}
  BY <1>2, <1>12
<1>15. \A g \in Fds : g # call[c].fd => cor'[g] = cor[g]
  BY <1>2, <1>12
<1> QED
  BY <1>11, <1>12, <1>13, <1>14, <1>15, RetryKeeps

\* A connection that is neither: the caller tries again on a new socket, which
\* has the number of the one it has just closed.
LEMMA ResetKeeps ==
    ASSUME RpcInv, crashed = "no", NEW c \in Callers, running = c, call[c].pc = "connecting",
           cor' = [cor EXCEPT ![call[c].fd] = NoCaller],
           ConnectAgain(c) = "under way",
           pending' = Without(pending, ConnectEvent(c, call[c].connectAt)),
           ResetFd(c, "connect"),
           UNCHANGED <<faults, addrs, armed, tasks, batch, queue, running, crashed>>
    PROVE  RpcInv'
<1>1. /\ TypeInv /\ BaseInv
      /\ Single => Alone /\ Places /\ Cors /\ Queued /\ PromptInv /\ SlowInv
  BY DEF RpcInv
<1>2. PICK f \in Fds : f = call[c].fd
  BY <1>1, FdIs
<1>3. PICK s : s = Closing(f)
  OBVIOUS
<1>4. /\ s \in [Fds -> SocketType] /\ s[f].state = "none" /\ \A h \in Fds \ {f} : s[h] = sock[h]
  BY <1>1, <1>2, <1>3 DEF TypeInv, Closing, Closed, SocketType
<1>5. PICK g : g = Lowest(s)
  OBVIOUS
<1>6. g \in Fds /\ s[g].state = "none" /\ \A h \in Fds : s[h].state = "none" => g <= h
  BY <1>2, <1>4, <1>5, LowestIs
<1>7. /\ sock' = [s EXCEPT ![g] = Fresh(c)] /\ watch' = Unwatched(f)
      /\ call' = [call EXCEPT ![c].fd = g, ![c].pc = "connect", ![c].connectAt = Never]
  BY <1>2, <1>3, <1>5 DEF ResetFd
<1>8. /\ sock' \in [Fds -> SocketType] /\ sock'[g].state = "fresh" /\ sock'[g].owner = c
      /\ sock'[g].asked = {} /\ sock'[g].answered = {}
      /\ \A h \in Fds \ {g} : sock'[h] = s[h]
  BY <1>4, <1>6, <1>7 DEF SocketType, Fresh, Closed
<1>9. /\ watch' \in [Fds -> {"none", "READ", "WRITE"}] /\ cor' \in [Fds -> Callers \cup {NoCaller}]
      /\ \A h \in Fds \ {f} : watch'[h] = watch[h] /\ cor'[h] = cor[h]
      /\ watch'[f] = "none" /\ cor'[f] = NoCaller
  BY <1>1, <1>2, <1>7 DEF TypeInv, Unwatched
<1>10. /\ call' \in [Callers -> CallType] /\ \A d \in Callers \ {c} : call'[d] = call[d]
       /\ call'[c].pc = "connect" /\ call'[c].fd = g /\ call'[c].connFd = call[c].connFd
       /\ call'[c].calls = call[c].calls /\ call'[c].retry = call[c].retry
       /\ call'[c].left = call[c].left /\ call'[c].overTime = call[c].overTime
       /\ call'[c].result = call[c].result
  <2>1. call \in [Callers -> CallType] /\ Never \in Int /\ g \in Fds \cup {NoFd}
    <3>1. g \in Fds
      BY <1>6
    <3> QED
      BY ONLY <1>1, <3>1 DEF TypeInv, Never
  <2>2. PICK r : r = [call[c] EXCEPT !.fd = g, !.pc = "connect", !.connectAt = Never]
    OBVIOUS
  <2>3. /\ r \in CallType /\ r.pc = "connect" /\ r.fd = g /\ r.connFd = call[c].connFd
        /\ r.calls = call[c].calls /\ r.retry = call[c].retry /\ r.left = call[c].left
        /\ r.overTime = call[c].overTime /\ r.result = call[c].result
    BY <2>1, <2>2 DEF CallType, Pcs
  <2>4. call' = [call EXCEPT ![c] = r]
    BY <1>7, <2>1, <2>2
  <2> QED
    BY <2>1, <2>3, <2>4
<1>11. PICK e : e = ConnectEvent(c, call[c].connectAt)
  OBVIOUS
<1>12. e \in Event
  <2>1. call[c].connectAt \in Int
    BY <1>1 DEF TypeInv, CallType
  <2> QED
    BY <1>1, <1>11, <2>1, ConnectEventIs
<1>13. /\ pending' \in Seq(Event) /\ Order(pending)'
       /\ \A d \in ToSet(pending)' : d.at >= Floor
  BY <1>1, <1>11, <1>12, DeleteFacts
<1>14. TypeInv'
  <2>1. \A h \in Fds : /\ sock'[h].state \in {"none", "fresh", "syn", "up", "refused", "closed"}
                       /\ sock'[h].asked \cup sock'[h].answered \subseteq Callers
                       /\ watch'[h] # "none" => sock'[h].state # "none"
    <3> SUFFICES ASSUME NEW h \in Fds, watch'[h] # "none" PROVE sock'[h].state # "none"
      BY <1>8 DEF SocketType
    <3>1. h # f /\ watch[h] # "none"
      BY <1>9
    <3>2. sock[h].state # "none"
      BY <1>1, <3>1 DEF TypeInv, TypeOK
    <3>3. s[h].state # "none" /\ h # g
      BY <1>4, <1>6, <3>1, <3>2
    <3> QED
      BY <1>8, <3>3
  <2>2. TypeOK'
    BY <1>1, <1>9, <1>13, <2>1 DEF TypeInv, TypeOK, Order
  <2> QED
    BY <1>1, <1>8, <1>9, <1>10, <1>13, <2>2 DEF TypeInv
<1>15. BaseInv'
  <2>1. ASSUME NEW h \in Fds, sock'[h].state # "none"
        PROVE  \E d \in Callers : sock'[h].owner = d /\ call'[d].fd = h
    <3>1. CASE h = g
      BY <1>8, <1>10, <3>1
    <3>2. CASE h # g
      <4>1. h # f /\ sock'[h] = sock[h]
        BY <1>4, <1>8, <2>1, <3>2
      <4>2. PICK d \in Callers : sock[h].owner = d /\ call[d].fd = h
        BY <1>1, <2>1, <4>1 DEF BaseInv
      <4>3. d # c
        BY <1>2, <4>1, <4>2
      <4> QED
        BY <1>10, <4>1, <4>2, <4>3
    <3> QED
      BY <3>1, <3>2
  <2>2. \A d \in Callers \ {c} : call[d].pc # "connect"
    BY <1>1 DEF BaseInv
  <2>3. ASSUME NEW d \in Callers
        PROVE  /\ call'[d].pc \in {"idle", "select"} <=> call'[d].fd = NoFd
               /\ call'[d].pc \notin {"idle", "select"} => call'[d].connFd \in Fds
               /\ call'[d].pc = "connect" =>
                     running' = d /\ sock'[call'[d].fd].owner = d /\ sock'[call'[d].fd].state = "fresh"
               /\ call'[d].pc # "idle" => call'[d].result = "none" /\ call'[d].left >= Floor
               /\ call'[d].pc = "connecting" => call'[d].connectAt >= Floor
    <3>1. CASE d = c
      <4>1. call[c].result = "none" /\ call[c].left >= Floor /\ call[c].connFd \in Fds
        BY <1>1 DEF BaseInv
      <4> QED
        BY <1>6, <1>8, <1>10, <3>1, <4>1, NumbersAre
    <3>2. CASE d # c
      <4>1. /\ call[d].pc \in {"idle", "select"} <=> call[d].fd = NoFd
            /\ call[d].pc \notin {"idle", "select"} => call[d].connFd \in Fds
            /\ call[d].pc # "idle" => call[d].result = "none" /\ call[d].left >= Floor
            /\ call[d].pc = "connecting" => call[d].connectAt >= Floor
        BY <1>1 DEF BaseInv
      <4>2. call'[d] = call[d] /\ call[d].pc # "connect"
        BY <1>10, <2>2, <3>2
      <4> QED
        BY ONLY <4>1, <4>2
    <3> QED
      BY <3>1, <3>2
  <2> QED
    BY <2>1, <2>3 DEF BaseInv
<1> SUFFICES ASSUME Single PROVE (Alone /\ Places /\ Cors /\ Queued /\ PromptInv /\ SlowInv)'
  BY <1>14, <1>15 DEF RpcInv, Single
<1>16. ~Prompt
  <2>1. sock[f].state \notin {"up", "refused", "closed"}
    BY <1>2 DEF ConnectAgain
  <2> QED
    BY <1>1, <1>2, <2>1 DEF PromptInv, Resumes, Woken
<1>17. "overlap" \notin faults /\ \A d \in Callers : d # c => call[d].pc = "idle"
  BY <1>1, <1>16, FaultCases DEF Alone
<1>18. g = f
  <2>1. \A h \in Fds : f <= h
    BY <1>1, <1>2, <1>17 DEF Alone
  <2>2. g <= f
    BY <1>4, <1>6
  <2> QED
    <3>1. f <= g /\ f \in Int /\ g \in Int
      BY <1>6, <2>1, NumbersAre
    <3> QED
      BY ONLY <2>2, <3>1
<1>19. \A h \in Fds \ {f} : sock'[h] = sock[h]
  BY <1>4, <1>8, <1>18
<1>20. Turn(c, call[c].fd)
  BY <1>2, <1>9, <1>10, <1>19 DEF Turn
<1>21. Alone'
  BY <1>1, <1>2, <1>10, <1>18, TurnAlone
<1>22. Places'
  <2>1. Place(c)'
    <3>1. call'[c].connFd = f
      BY <1>1, <1>2, <1>10, PlaceIs
    <3>2. call'[c].fd = f /\ sock'[f].owner = c /\ sock'[f].state = "fresh"
      BY <1>8, <1>10, <1>18
    <3> QED
      BY <1>10, <3>1, <3>2 DEF Place, Uses
  <2>2. SocketPlace(f)'
    BY <1>8, <1>18 DEF SocketPlace
  <2> QED
    BY <1>1, <1>2, <1>20, <2>1, <2>2, TurnPlaces
<1>23. Cors'
  <2>1. \A h \in Fds : cor'[h] # c
    <3>1. \A h \in Fds : cor[h] = c => h = f
      BY <1>1, <1>2 DEF Cors
    <3> QED
      BY <1>9, <3>1, RpcCallAssumption
  <2> QED
    BY <1>1, <1>20, <2>1, TurnCors
<1>24. Queued'
  BY <1>1, <1>20, TurnQueued
<1>25. PromptInv'
  BY <1>16 DEF PromptInv, Prompt
<1>26. SlowInv'
  BY <1>1, <1>10, <1>16, SlowConnected
<1> QED
  BY <1>21, <1>22, <1>23, <1>24, <1>25, <1>26

\* connect_hook after its Yield.
LEMMA ConnectingKeeps ==
    ASSUME RpcInv, crashed = "no", UNCHANGED faults, NEW c \in Callers, Connecting(c)
    PROVE  RpcInv'
<1>1. /\ running = c /\ call[c].pc = "connecting" /\ cor' = [cor EXCEPT ![call[c].fd] = NoCaller]
      /\ UNCHANGED <<armed, tasks, batch, queue, running>>
  BY DEF Connecting, loopVars
<1> DEFINE others == Without(pending, ConnectEvent(c, call[c].connectAt))
           Up == /\ ConnectAgain(c) = "connected" /\ pending' = others
                 /\ watch' = Unwatched(call[c].fd)
                 /\ call' = [call EXCEPT ![c].pc = "send", ![c].connectAt = Never]
                 /\ UNCHANGED <<addrs, sock, crashed>>
           Failed == ConnectAgain(c) = "error" /\ pending' = Without(others, CallEvent(c)) /\ Retry(c)
           Again == /\ ConnectAgain(c) = "under way" /\ pending' = others
                    /\ ResetFd(c, "connect") /\ UNCHANGED <<addrs, crashed>>
<1>2. Up \/ Failed \/ Again
  BY DEF Connecting
<1>3. CASE Up
  BY <1>1, <1>3, ConnectedKeeps
<1>4. CASE Failed
  BY <1>1, <1>4, ConnectFailedKeeps
<1>5. CASE Again
  BY <1>1, <1>5, ResetKeeps
<1> QED
  BY <1>2, <1>3, <1>4, <1>5

\* The request is written, or waits for a socket that is gone.
LEMMA SendKeeps ==
    ASSUME RpcInv, crashed = "no", UNCHANGED faults, NEW c \in Callers, Send(c)
    PROVE  RpcInv'
<1>1. /\ TypeInv /\ BaseInv
      /\ Single => Alone /\ Places /\ Cors /\ Queued /\ PromptInv /\ SlowInv
  BY DEF RpcInv
<1>2. PICK f, g : f = call[c].connFd /\ g = call[c].fd
  OBVIOUS
<1>3. /\ running = c /\ call[c].pc = "send"
      /\ IF sock[f].state = "up"
         THEN /\ sock' = [sock EXCEPT ![f].asked = @ \cup {c}]
              /\ call' = [call EXCEPT ![c].pc = "recv"] /\ running' = running
         ELSE /\ call' = [call EXCEPT ![c].pc = "sending"]
              /\ running' = NoCaller /\ sock' = sock
      /\ UNCHANGED <<faults, addrs, watch, cor, pending, armed, tasks, batch, queue, crashed>>
  BY <1>2 DEF Send, timerVars
<1>4. f \in Fds /\ g \in Fds
  BY <1>1, <1>2, <1>3, FdIs
<1>5. /\ sock' \in [Fds -> SocketType] /\ \A h \in Fds \ {f} : sock'[h] = sock[h]
      /\ \A h \in Fds : sock'[h].state = sock[h].state /\ sock'[h].owner = sock[h].owner
      /\ sock'[f].asked \subseteq sock[f].asked \cup {c} /\ sock'[f].answered = sock[f].answered
  <2>1. sock \in [Fds -> SocketType]
    BY <1>1 DEF TypeInv
  <2>2. CASE sock[f].state = "up"
    <3>1. sock' = [sock EXCEPT ![f].asked = sock[f].asked \cup {c}]
      BY <1>3, <2>2
    <3> QED
      BY <1>4, <2>1, <3>1 DEF SocketType
  <2>3. CASE sock[f].state # "up"
    BY <1>3, <2>1, <2>3
  <2> QED
    BY <2>2, <2>3
<1>6. /\ call' \in [Callers -> CallType] /\ \A d \in Callers \ {c} : call'[d] = call[d]
      /\ call'[c].pc = (IF sock[f].state = "up" THEN "recv" ELSE "sending")
      /\ call'[c].fd = g /\ call'[c].connFd = call[c].connFd
      /\ call'[c].calls = call[c].calls /\ call'[c].retry = call[c].retry
      /\ call'[c].left = call[c].left /\ call'[c].overTime = call[c].overTime
      /\ call'[c].result = call[c].result
  <2>1. call \in [Callers -> CallType]
    BY <1>1 DEF TypeInv
  <2> QED
    BY <1>2, <1>3, <2>1 DEF CallType, Pcs
<1>7. TypeInv'
  <2>1. TypeOK'
    BY <1>1, <1>3, <1>5 DEF TypeInv, TypeOK, SocketType
  <2> QED
    BY <1>1, <1>3, <1>5, <1>6, <2>1 DEF TypeInv
<1>8. BaseInv'
  <2>1. \A h \in Fds : sock'[h].state # "none" =>
            sock'[h].owner \in Callers /\ call'[sock'[h].owner].fd = h
    BY <1>1, <1>2, <1>5, <1>6 DEF BaseInv
  <2>2. \A d \in Callers \ {c} : call[d].pc # "connect"
    BY <1>1, <1>3 DEF BaseInv
  <2> QED
    BY <1>1, <1>2, <1>3, <1>4, <1>6, <2>1, <2>2, NumbersAre DEF BaseInv
<1> SUFFICES ASSUME Single PROVE (Alone /\ Places /\ Cors /\ Queued /\ PromptInv /\ SlowInv)'
  BY <1>3, <1>7, <1>8 DEF RpcInv, Single
<1>9. f = g /\ sock[f].owner = c /\ sock[f].state \in {"up", "closed"}
  BY <1>1, <1>2, <1>3, PlaceIs
<1>10. Turn(c, call[c].fd)
  BY <1>2, <1>3, <1>5, <1>6, <1>9 DEF Turn
<1>11. Alone'
  BY <1>1, <1>2, <1>3, <1>6, TurnAlone
<1>12. Places'
  <2>1. Place(c)'
    <3>1. /\ call'[c].connFd = f /\ call'[c].fd = f
          /\ sock'[f].owner = c /\ sock'[f].state = sock[f].state
      BY <1>2, <1>4, <1>5, <1>6, <1>9
    <3>2. CASE sock[f].state = "up"
      BY <1>3, <1>6, <3>1, <3>2 DEF Place, Uses
    <3>3. CASE sock[f].state = "closed"
      BY <1>3, <1>6, <3>1, <3>3, RpcCallAssumption DEF Place, Uses
    <3> QED
      BY <1>9, <3>2, <3>3
  <2>2. SocketPlace(f)'
    BY <1>1, <1>3, <1>4, <1>5, <1>9, PlaceIs DEF SocketPlace
  <2> QED
    BY <1>1, <1>2, <1>3, <1>9, <1>10, <2>1, <2>2, TurnPlaces
<1>13. Cors'
  <2>1. \A h \in Fds : cor'[h] # c
    BY <1>1, <1>3 DEF Cors
  <2> QED
    BY <1>1, <1>3, <1>10, <2>1, TurnCors
<1>14. Queued'
  BY <1>1, <1>3, <1>10, TurnQueued
<1>15. PromptInv'
  <2> SUFFICES ASSUME Prompt PROVE PromptInv'
    BY <1>3 DEF PromptInv, Prompt
  <2>1. Woken(c) /\ PendingOf(c) /\ TasksOf(c) /\ Unique(pending)
    BY <1>1 DEF PromptInv, Resumes, EventsLive
  <2>2. Frame(c)' = Frame(c)
    BY <1>6 DEF Frame
  <2>3. tasks = <<>> /\ ToSet(tasks) = {} /\ ~call[c].overTime
    BY <1>3, <2>1, EmptyElements DEF Woken
  <2>4. Woken(c)'
    BY <1>3, <1>6, <2>3, RpcCallAssumption DEF Woken
  <2>5. PendingOf(c)' /\ TasksOf(c)'
    BY <1>3, <1>6, <2>1, <2>2, <2>3 DEF PendingOf, TasksOf
  <2> QED
    BY <1>1, <1>3, <1>10, <2>1, <2>4, <2>5, TurnPrompt
<1>16. SlowInv'
  <2> SUFFICES ASSUME ~Prompt PROVE SlowInv'
    BY <1>3 DEF SlowInv, Prompt
  <2>1. sock[f].state = "up"
    BY <1>1, <1>4, <1>9, FaultCases, PlaceIs
  <2>2. call'[c].pc = "recv" /\ running' = c
    BY <1>3, <1>6, <2>1
  <2> QED
    BY <1>1, <1>3, <1>6, <2>2, SlowMoves
<1> QED
  BY <1>11, <1>12, <1>13, <1>14, <1>15, <1>16

\* The events of a call that is answered are gone.
LEMMA AnsweredKeeps ==
    ASSUME RpcInv, crashed = "no", NEW c \in Callers, running = c, call[c].pc \in {"recv", "receiving"},
           call[c].pc = "receiving" => ~call[c].overTime,
           pending' = Without(pending, CallEvent(c)), Return(c, "ok"),
           UNCHANGED <<faults, armed, tasks, batch, queue>>,
           cor' \in [Fds -> Callers \cup {NoCaller}],
           Single =>
               /\ \A g \in Fds : g # call[c].fd => cor'[g] = cor[g]
               /\ \A g \in Fds : g = call[c].fd => cor'[g] \in {cor[g], NoCaller}
               /\ \A g \in Fds : cor'[g] # c
    PROVE  RpcInv'
<1>1. /\ TypeInv /\ BaseInv
      /\ Single => Alone /\ Places /\ Cors /\ Queued /\ PromptInv /\ SlowInv
  BY DEF RpcInv
<1>2. PICK e : e = CallEvent(c)
  OBVIOUS
<1>3. e \in Event /\ e.kind = "call" /\ e.caller = c /\ e.frame = Frame(c) /\ e.at = call[c].left
  BY <1>1, <1>2, CallEventIs
<1>4. /\ pending' \in Seq(Event) /\ Order(pending)'
      /\ ToSet(pending)' \subseteq ToSet(pending)
      /\ \A d \in ToSet(pending)' : d.at >= Floor
      /\ Unique(pending) => Unique(pending)' /\ \A d \in ToSet(pending)' : ~Same(d, e)
      /\ pending # <<>> /\ Head(pending).at <= e.at /\ ~Same(Head(pending), e) =>
            pending' # <<>> /\ Head(pending') = Head(pending)
  BY <1>1, <1>2, <1>3, DeleteFacts
<1>5. ASSUME Single
      PROVE  /\ Unique(pending)'
             /\ Prompt => \A d \in ToSet(pending)' \cup ToSet(tasks) : d.caller # c
             /\ ~Prompt /\ pending' # <<>> =>
                   /\ Dead /\ tasks = <<>>
                   /\ \E h \in Event : h = Head(pending') /\ h.kind = "call" /\ h.at <= 0
  <2>1. Unique(pending)' /\ \A d \in ToSet(pending)' : ~Same(d, e)
    BY <1>1, <1>4, <1>5, UniqueEvents
  <2>2. ASSUME Prompt, NEW d \in ToSet(pending)' \cup ToSet(tasks), d.caller = c PROVE FALSE
    <3>1. Woken(c) /\ PendingOf(c)
      BY <1>1, <1>5, <2>2 DEF PromptInv, Resumes, EventsLive
    <3>2. tasks = <<>>
      BY <3>1 DEF Woken
    <3>3. d \in ToSet(pending)' /\ d \in ToSet(pending)
      BY <1>4, <3>2, EmptyElements
    <3>4. d.kind = "call" /\ d.frame = Frame(c)
      BY <1>1, <2>2, <3>1, <3>3, EventParts DEF PendingOf
    <3> QED
      BY <1>3, <2>1, <2>2, <3>3, <3>4 DEF Same
  <2>3. ASSUME ~Prompt, pending' # <<>>
        PROVE  /\ Dead /\ tasks = <<>>
               /\ \E h \in Event : h = Head(pending') /\ h.kind = "call" /\ h.at <= 0
    <3>1. PICK d : d = Head(pending') /\ d \in ToSet(pending)'
      BY <1>4, <2>3, EventPlaces
    <3>2. /\ d.kind # "connect"
          /\ \A h \in Event : Live(h) <=> h.caller = c /\ h.frame = Frame(c)
          /\ d \in ToSet(pending) /\ d \in Event /\ d.kind \in {"call", "connect"}
          /\ ~Live(d) => StaleFirst /\ Dead /\ tasks = <<>>
      BY <1>1, <1>4, <1>5, <2>3, <3>1, SlowFacts
    <3>3. ~Live(d)
      BY <1>3, <2>1, <3>1, <3>2 DEF Same
    <3>4. StaleFirst /\ Dead /\ tasks = <<>>
      BY <3>2, <3>3
    <3>5. PICK h \in Event : /\ pending # <<>> /\ h = Head(pending) /\ h.kind = "call"
                             /\ ~Live(h) /\ h.at <= 0 /\ h.at <= call[c].left
      BY <3>4 DEF StaleFirst
    <3>6. ~Same(h, e) /\ h.at <= e.at
      BY <1>3, <3>2, <3>5 DEF Same
    <3>7. h = Head(pending')
      BY <1>4, <3>5, <3>6
    <3> QED
      BY <3>4, <3>5, <3>7
  <2> QED
    BY <2>1, <2>2, <2>3
<1>6. call[c].pc # "connecting" /\ call[c].pc \notin {"idle", "select"}
  OBVIOUS
<1> QED
  BY <1>4, <1>5, <1>6, ReturnKeeps

\* No event of a call that is over time is left, or none that the timerfd still
\* waits for.
LEMMA OverTimeKeeps ==
    ASSUME RpcInv, crashed = "no", NEW c \in Callers, running = c,
           call[c].pc \in {"receiving", "sending", "abandoned"}, call[c].overTime,
           Return(c, "timeout"), UNCHANGED <<faults, pending, armed, tasks, batch, queue>>,
           cor' \in [Fds -> Callers \cup {NoCaller}],
           Single =>
               /\ \A g \in Fds : g # call[c].fd => cor'[g] = cor[g]
               /\ \A g \in Fds : g = call[c].fd => cor'[g] \in {cor[g], NoCaller}
               /\ \A g \in Fds : cor'[g] # c
    PROVE  RpcInv'
<1>1. /\ TypeInv /\ BaseInv
      /\ Single => Alone /\ Places /\ Cors /\ Queued /\ PromptInv /\ SlowInv
  BY DEF RpcInv
<1>2. /\ pending' \in Seq(Event) /\ Order(pending)' /\ \A d \in ToSet(pending)' : d.at >= Floor
      /\ ToSet(pending)' \subseteq ToSet(pending)
  BY <1>1 DEF TypeInv, TypeOK, Order
<1>3. ASSUME Single
      PROVE  /\ Unique(pending)'
             /\ Prompt => \A d \in ToSet(pending)' \cup ToSet(tasks) : d.caller # c
             /\ ~Prompt /\ pending' # <<>> =>
                   /\ Dead /\ tasks = <<>>
                   /\ \E h \in Event : h = Head(pending') /\ h.kind = "call" /\ h.at <= 0
  <2>1. Unique(pending)'
    BY <1>1, <1>3, UniqueEvents
  <2>2. Prompt => \A d \in ToSet(pending)' \cup ToSet(tasks) : d.caller # c
    BY <1>1, <1>3 DEF PromptInv, Resumes, Woken
  <2>3. ASSUME ~Prompt, pending # <<>>
        PROVE  /\ Dead /\ tasks = <<>>
               /\ \E h \in Event : h = Head(pending) /\ h.kind = "call" /\ h.at <= 0
    <3>1. PICK d : d = Head(pending) /\ d \in ToSet(pending)
      BY <1>2, <2>3, EventPlaces
    <3>2. /\ SlowOver /\ d.kind = "call" /\ d \in Event
          /\ \A h \in Event : Live(h) <=> h.caller = c /\ h.frame = Frame(c)
          /\ ~Live(d) => StaleFirst /\ Dead /\ tasks = <<>>
      BY <1>1, <1>3, <2>3, <3>1, SlowFacts
    <3>3. CASE Live(d)
      <4>1. Dead /\ tasks = <<>> /\ LiveFirst(c)
        BY <3>1, <3>2, <3>3 DEF SlowOver
      <4> QED
        BY <4>1 DEF LiveFirst
    <3>4. CASE ~Live(d)
      BY <3>2, <3>4 DEF StaleFirst
    <3> QED
      BY <3>3, <3>4
  <2> QED
    BY <2>1, <2>2, <2>3
<1>4. call[c].pc # "connecting" /\ call[c].pc \notin {"idle", "select"}
  OBVIOUS
<1> QED
  BY <1>2, <1>3, <1>4, ReturnKeeps

\* The replies on a number are read.  Under one fault they are the caller's own.
LEMMA TakenKeeps ==
    ASSUME RpcInv, crashed = "no", NEW c \in Callers, running = c, call[c].pc \in {"recv", "receiving"},
           call[c].pc = "receiving" => ~call[c].overTime,
           sock[call[c].connFd].answered # {}, Taken(c),
           UNCHANGED <<faults, armed, tasks, batch, queue>>,
           cor' \in [Fds -> Callers \cup {NoCaller}],
           Single =>
               /\ \A g \in Fds : g # call[c].fd => cor'[g] = cor[g]
               /\ \A g \in Fds : g = call[c].fd => cor'[g] \in {cor[g], NoCaller}
               /\ \A g \in Fds : cor'[g] # c
    PROVE  RpcInv'
<1>1. /\ TypeInv /\ BaseInv
      /\ Single => Alone /\ Places /\ Cors /\ Queued /\ PromptInv /\ SlowInv
  BY DEF RpcInv
<1>2. PICK f : f = call[c].connFd
  OBVIOUS
<1>3. f \in Fds
  BY <1>1, <1>2, FdIs
<1>4. CASE c \in sock[f].answered
  <2>1. pending' = Without(pending, CallEvent(c)) /\ Return(c, "ok")
    BY <1>2, <1>4 DEF Taken
  <2> QED
    BY <2>1, AnsweredKeeps
<1>5. CASE c \notin sock[f].answered
  <2>1. /\ sock' = [sock EXCEPT ![f].answered = {}] /\ call' = [call EXCEPT ![c].pc = "recv"]
        /\ UNCHANGED <<addrs, watch, pending, running, crashed>>
    BY <1>2, <1>5 DEF Taken
  <2>2. ~Single
    <3> SUFFICES ASSUME Single PROVE FALSE
      OBVIOUS
    <3>1. sock[f].owner = c /\ sock[f].answered \subseteq {sock[f].owner}
      BY <1>1, <1>2, <1>3, PlaceIs
    <3> QED
      BY <1>2, <1>5, <3>1
  <2>3. /\ sock' \in [Fds -> SocketType]
        /\ \A g \in Fds : sock'[g].state = sock[g].state /\ sock'[g].owner = sock[g].owner
    <3>1. sock \in [Fds -> SocketType]
      BY <1>1 DEF TypeInv
    <3> QED
      BY <1>3, <2>1, <3>1 DEF SocketType
  <2>4. /\ call' \in [Callers -> CallType] /\ \A d \in Callers \ {c} : call'[d] = call[d]
        /\ call'[c].pc = "recv" /\ call'[c].fd = call[c].fd /\ call'[c].connFd = call[c].connFd
        /\ call'[c].left = call[c].left /\ call'[c].result = call[c].result
    <3>1. call \in [Callers -> CallType]
      BY <1>1 DEF TypeInv
    <3> QED
      BY <2>1, <3>1 DEF CallType, Pcs
  <2>5. TypeInv'
    <3>1. TypeOK'
      BY <1>1, <2>1, <2>3 DEF TypeInv, TypeOK, SocketType
    <3> QED
      BY <1>1, <2>1, <2>3, <2>4, <3>1 DEF TypeInv
  <2>6. BaseInv'
    <3>1. \A h \in Fds : sock'[h].state # "none" =>
              sock'[h].owner \in Callers /\ call'[sock'[h].owner].fd = h
      BY <1>1, <2>3, <2>4 DEF BaseInv
    <3>2. \A d \in Callers \ {c} : call[d].pc # "connect"
      BY <1>1 DEF BaseInv
    <3> QED
      BY <1>1, <2>1, <2>4, <3>1, <3>2 DEF BaseInv
  <2>7. ~Single'
    BY <2>2 DEF Single
  <2> QED
    BY <2>5, <2>6, <2>7 DEF RpcInv
<1> QED
  BY <1>4, <1>5

\* A caller waits for its reply.
LEMMA RecvWaitKeeps ==
    ASSUME RpcInv, crashed = "no", NEW c \in Callers, running = c, call[c].pc = "recv",
           NEW f \in Fds, f = call[c].connFd,
           watch' = IF sock[f].state = "none" THEN watch ELSE [watch EXCEPT ![f] = "READ"],
           cor' = [cor EXCEPT ![f] = c], call' = [call EXCEPT ![c].pc = "receiving"],
           running' = NoCaller,
           UNCHANGED <<faults, addrs, sock, pending, armed, tasks, batch, queue, crashed>>
    PROVE  RpcInv'
<1>1. /\ TypeInv /\ BaseInv
      /\ Single => Alone /\ Places /\ Cors /\ Queued /\ PromptInv /\ SlowInv
  BY DEF RpcInv
<1>2. /\ call' \in [Callers -> CallType] /\ \A d \in Callers \ {c} : call'[d] = call[d]
      /\ call'[c].pc = "receiving" /\ call'[c].fd = call[c].fd /\ call'[c].connFd = f
      /\ call'[c].calls = call[c].calls /\ call'[c].retry = call[c].retry
      /\ call'[c].left = call[c].left /\ call'[c].overTime = call[c].overTime
      /\ call'[c].result = call[c].result
  <2>1. call \in [Callers -> CallType]
    BY <1>1 DEF TypeInv
  <2> QED
    BY <2>1 DEF CallType, Pcs
<1>3. /\ watch' \in [Fds -> {"none", "READ", "WRITE"}] /\ cor' \in [Fds -> Callers \cup {NoCaller}]
      /\ \A g \in Fds \ {f} : watch'[g] = watch[g] /\ cor'[g] = cor[g]
      /\ cor'[f] = c
      /\ sock[f].state # "none" => watch'[f] = "READ"
      /\ sock[f].state = "none" => watch'[f] = watch[f]
  BY <1>1 DEF TypeInv
<1>4. TypeInv'
  <2>1. TypeOK'
    BY <1>1, <1>3 DEF TypeInv, TypeOK
  <2> QED
    BY <1>1, <1>2, <1>3, <2>1 DEF TypeInv
<1>5. BaseInv'
  <2>1. \A h \in Fds : sock[h].state # "none" =>
            sock[h].owner \in Callers /\ call'[sock[h].owner].fd = h
    BY <1>1, <1>2 DEF BaseInv
  <2>2. \A d \in Callers \ {c} : call[d].pc # "connect"
    BY <1>1 DEF BaseInv
  <2> QED
    BY <1>1, <1>2, <2>1, <2>2 DEF BaseInv
<1> SUFFICES ASSUME Single PROVE (Alone /\ Places /\ Cors /\ Queued /\ PromptInv /\ SlowInv)'
  BY <1>4, <1>5 DEF RpcInv, Single
<1>6. f = call[c].fd /\ sock[f].owner = c /\ sock[f].state \in {"up", "closed"}
  BY <1>1, PlaceIs
<1>7. Turn(c, call[c].fd)
  BY <1>2, <1>3, <1>6 DEF Turn
<1>8. Alone'
  BY <1>1, <1>2, TurnAlone
<1>9. Places'
  <2>1. Place(c)'
    BY <1>2, <1>6, RpcCallAssumption DEF Place, Uses
  <2>2. SocketPlace(f)'
    BY <1>1, PlaceIs DEF SocketPlace
  <2> QED
    BY <1>1, <1>6, <1>7, <2>1, <2>2, TurnPlaces
<1>10. Cors'
  <2>1. \A h \in Fds : cor'[h] = c => h = f
    BY <1>1, <1>3 DEF Cors
  <2> QED
    BY <1>1, <1>2, <1>3, <1>6, <1>7, <2>1, TurnCors
<1>11. Queued'
  BY <1>1, <1>7, TurnQueued
<1>12. PromptInv'
  <2> SUFFICES ASSUME Prompt PROVE PromptInv'
    BY DEF PromptInv, Prompt
  <2>1. Woken(c) /\ PendingOf(c) /\ Unique(pending)
    BY <1>1 DEF PromptInv, Resumes, EventsLive
  <2>2. Frame(c)' = Frame(c)
    BY <1>2 DEF Frame
  <2>3. tasks = <<>> /\ ToSet(tasks) = {} /\ ~call[c].overTime
    BY <2>1, EmptyElements DEF Woken
  <2>4. Woken(c)'
    BY <1>2, <2>3, RpcCallAssumption DEF Woken
  <2>5. PendingOf(c)' /\ TasksOf(c)'
    BY <1>2, <2>1, <2>2, <2>3 DEF PendingOf, TasksOf
  <2> QED
    BY <1>1, <1>7, <2>1, <2>4, <2>5, TurnPrompt
<1>13. SlowInv'
  <2> SUFFICES ASSUME ~Prompt PROVE SlowInv'
    BY DEF SlowInv, Prompt
  <2> QED
    BY <1>1, <1>2, SlowMoves, RpcCallAssumption
<1> QED
  BY <1>8, <1>9, <1>10, <1>11, <1>12, <1>13

\* Input, up to recv_hook's Yield.
LEMMA RecvKeeps ==
    ASSUME RpcInv, crashed = "no", UNCHANGED faults, NEW c \in Callers, Recv(c)
    PROVE  RpcInv'
<1>1. /\ TypeInv /\ BaseInv
      /\ Single => Alone /\ Places /\ Cors /\ Queued /\ PromptInv /\ SlowInv
  BY DEF RpcInv
<1>2. PICK f : f = call[c].connFd
  OBVIOUS
<1>3. running = c /\ call[c].pc = "recv" /\ UNCHANGED <<faults, armed, tasks, batch, queue>>
  BY DEF Recv
<1>4. f \in Fds
  BY <1>1, <1>2, <1>3, FdIs
<1>5. CASE sock[f].answered # {}
  <2>1. Taken(c) /\ cor' = cor
    BY <1>2, <1>5 DEF Recv
  <2>2. Single => \A g \in Fds : cor[g] # c
    BY <1>1, <1>3 DEF Cors
  <2>3. cor' \in [Fds -> Callers \cup {NoCaller}]
    BY <1>1, <2>1 DEF TypeInv
  <2> QED
    BY <1>2, <1>3, <1>5, <2>1, <2>2, <2>3, TakenKeeps
<1>6. CASE ~(sock[f].answered # {})
  <2>1. /\ watch' = IF sock[f].state = "none" THEN watch ELSE [watch EXCEPT ![f] = "READ"]
        /\ cor' = [cor EXCEPT ![f] = c]
        /\ call' = [call EXCEPT ![c].pc = "receiving"]
        /\ running' = NoCaller
        /\ UNCHANGED <<addrs, sock, pending, crashed>>
    BY <1>2, <1>6 DEF Recv
  <2> QED
    BY <1>2, <1>3, <1>4, <2>1, RecvWaitKeeps
<1> QED
  BY <1>5, <1>6

\* A caller finds nothing where it has been resumed, and closes the connection.
LEMMA AbandonKeeps ==
    ASSUME RpcInv, crashed = "no", NEW c \in Callers, running = c, call[c].pc = "receiving",
           ~call[c].overTime, NEW f \in Fds, f = call[c].connFd, sock[f].answered = {},
           cor' = [cor EXCEPT ![f] = NoCaller], sock' = Closing(f), watch' = Unwatched(f),
           call' = [call EXCEPT ![c].pc = "abandoned"], running' = NoCaller,
           UNCHANGED <<faults, addrs, pending, armed, tasks, batch, queue, crashed>>
    PROVE  RpcInv'
<1>1. /\ TypeInv /\ BaseInv
      /\ Single => Alone /\ Places /\ Cors /\ Queued /\ PromptInv /\ SlowInv
  BY DEF RpcInv
<1>2. /\ call' \in [Callers -> CallType] /\ \A d \in Callers \ {c} : call'[d] = call[d]
      /\ call'[c].pc = "abandoned" /\ call'[c].fd = call[c].fd /\ call'[c].connFd = f
      /\ call'[c].calls = call[c].calls /\ call'[c].retry = call[c].retry
      /\ call'[c].left = call[c].left /\ call'[c].overTime = call[c].overTime
      /\ call'[c].result = call[c].result
  <2>1. call \in [Callers -> CallType]
    BY <1>1 DEF TypeInv
  <2> QED
    BY <2>1 DEF CallType, Pcs
<1>3. /\ sock' \in [Fds -> SocketType] /\ watch' \in [Fds -> {"none", "READ", "WRITE"}]
      /\ \A g \in Fds \ {f} : sock'[g] = sock[g] /\ watch'[g] = watch[g]
      /\ sock'[f].state = "none" /\ watch'[f] = "none"
      /\ sock'[f].asked = {} /\ sock'[f].answered = {}
  BY <1>1, ClosedIs
<1>4. /\ cor' \in [Fds -> Callers \cup {NoCaller}] /\ cor'[f] = NoCaller
      /\ \A g \in Fds \ {f} : cor'[g] = cor[g]
  BY <1>1 DEF TypeInv
<1>5. TypeInv'
  <2>1. TypeOK'
    BY <1>1, <1>3, <1>4 DEF TypeInv, TypeOK, SocketType
  <2> QED
    BY <1>1, <1>2, <1>3, <1>4, <2>1 DEF TypeInv
<1>6. BaseInv'
  <2>1. ASSUME NEW h \in Fds, sock'[h].state # "none"
        PROVE  sock'[h].owner \in Callers /\ call'[sock'[h].owner].fd = h
    <3>1. sock'[h] = sock[h]
      BY <1>3, <2>1
    <3>2. PICK d \in Callers : sock[h].owner = d /\ call[d].fd = h
      BY <1>1, <2>1, <3>1 DEF BaseInv
    <3>3. call'[d].fd = h
      BY <1>2, <3>2
    <3> QED
      BY <3>1, <3>2, <3>3
  <2>2. \A d \in Callers \ {c} : call[d].pc # "connect"
    BY <1>1 DEF BaseInv
  <2> QED
    BY <1>1, <1>2, <2>1, <2>2 DEF BaseInv
<1> SUFFICES ASSUME Single PROVE (Alone /\ Places /\ Cors /\ Queued /\ PromptInv /\ SlowInv)'
  BY <1>5, <1>6 DEF RpcInv, Single
<1>7. f = call[c].fd /\ sock[f].owner = c /\ sock[f].state \in {"up", "closed"}
  BY <1>1, PlaceIs
<1>8. "overlap" \notin faults
  <2>1. CASE Prompt
    <3>1. sock[f].state = "closed"
      BY <1>1, <1>7, <2>1 DEF PromptInv, Resumes, Woken
    <3> QED
      BY <1>1, <3>1, FaultCases, PlaceIs
  <2>2. CASE ~Prompt
    BY <1>1, <2>2, FaultCases
  <2> QED
    BY <2>1, <2>2
<1>9. \A g \in Fds : sock'[g].state = "none"
  <2> SUFFICES ASSUME NEW g \in Fds, g # f, sock[g].state # "none" PROVE FALSE
    BY <1>3
  <2>1. PICK d \in Callers : sock[g].owner = d /\ call[d].fd = g
    BY <1>1 DEF BaseInv
  <2>2. d # c
    BY <1>7, <2>1
  <2>3. call[d].pc = "idle"
    BY <1>1, <1>8, <2>2 DEF Alone
  <2> QED
    BY <1>1, <2>1, <2>3, NumbersAre DEF BaseInv
<1>10. Turn(c, call[c].fd)
  BY <1>2, <1>3, <1>4, <1>7 DEF Turn
<1>11. Alone'
  BY <1>1, <1>2, TurnAlone
<1>12. Places'
  <2>1. Place(c)'
    BY <1>2, <1>8, <1>9, RpcCallAssumption DEF Place, Uses
  <2>2. SocketPlace(f)'
    BY <1>3 DEF SocketPlace
  <2> QED
    BY <1>1, <1>7, <1>10, <2>1, <2>2, TurnPlaces
<1>13. Cors'
  <2>1. \A h \in Fds : cor'[h] # c
    BY <1>1, <1>4, <1>7, RpcCallAssumption DEF Cors
  <2> QED
    BY <1>1, <1>10, <2>1, TurnCors
<1>14. Queued'
  BY <1>1, <1>10, TurnQueued
<1>15. PromptInv'
  <2> SUFFICES ASSUME Prompt PROVE PromptInv'
    BY DEF PromptInv, Prompt
  <2>1. Woken(c) /\ PendingOf(c) /\ Unique(pending)
    BY <1>1 DEF PromptInv, Resumes, EventsLive
  <2>2. Frame(c)' = Frame(c)
    BY <1>2 DEF Frame
  <2>3. tasks = <<>> /\ ToSet(tasks) = {}
    BY <2>1, EmptyElements DEF Woken
  <2>4. Woken(c)'
    BY <1>2, <2>3, RpcCallAssumption DEF Woken
  <2>5. PendingOf(c)' /\ TasksOf(c)'
    BY <1>2, <2>1, <2>2, <2>3 DEF PendingOf, TasksOf
  <2> QED
    BY <1>1, <1>10, <2>1, <2>4, <2>5, TurnPrompt
<1>16. SlowInv'
  <2> SUFFICES ASSUME ~Prompt PROVE SlowInv'
    BY DEF SlowInv, Prompt
  <2>1. tasks = <<>>
    BY <1>1 DEF SlowInv, SlowTasks
  <2> QED
    BY <1>1, <1>2, <2>1, SlowMoves, RpcCallAssumption
<1> QED
  BY <1>11, <1>12, <1>13, <1>14, <1>15, <1>16

\* Input after the Yield.
LEMMA ReceivingKeeps ==
    ASSUME RpcInv, crashed = "no", UNCHANGED faults, NEW c \in Callers, Receiving(c)
    PROVE  RpcInv'
<1>1. /\ TypeInv /\ BaseInv
      /\ Single => Alone /\ Places /\ Cors /\ Queued /\ PromptInv /\ SlowInv
  BY DEF RpcInv
<1>2. PICK f : f = call[c].connFd
  OBVIOUS
<1>3. /\ running = c /\ call[c].pc = "receiving" /\ cor' = [cor EXCEPT ![f] = NoCaller]
      /\ UNCHANGED <<faults, armed, tasks, batch, queue>>
  BY <1>2 DEF Receiving
<1>4. f \in Fds
  BY <1>1, <1>2, <1>3, FdIs
<1>5. /\ cor' \in [Fds -> Callers \cup {NoCaller}] /\ cor'[f] = NoCaller
      /\ \A g \in Fds \ {f} : cor'[g] = cor[g]
  BY <1>1, <1>3, <1>4 DEF TypeInv
<1>6. ASSUME Single
      PROVE  /\ \A g \in Fds : g # call[c].fd => cor'[g] = cor[g]
             /\ \A g \in Fds : g = call[c].fd => cor'[g] \in {cor[g], NoCaller}
             /\ \A g \in Fds : cor'[g] # c
  <2>1. f = call[c].fd
    BY <1>1, <1>2, <1>3, <1>6, PlaceIs
  <2>2. \A g \in Fds : cor[g] = c => g = f
    BY <1>1, <1>6, <2>1 DEF Cors
  <2> QED
    BY <1>5, <2>1, <2>2, RpcCallAssumption
<1>7. \/ call[c].overTime /\ Return(c, "timeout") /\ UNCHANGED pending
      \/ ~call[c].overTime /\ sock[f].answered # {} /\ Taken(c)
      \/ /\ ~call[c].overTime /\ sock[f].answered = {}
         /\ sock' = Closing(f) /\ watch' = Unwatched(f)
         /\ call' = [call EXCEPT ![c].pc = "abandoned"]
         /\ running' = NoCaller
         /\ UNCHANGED <<addrs, pending, crashed>>
  BY <1>2 DEF Receiving
<1>8. CASE call[c].overTime
  BY <1>3, <1>5, <1>6, <1>7, <1>8, OverTimeKeeps
<1>9. CASE ~call[c].overTime /\ sock[f].answered # {}
  BY <1>2, <1>3, <1>5, <1>6, <1>7, <1>9, TakenKeeps
<1>10. CASE ~call[c].overTime /\ sock[f].answered = {}
  BY <1>2, <1>3, <1>4, <1>7, <1>10, AbandonKeeps
<1> QED
  BY <1>8, <1>9, <1>10

\* A caller that is resumed by something else than its time-out is not one of a
\* behaviour with one fault.
LEMMA ResumedKeeps ==
    ASSUME RpcInv, crashed = "no", UNCHANGED faults, NEW c \in Callers, Resumed(c)
    PROVE  RpcInv'
<1>1. /\ TypeInv /\ BaseInv
      /\ Single => Alone /\ Places /\ Cors /\ Queued /\ PromptInv /\ SlowInv
  BY DEF RpcInv
<1>2. /\ running = c /\ call[c].pc \in {"sending", "abandoned"}
      /\ UNCHANGED <<faults, cor, pending, armed, tasks, batch, queue>>
  BY DEF Resumed, timerVars
<1>3. ASSUME ~call[c].overTime PROVE ~Single
  <2> SUFFICES ASSUME Single PROVE FALSE
    OBVIOUS
  <2>1. CASE Prompt
    BY <1>1, <1>2, <1>3, <2>1 DEF PromptInv, Resumes, Woken
  <2>2. CASE ~Prompt
    <3>1. call[c].pc = "abandoned" => call[c].overTime
      BY <1>1, <1>2, <2>2 DEF SlowInv, SlowTasks
    <3>2. call[c].pc = "sending" => "peerCloses" \in faults
      BY <1>1, FdIs, PlaceIs
    <3> QED
      BY <1>1, <1>2, <1>3, <2>2, <3>1, <3>2, FaultCases
  <2> QED
    BY <2>1, <2>2
<1>4. cor' \in [Fds -> Callers \cup {NoCaller}]
  BY <1>1, <1>2 DEF TypeInv
<1>5. CASE call[c].overTime
  <2>1. Return(c, "timeout")
    BY <1>5 DEF Resumed
  <2>2. Single => \A g \in Fds : cor'[g] # c
    BY <1>1, <1>2 DEF Cors
  <2>3. \A g \in Fds : cor'[g] = cor[g]
    BY <1>2
  <2> QED
    BY <1>2, <1>4, <1>5, <2>1, <2>2, <2>3, OverTimeKeeps
<1>6. CASE ~call[c].overTime /\ call[c].pc = "abandoned"
  <2>1. Retry(c) /\ running' = running
    BY <1>6 DEF Resumed
  <2>2. /\ pending' \in Seq(Event) /\ Order(pending)' /\ \A e \in ToSet(pending)' : e.at >= Floor
        /\ ToSet(pending)' \subseteq ToSet(pending)
    BY <1>1, <1>2 DEF TypeInv, TypeOK, Order
  <2> QED
    BY <1>2, <1>3, <1>4, <1>6, <2>1, <2>2, RetryKeeps
<1>7. CASE ~call[c].overTime /\ call[c].pc = "sending"
  <2>1. call' = [call EXCEPT ![c].pc = "send"] /\ UNCHANGED <<addrs, sock, watch, running, crashed>>
    BY <1>7 DEF Resumed
  <2>2. /\ call' \in [Callers -> CallType] /\ \A d \in Callers \ {c} : call'[d] = call[d]
        /\ call'[c].pc = "send" /\ call'[c].fd = call[c].fd /\ call'[c].connFd = call[c].connFd
        /\ call'[c].left = call[c].left /\ call'[c].result = call[c].result
    <3>1. call \in [Callers -> CallType]
      BY <1>1 DEF TypeInv
    <3> QED
      BY <2>1, <3>1 DEF CallType, Pcs
  <2>3. TypeInv'
    BY <1>1, <1>2, <2>1, <2>2 DEF TypeInv, TypeOK
  <2>4. BaseInv'
    <3>1. \A h \in Fds : sock[h].state # "none" =>
              sock[h].owner \in Callers /\ call'[sock[h].owner].fd = h
      BY <1>1, <2>2 DEF BaseInv
    <3>2. \A d \in Callers \ {c} : call[d].pc # "connect"
      BY <1>1, <1>2 DEF BaseInv
    <3> QED
      BY <1>1, <1>7, <2>1, <2>2, <3>1, <3>2 DEF BaseInv
  <2>5. ~Single'
    BY <1>2, <1>3, <1>7 DEF Single
  <2> QED
    BY <2>3, <2>4, <2>5 DEF RpcInv
<1> QED
  BY <1>2, <1>5, <1>6, <1>7

\* A step of a caller.
LEMMA StepKeeps ==
    ASSUME RpcInv, crashed = "no", UNCHANGED faults, NEW c \in Callers, Step(c)
    PROVE  RpcInv'
BY SelectKeeps, ConnectKeeps, ConnectingKeeps, SendKeeps, RecvKeeps, ReceivingKeeps, ResumedKeeps
   DEF Step

\* Nothing happens.
LEMMA StutterKeeps ==
    ASSUME RpcInv, UNCHANGED vars
    PROVE  RpcInv'
<1>1. /\ UNCHANGED <<faults, addrs, sock, watch, cor, pending, armed, tasks, batch, queue>>
      /\ UNCHANGED <<running, call, crashed>>
  BY DEF vars, socketVars, timerVars, loopVars
<1>2. TypeInv' /\ BaseInv'
  BY <1>1 DEF RpcInv, TypeInv, TypeOK, BaseInv
<1>3. ASSUME Single PROVE Alone' /\ Places' /\ Cors' /\ Queued'
  <2>1. Alone' /\ Cors' /\ Queued'
    BY <1>1, <1>3 DEF RpcInv, Alone, Cors, Queued, Come
  <2>2. Places'
    BY <1>1, <1>3 DEF RpcInv, Places, Place, SocketPlace, Uses
  <2> QED
    BY <2>1, <2>2
<1>4. ASSUME Single PROVE PromptInv'
  BY <1>1, <1>4 DEF RpcInv, PromptInv, Prompt, Resumes, Woken, EventsLive, PendingOf, TasksOf,
                    Unique, Frame
<1>5. ASSUME Single PROVE SlowInv'
  BY <1>1, <1>5 DEF RpcInv, SlowInv, Prompt, Older, SlowPending, SlowTasks, SlowOver, Goes, Live,
                    Dead, StaleFirst, LiveFirst, Unique, Frame
<1> QED
  BY <1>1, <1>2, <1>3, <1>4, <1>5 DEF RpcInv, Single

----------------------------------------------------------------------------
(* The kernel and the peers.                                               *)

\* A socket goes on: it is made or refused, it has a reply, or the peer has
\* closed it.
SocketMoves(f, r) ==
    /\ r \in SocketType /\ r.owner = sock[f].owner
    /\ r.asked \cup r.answered \subseteq sock[f].asked \cup sock[f].answered
    /\ sock[f].answered \subseteq r.answered
    /\ \/ sock[f].state = "syn" /\ r.state \in {"up", "refused"}
       \/ sock[f].state = "up" /\ r.state = "up"
       \/ sock[f].state = "up" /\ r.state = "closed" /\ "peerCloses" \in faults

\* What has come for a caller stays.
LEMMA SocketKeeps ==
    ASSUME RpcInv, NEW f \in Fds, NEW r, SocketMoves(f, r), sock' = [sock EXCEPT ![f] = r],
           UNCHANGED <<faults, addrs, watch, cor, pending, armed, tasks, batch, queue>>,
           UNCHANGED <<running, call, crashed>>
    PROVE  RpcInv'
<1>1. /\ TypeInv /\ BaseInv
      /\ Single => Alone /\ Places /\ Cors /\ Queued /\ PromptInv /\ SlowInv
  BY DEF RpcInv
<1>2. /\ sock' \in [Fds -> SocketType] /\ \A g \in Fds \ {f} : sock'[g] = sock[g]
      /\ sock'[f].owner = sock[f].owner
      /\ sock'[f].asked \cup sock'[f].answered \subseteq sock[f].asked \cup sock[f].answered
      /\ sock[f].answered \subseteq sock'[f].answered
      /\ \/ sock[f].state = "syn" /\ sock'[f].state \in {"up", "refused"}
         \/ sock[f].state = "up" /\ sock'[f].state = "up"
         \/ sock[f].state = "up" /\ sock'[f].state = "closed" /\ "peerCloses" \in faults
  BY <1>1 DEF TypeInv, SocketMoves
<1>3. \A g \in Fds : /\ sock'[g].owner = sock[g].owner
                     /\ sock[g].state \in {"none", "fresh", "closed", "refused"} => sock'[g] = sock[g]
                     /\ sock'[g].state = "none" => sock[g].state = "none"
  BY <1>2
<1>4. TypeInv'
  <2>1. TypeOK'
    BY <1>1, <1>2 DEF TypeInv, TypeOK, SocketType
  <2> QED
    BY <1>1, <1>2, <2>1 DEF TypeInv
<1>5. \A c \in Callers : call[c].pc \notin {"idle", "select"} => call[c].fd \in Fds
  BY <1>1, FdIs
<1>6. BaseInv'
  BY <1>1, <1>3, <1>5 DEF BaseInv
<1> SUFFICES ASSUME Single PROVE (Alone /\ Places /\ Cors /\ Queued /\ PromptInv /\ SlowInv)'
  BY <1>4, <1>6 DEF RpcInv, Single
<1>7. Alone'
  BY <1>1 DEF Alone
<1>8. Places'
  <2>1. ASSUME NEW g \in Fds PROVE SocketPlace(g)'
    BY <1>1, <1>2, <2>1 DEF Places, SocketPlace
  <2>2. ASSUME NEW c \in Callers PROVE Place(c)'
    BY <1>1, <1>2, <1>3, <1>5, <2>2 DEF Places, Place, Uses
  <2> QED
    BY <2>1, <2>2 DEF Places
<1>9. Cors'
  BY <1>1 DEF Cors
<1>10. Queued'
  <2>1. ASSUME NEW g \in Fds, NEW c \in Callers, Come(g, c) PROVE Come(g, c)'
    BY <1>2, <2>1 DEF Come
  <2> QED
    BY <1>1, <2>1 DEF Queued
<1>11. ASSUME Prompt PROVE Resumes' /\ EventsLive'
  <2>1. EventsLive'
    BY <1>1, <1>11 DEF PromptInv, EventsLive, PendingOf, TasksOf, Unique, Frame
  <2>2. Resumes'
    BY <1>1, <1>2, <1>5, <1>11 DEF PromptInv, Resumes, Woken
  <2> QED
    BY <2>1, <2>2
<1>12. SlowInv'
  BY <1>1 DEF SlowInv, Prompt, Older, SlowPending, SlowTasks, SlowOver, Goes, Live,
              Dead, StaleFirst, LiveFirst, Unique, Frame
<1> QED
  BY <1>7, <1>8, <1>9, <1>10, <1>11, <1>12 DEF PromptInv, Prompt

\* A connection is made or refused.
LEMMA EstablishedKeeps ==
    ASSUME RpcInv, UNCHANGED faults, Established
    PROVE  RpcInv'
<1>1. PICK f \in Fds, state \in {"up", "refused"} :
        sock[f].state = "syn" /\ sock' = [sock EXCEPT ![f].state = state]
  BY DEF Established
<1> DEFINE r == [sock[f] EXCEPT !.state = state]
<1>2. sock[f] \in SocketType
  BY DEF RpcInv, TypeInv
<1>3. SocketMoves(f, r)
  BY <1>1, <1>2 DEF SocketMoves, SocketType
<1>4. sock' = [sock EXCEPT ![f] = r]
  BY <1>1
<1>5. /\ UNCHANGED <<faults, addrs, watch, cor, pending, armed, tasks, batch, queue>>
      /\ UNCHANGED <<running, call, crashed>>
  BY DEF Established, timerVars, loopVars
<1> HIDE DEF r
<1> QED
  BY <1>3, <1>4, <1>5, SocketKeeps

\* The reply to a caller is there.
LEMMA PeerReplyKeeps ==
    ASSUME RpcInv, UNCHANGED faults, PeerReply
    PROVE  RpcInv'
<1>1. PICK f \in Fds, c \in Callers :
        /\ sock[f].state = "up" /\ c \in sock[f].asked
        /\ sock' = [sock EXCEPT ![f].asked = @ \ {c}, ![f].answered = @ \cup {c}]
  BY DEF PeerReply
<1> DEFINE r == [sock[f] EXCEPT !.asked = @ \ {c}, !.answered = @ \cup {c}]
<1>2. sock \in [Fds -> SocketType] /\ sock[f] \in SocketType
  BY DEF RpcInv, TypeInv
<1>3. SocketMoves(f, r)
  BY <1>1, <1>2 DEF SocketMoves, SocketType
<1>4. sock' = [sock EXCEPT ![f] = r]
  BY <1>1, <1>2 DEF SocketType
<1>5. /\ UNCHANGED <<faults, addrs, watch, cor, pending, armed, tasks, batch, queue>>
      /\ UNCHANGED <<running, call, crashed>>
  BY DEF PeerReply, timerVars, loopVars
<1> HIDE DEF r
<1> QED
  BY <1>3, <1>4, <1>5, SocketKeeps

\* A peer closes a connection.
LEMMA PeerCloseKeeps ==
    ASSUME RpcInv, UNCHANGED faults, PeerClose
    PROVE  RpcInv'
<1>1. PICK f \in Fds :
        /\ sock[f].state = "up"
        /\ sock' = [sock EXCEPT ![f].state = "closed", ![f].asked = {}]
  BY DEF PeerClose
<1> DEFINE r == [sock[f] EXCEPT !.state = "closed", !.asked = {}]
<1>2. sock \in [Fds -> SocketType] /\ sock[f] \in SocketType
  BY DEF RpcInv, TypeInv
<1>3. SocketMoves(f, r)
  BY <1>1, <1>2 DEF SocketMoves, SocketType, PeerClose
<1>4. sock' = [sock EXCEPT ![f] = r]
  BY <1>1, <1>2 DEF SocketType
<1>5. /\ UNCHANGED <<faults, addrs, watch, cor, pending, armed, tasks, batch, queue>>
      /\ UNCHANGED <<running, call, crashed>>
  BY DEF PeerClose, timerVars, loopVars
<1> HIDE DEF r
<1> QED
  BY <1>3, <1>4, <1>5, SocketKeeps

----------------------------------------------------------------------------
(* The thread's loop.                                                      *)

\* The coroutine of a descriptor that is in the queue goes on.
LEMMA PopQueueKeeps ==
    ASSUME RpcInv, crashed = "no", UNCHANGED faults, PopQueue
    PROVE  RpcInv'
<1>0. PICK f, d : f = Head(queue) /\ d = cor[f]
  OBVIOUS
<1>1. /\ TypeInv /\ BaseInv
      /\ Single => Alone /\ Places /\ Cors /\ Queued /\ PromptInv /\ SlowInv
  BY DEF RpcInv
<1>2. /\ running = NoCaller /\ tasks = <<>> /\ batch = <<>> /\ queue # <<>> /\ queue' = Tail(queue)
      /\ UNCHANGED <<faults, addrs, sock, watch, cor, pending, armed, tasks, batch, call>>
  BY DEF PopQueue, LoopFree, socketVars, timerVars
<1>3. queue \in Seq(Fds) /\ f \in Fds /\ queue' \in Seq(Fds) /\ Len(queue') = Len(queue) - 1
      /\ Len(queue) \in Nat
  BY <1>0, <1>1, <1>2 DEF TypeInv, TypeOK
<1>4. d \in Callers \cup {NoCaller}
  BY <1>0, <1>1, <1>3 DEF TypeInv
<1>5. /\ d = NoCaller => crashed' = "null coroutine" /\ running' = running
      /\ d # NoCaller => crashed' = crashed
                         /\ running' = IF call[d].pc = "idle" THEN NoCaller ELSE d
  BY <1>0 DEF PopQueue, Resume
<1>6. running' \in Callers \cup {NoCaller} /\ crashed' \in {"no", "null coroutine", "null reply"}
  BY <1>1, <1>2, <1>4, <1>5 DEF TypeInv, TypeOK
<1>7. TypeInv'
  <2>1. TypeOK'
    BY <1>1, <1>2, <1>3, <1>6 DEF TypeInv, TypeOK
  <2> QED
    BY <1>1, <1>2, <2>1 DEF TypeInv
<1>8. \A c \in Callers : call[c].pc # "connect"
  BY <1>1, <1>2, RpcCallAssumption DEF BaseInv
<1>9. BaseInv'
  BY <1>1, <1>2, <1>8 DEF BaseInv
<1> SUFFICES ASSUME Single PROVE (Alone /\ Places /\ Cors /\ Queued /\ PromptInv /\ SlowInv)'
  BY <1>2, <1>7, <1>9 DEF RpcInv, Single
<1>10. d \in Callers => /\ call[d].fd = f /\ call[d].pc \in {"connecting", "receiving"}
                        /\ running' = d /\ crashed' = crashed
  BY <1>0, <1>1, <1>3, <1>5, RpcCallAssumption DEF Cors
<1>11. d = NoCaller => running' = NoCaller
  BY <1>2, <1>5
<1>12. Alone'
  BY <1>1, <1>2 DEF Alone
<1>13. Places'
  <2>1. ASSUME NEW g \in Fds PROVE SocketPlace(g)'
    BY <1>1, <1>2, <2>1 DEF Places, SocketPlace
  <2>2. ASSUME NEW c \in Callers PROVE Place(c)'
    <3>1. running # c /\ call[c].pc # "crashed" /\ (running' = c => c = d)
      BY <1>1, <1>2, <1>4, <1>10, <1>11, RpcCallAssumption DEF Places, Place
    <3> QED
      BY <1>1, <1>2, <1>10, <3>1, RpcCallAssumption DEF Places, Place, Uses
  <2> QED
    BY <2>1, <2>2 DEF Places
<1>14. Cors'
  BY <1>1, <1>2 DEF Cors
<1>15. "batched" \notin faults =>
         /\ d \in Callers /\ queue' = <<>>
         /\ Come(f, d)
  <2> SUFFICES ASSUME "batched" \notin faults PROVE d \in Callers /\ queue' = <<>> /\ Come(f, d)
    OBVIOUS
  <2>1. d \in Callers
    BY <1>0, <1>1, <1>2, <1>3, <1>4 DEF Queued
  <2>2. Len(queue) <= 1
    BY <1>1 DEF Queued
  <2>3. Len(queue') <= 0 /\ Len(queue') \in Nat
    BY <1>3, <2>2
  <2>4. queue' = <<>>
    BY <1>3, <2>3
  <2>5. Come(f, d)
    BY <1>0, <1>1, <1>2, <1>3, <2>1 DEF Queued
  <2> QED
    BY <2>1, <2>4, <2>5
<1>16. Queued'
  <2>1. "batched" \notin faults =>
          queue' = <<>> /\ batch' = <<>> /\ tasks' = <<>> /\ crashed' # "null coroutine"
    BY <1>2, <1>10, <1>15
  <2>2. Len(<<>>) <= 1
    OBVIOUS
  <2> QED
    BY ONLY <1>2, <2>1, <2>2 DEF Queued
<1>17. ASSUME Prompt PROVE Resumes' /\ EventsLive'
  <2>1. d \in Callers /\ queue' = <<>> /\ Come(f, d) /\ Resumes /\ EventsLive
    BY <1>1, <1>15, <1>17 DEF PromptInv, Prompt
  <2>2. EventsLive'
    BY <1>2, <2>1, EmptyElements DEF EventsLive, PendingOf, TasksOf, Unique, Frame
  <2>3. ASSUME NEW c \in Callers PROVE Woken(c)'
    <3>1. Woken(c) /\ running # c /\ (c = d <=> running' = c)
      BY <1>2, <1>10, <2>1, RpcCallAssumption DEF Resumes
    <3>2. CASE c = d
      BY <1>2, <1>10, <2>1, <3>1, <3>2 DEF Woken, Come
    <3>3. CASE c # d
      <4>1. ASSUME call[c].pc = "connecting" PROVE call[c].fd # f
        <5>1. Place(c) /\ Place(d)
          BY <1>1, <2>1 DEF Places
        <5> QED
          BY <1>10, <2>1, <3>3, <4>1, <5>1, <1>0, <1>1, FdIs DEF Place, Uses
      <4>2. call[c].pc = "connecting" => watch[call[c].fd] = "WRITE"
        BY <1>0, <3>1, <4>1 DEF Woken
      <4> QED
        BY <1>2, <3>1, <3>3, <4>2, EmptyElements DEF Woken
    <3> QED
      BY <3>2, <3>3
  <2> QED
    BY <2>2, <2>3 DEF Resumes
<1>18. ASSUME ~Prompt PROVE (Older /\ SlowPending /\ SlowTasks /\ SlowOver)'
  <2>1. Older /\ SlowPending /\ SlowTasks /\ SlowOver
    BY <1>1, <1>18 DEF SlowInv
  <2>2. Older' /\ SlowPending' /\ SlowOver'
    BY <1>2, <2>1 DEF Older, SlowPending, SlowOver, Live, Dead, StaleFirst, LiveFirst, Unique, Frame
  <2>3. \A c \in Callers : running' = c => call[c].pc # "abandoned"
    BY <1>10, <1>11, <1>4, RpcCallAssumption
  <2>4. ToSet(tasks) = {} /\ Len(tasks) = 0 /\ DOMAIN tasks = {}
    BY <1>2, EmptyElements
  <2>5. SlowTasks'
    BY <1>2, <2>3, <2>4 DEF SlowTasks, Unique
  <2> QED
    BY <2>1, <2>2, <2>5
<1> QED
  BY <1>2, <1>12, <1>13, <1>14, <1>16, <1>17, <1>18 DEF PromptInv, SlowInv, Prompt

\* The sequences of a set's elements.
LEMMA ListsAre ==
    ASSUME NEW S, IsFiniteSet(S), NEW s \in SetToSeqs(S)
    PROVE  s \in Seq(S) /\ Len(s) = Cardinality(S) /\ IsInjective(s) /\ ToSet(s) \subseteq S
<1>1. PICK n \in Nat : n = Cardinality(S)
  BY FS_CardinalityType
<1>2. s \in [1 .. n -> S] /\ \A i, j \in 1 .. n : i # j => s[i] # s[j]
  BY <1>1 DEF SetToSeqs
<1>3. s \in Seq(S) /\ Len(s) = n
  BY <1>2
<1> QED
  BY <1>1, <1>2, <1>3 DEF IsInjective, ToSet

\* When only the batch and the queue change, time-outs are as they were.
LEMMA BatchMoves ==
    ASSUME SlowInv, UNCHANGED <<faults, call, pending, tasks, armed, running>>,
           SlowPending => IsInjective(batch'), Dead => Dead'
    PROVE  SlowInv'
<1> SUFFICES ASSUME ~Prompt PROVE (Older /\ SlowPending /\ SlowTasks /\ SlowOver)'
  BY DEF SlowInv, Prompt
<1>1. Older /\ SlowPending /\ SlowTasks /\ SlowOver /\ (Dead => Dead')
  BY DEF SlowInv, Dead
<1>2. Older' /\ SlowOver'
  BY <1>1 DEF Older, SlowOver, Live, LiveFirst, Frame
<1>3. SlowPending'
  BY <1>1 DEF SlowPending, Live, StaleFirst, Unique, Frame
<1>4. SlowTasks'
  <2>1. \A e \in ToSet(tasks) : Live(e)' = Live(e)
    BY DEF Live, Frame
  <2>2. \A e \in ToSet(tasks), c \in Callers : Goes(e, c) => Goes(e, c)'
    BY <1>1 DEF Goes, LiveFirst, Live, Frame
  <2>3. \A c \in Callers : Frame(c)' = Frame(c)
    BY DEF Frame
  <2> QED
    BY <1>1, <2>1, <2>2, <2>3 DEF SlowTasks, Unique
<1> QED
  BY <1>2, <1>3, <1>4

\* epoll_wait returns.
LEMMA EpollWaitKeeps ==
    ASSUME RpcInv, crashed = "no", UNCHANGED faults, EpollWait
    PROVE  RpcInv'
<1>1. /\ TypeInv /\ BaseInv
      /\ Single => Alone /\ Places /\ Cors /\ Queued /\ PromptInv /\ SlowInv
  BY DEF RpcInv
<1>2. /\ running = NoCaller /\ tasks = <<>> /\ batch = <<>> /\ queue = <<>>
      /\ UNCHANGED <<faults, addrs, sock, watch, cor, pending, armed>>
      /\ UNCHANGED <<tasks, queue, running, call, crashed>>
  BY DEF EpollWait, LoopFree, socketVars, timerVars
<1>3. PICK events \in SUBSET Ready :
        /\ events # {} /\ ("batched" \notin faults => Cardinality(events) = 1)
        /\ batch' \in SetToSeqs(events)
  <2>1. PICK events \in (SUBSET Ready) \ {{}} :
          /\ IF "batched" \in faults THEN events = Ready ELSE Cardinality(events) = 1
          /\ batch' \in SetToSeqs(events)
    BY Zenon DEF EpollWait
  <2> QED
    BY <2>1
<1>4. events \subseteq Fds \cup {TimerFd}
  BY DEF Ready
<1>5. IsFiniteSet(events)
  <2>1. IsFiniteSet(Fds \cup {TimerFd})
    BY RpcCallAssumption, FS_AddElement
  <2> QED
    BY <1>4, <2>1, FS_Subset
<1>6. /\ batch' \in Seq(events) /\ Len(batch') = Cardinality(events) /\ IsInjective(batch')
      /\ ToSet(batch') \subseteq events
  BY <1>3, <1>5, ListsAre
<1>7. batch' \in Seq(Fds \cup {TimerFd})
  BY <1>4, <1>6
<1>8. TypeInv'
  <2>1. TypeOK'
    BY <1>1, <1>2, <1>7 DEF TypeInv, TypeOK
  <2> QED
    BY <1>1, <1>2, <2>1 DEF TypeInv
<1>9. BaseInv'
  BY <1>1, <1>2 DEF BaseInv
<1> SUFFICES ASSUME Single PROVE (Alone /\ Places /\ Cors /\ Queued /\ PromptInv /\ SlowInv)'
  BY <1>2, <1>8, <1>9 DEF RpcInv, Single
<1>10. Alone' /\ Cors'
  BY <1>1, <1>2 DEF Alone, Cors
<1>11. Places'
  BY <1>1, <1>2 DEF Places, Place, SocketPlace, Uses
<1>12. Queued'
  <2>1. batch' # <<>> => Head(batch') \in events
    BY <1>6
  <2>2. ASSUME NEW f \in Fds, NEW c \in Callers, batch' # <<>>, Head(batch') = f, cor[f] = c
        PROVE  Come(f, c)
    <3>1. f \in Ready /\ f # TimerFd
      BY <1>3, <2>1, <2>2, NumbersAre
    <3>2. Readable(f)
      BY <3>1 DEF Ready
    <3>3. /\ call[c].pc \in {"connecting", "receiving"}
          /\ call[c].pc = "connecting" => watch[f] # "READ"
          /\ call[c].pc = "receiving" => watch[f] # "WRITE"
      BY <1>1, <2>2 DEF Cors
    <3> QED
      BY <1>2, <3>2, <3>3, RpcCallAssumption DEF Come, Readable
  <2>3. \A f \in Fds, c \in Callers : Come(f, c)' = Come(f, c)
    BY <1>2 DEF Come
  <2>4. Len(queue) <= 1
    BY <1>2
  <2>5. "batched" \notin faults => Len(batch') <= 1
    BY <1>3, <1>6
  <2> QED
    BY <1>1, <1>2, <2>2, <2>3, <2>4, <2>5 DEF Queued
<1>13. ASSUME Prompt PROVE Resumes' /\ EventsLive'
  <2>1. EventsLive'
    BY <1>1, <1>2, <1>13 DEF PromptInv, EventsLive, PendingOf, TasksOf, Unique, Frame
  <2>2. Resumes'
    BY <1>1, <1>2, <1>13 DEF PromptInv, Resumes, Woken
  <2> QED
    BY <2>1, <2>2
<1>14. Dead => Dead'
  <2>1. armed = Never => TimerFd \notin Ready
    BY NumbersAre DEF Ready, Never
  <2> QED
    BY <1>2, <1>3, <1>6, <2>1 DEF Dead
<1>15. SlowInv'
  BY ONLY <1>1, <1>2, <1>6, <1>14, Single, BatchMoves
<1> QED
  BY <1>2, <1>10, <1>11, <1>12, <1>13, <1>15 DEF PromptInv, Prompt

\* The event of a descriptor goes into the queue.
LEMMA HandleSocketKeeps ==
    ASSUME RpcInv, crashed = "no", UNCHANGED faults, HandleSocket
    PROVE  RpcInv'
<1>0. PICK f : f = Head(batch)
  OBVIOUS
<1>1. /\ TypeInv /\ BaseInv
      /\ Single => Alone /\ Places /\ Cors /\ Queued /\ PromptInv /\ SlowInv
  BY DEF RpcInv
<1>2. /\ running = NoCaller /\ tasks = <<>> /\ batch # <<>> /\ f # TimerFd /\ batch' = Tail(batch)
      /\ UNCHANGED <<faults, addrs, sock, cor, pending, armed, tasks, running, call, crashed>>
  BY <1>0 DEF HandleSocket, timerVars
<1>3. /\ f \in Fds /\ batch' \in Seq(Fds \cup {TimerFd}) /\ Len(batch') = Len(batch) - 1
      /\ Len(batch) \in Nat /\ queue \in Seq(Fds) /\ batch \in Seq(Fds \cup {TimerFd})
  BY <1>0, <1>1, <1>2 DEF TypeInv, TypeOK
<1>4. /\ cor[f] = NoCaller => watch' = watch /\ queue' = queue
      /\ cor[f] # NoCaller => watch' = [watch EXCEPT ![f] = "none"] /\ queue' = Append(queue, f)
  BY <1>0 DEF HandleSocket, Unwatched
<1>5. /\ queue' \in Seq(Fds) /\ watch' \in [Fds -> {"none", "READ", "WRITE"}]
      /\ \A g \in Fds : watch'[g] = watch[g] \/ (g = f /\ watch'[g] = "none" /\ cor[f] # NoCaller)
  <2>1. watch \in [Fds -> {"none", "READ", "WRITE"}]
    BY <1>1 DEF TypeInv
  <2>2. CASE cor[f] = NoCaller
    BY <1>3, <1>4, <2>1, <2>2
  <2>3. CASE cor[f] # NoCaller
    <3>1. queue' \in Seq(Fds)
      <4>1. Append(queue, f) \in Seq(Fds)
        BY ONLY <1>3, AppendProperties
      <4> QED
        BY <1>4, <2>3, <4>1
    <3>2. watch' = [watch EXCEPT ![f] = "none"]
      BY <1>4, <2>3
    <3> QED
      BY <1>3, <2>1, <2>3, <3>1, <3>2
  <2> QED
    BY <2>2, <2>3
<1>6. TypeInv'
  <2>1. TypeOK'
    BY <1>1, <1>2, <1>3, <1>5 DEF TypeInv, TypeOK
  <2> QED
    BY <1>1, <1>2, <1>5, <2>1 DEF TypeInv
<1>7. BaseInv'
  BY <1>1, <1>2 DEF BaseInv
<1> SUFFICES ASSUME Single PROVE (Alone /\ Places /\ Cors /\ Queued /\ PromptInv /\ SlowInv)'
  BY <1>2, <1>6, <1>7 DEF RpcInv, Single
<1>8. Alone'
  BY <1>1, <1>2 DEF Alone
<1>9. Places'
  BY <1>1, <1>2 DEF Places, Place, SocketPlace, Uses
<1>10. Cors'
  BY <1>1, <1>2, <1>5 DEF Cors
<1>11. "batched" \notin faults =>
         /\ queue = <<>> /\ batch' = <<>>
         /\ cor[f] = NoCaller => queue' = <<>>
         /\ cor[f] # NoCaller => queue' # <<>> /\ Head(queue') = f /\ Len(queue') = 1
         /\ \A c \in Callers : cor[f] = c => Come(f, c)
  <2> SUFFICES ASSUME "batched" \notin faults
               PROVE  /\ queue = <<>> /\ batch' = <<>>
                      /\ cor[f] = NoCaller => queue' = <<>>
                      /\ cor[f] # NoCaller => queue' # <<>> /\ Head(queue') = f /\ Len(queue') = 1
                      /\ \A c \in Callers : cor[f] = c => Come(f, c)
    OBVIOUS
  <2>1. queue = <<>> /\ Len(batch) <= 1 /\ \A c \in Callers : cor[f] = c => Come(f, c)
    BY <1>0, <1>1, <1>2, <1>3 DEF Queued
  <2>2. Len(batch') <= 0 /\ Len(batch') \in Nat
    BY <1>3, <2>1
  <2>3. batch' = <<>>
    BY <1>3, <2>2
  <2>4. cor[f] # NoCaller => queue' = <<f>>
    BY <1>4, <2>1
  <2> QED
    BY <1>4, <2>1, <2>3, <2>4
<1>12. Queued'
  <2>1. \A g \in Fds, c \in Callers : Come(g, c)' = Come(g, c)
    BY <1>2 DEF Come
  <2>2. ASSUME "batched" \notin faults PROVE Len(queue') <= 1 /\ Len(batch') <= 1
    <3>1. batch' = <<>> /\ (queue' = <<>> \/ Len(queue') = 1)
      BY Zenon, <1>11, <2>2
    <3>2. Len(batch') <= 1
      BY <3>1
    <3>3. CASE queue' = <<>>
      BY <3>2, <3>3
    <3>4. CASE Len(queue') = 1
      BY <3>2, <3>4
    <3> QED
      BY <3>1, <3>3, <3>4
  <2>3. crashed # "null coroutine"
    OBVIOUS
  <2> QED
    BY ONLY <1>2, <1>3, <1>11, <2>1, <2>2, <2>3, crashed = "no" DEF Queued
<1>13. ASSUME Prompt PROVE Resumes' /\ EventsLive'
  <2>1. EventsLive'
    BY <1>1, <1>2, <1>13 DEF PromptInv, EventsLive, PendingOf, TasksOf, Unique, Frame
  <2>2. ASSUME NEW c \in Callers PROVE Woken(c)'
    <3>1. Woken(c) /\ queue = <<>> /\ running # c
      BY <1>1, <1>2, <1>11, <1>13, RpcCallAssumption DEF PromptInv, Prompt, Resumes
    <3>2. call[c].pc = "connecting" =>
            watch'[call[c].fd] = "WRITE" \/ (queue' # <<>> /\ Head(queue') = call[c].fd)
      <4> SUFFICES ASSUME call[c].pc = "connecting"
                   PROVE watch'[call[c].fd] = "WRITE" \/ (queue' # <<>> /\ Head(queue') = call[c].fd)
        OBVIOUS
      <4>1. call[c].fd \in Fds /\ watch[call[c].fd] = "WRITE"
        BY <1>1, <3>1, FdIs DEF Woken
      <4>2. CASE watch'[call[c].fd] = watch[call[c].fd]
        BY <4>1, <4>2
      <4>3. CASE call[c].fd = f /\ cor[f] # NoCaller
        BY <1>11, <1>13, <4>3 DEF Prompt
      <4> QED
        BY <1>5, <4>1, <4>2, <4>3
    <3> QED
      BY <1>2, <3>1, <3>2 DEF Woken
  <2> QED
    BY <2>1, <2>2 DEF Resumes
<1>14. SlowInv'
  <2>1. IsInjective(batch) => IsInjective(batch') /\ ToSet(batch)' \subseteq ToSet(batch)
    BY <1>2, <1>3, TailElements
  <2>2. SlowPending => IsInjective(batch)
    BY DEF SlowPending
  <2>3. ToSet(batch)' \subseteq ToSet(batch)
    <3>1. \A i \in 1 .. (Len(batch) - 1) : i + 1 \in 1 .. Len(batch) /\ batch'[i] = batch[i + 1]
      BY <1>2, <1>3
    <3>2. DOMAIN batch = 1 .. Len(batch) /\ DOMAIN batch' = 1 .. (Len(batch) - 1)
      BY <1>3
    <3> QED
      BY <3>1, <3>2 DEF ToSet
  <2>4. Dead => Dead'
    BY <1>2, <2>3 DEF Dead
  <2> QED
    BY <1>1, <1>2, <2>1, <2>2, <2>4, BatchMoves
<1> QED
  BY <1>2, <1>8, <1>9, <1>10, <1>12, <1>13, <1>14 DEF PromptInv, Prompt

----------------------------------------------------------------------------
(* The time.                                                               *)

\* An event after a tick is one from before it, and as live as it.
Ticked(e) ==
    \E d \in ToSet(pending) : Same(e, d) /\ e.at = Later(d.at) /\ (Live(e)' <=> Live(d))

\* All times are one nearer.
LEMMA TickIs ==
    ASSUME TypeInv, BaseInv, Tick
    PROVE  /\ running = NoCaller
           /\ "batched" \in faults \/ (LoopFree /\ queue = <<>> /\ Ready = {})
           /\ "connectSlow" \in faults \/ \A f \in Fds : sock[f].state # "syn"
           /\ UNCHANGED <<addrs, sock, watch, cor, tasks, batch, queue, running, crashed>>
           /\ call' \in [Callers -> CallType]
           /\ \A c \in Callers :
                /\ call'[c].pc = call[c].pc /\ call'[c].calls = call[c].calls
                /\ call'[c].retry = call[c].retry /\ call'[c].fd = call[c].fd
                /\ call'[c].connFd = call[c].connFd /\ call'[c].overTime = call[c].overTime
                /\ call'[c].result = call[c].result /\ Frame(c)' = Frame(c)
                /\ call'[c].left = Later(call[c].left)
                /\ call'[c].connectAt = Later(call[c].connectAt)
           /\ pending' \in Seq(Event) /\ Order(pending)' /\ (pending = <<>> <=> pending' = <<>>)
           /\ \A e \in ToSet(pending)' : e \in Event /\ e.at >= Floor /\ Ticked(e)
           /\ pending # <<>> =>
                 /\ Head(pending') \in Event /\ Head(pending').at = Later(Head(pending).at)
                 /\ Same(Head(pending'), Head(pending))
           /\ Unique(pending) => Unique(pending)'
           /\ armed' \in Int /\ (armed = Never => armed' = Never)
<1>1. /\ running = NoCaller
      /\ "batched" \in faults \/ (LoopFree /\ queue = <<>> /\ Ready = {})
      /\ "connectSlow" \in faults \/ \A f \in Fds : sock[f].state # "syn"
      /\ UNCHANGED <<addrs, sock, watch, cor, tasks, batch, queue, running, crashed>>
      /\ pending' = [i \in DOMAIN pending |-> [pending[i] EXCEPT !.at = Later(@)]]
      /\ armed' = IF armed > 0 THEN armed - 1 ELSE armed
      /\ call' = [c \in Callers |-> [call[c] EXCEPT !.left = Later(@), !.connectAt = Later(@)]]
  BY DEF Tick, socketVars, loopVars
<1>2. /\ call \in [Callers -> CallType] /\ armed \in Int /\ pending \in Seq(Event) /\ Order(pending)
      /\ \A e \in ToSet(pending) : e \in Event /\ e.at \in Int /\ e.at >= Floor
  BY EventParts DEF TypeInv, TypeOK, Order
<1>3. \A c \in Callers :
         /\ call[c].left \in Int /\ call[c].connectAt \in Int
         /\ Later(call[c].left) \in Int /\ Later(call[c].connectAt) \in Int
  BY <1>2, LaterFacts DEF CallType
<1>4. /\ call' \in [Callers -> CallType]
      /\ \A c \in Callers :
           /\ call'[c].pc = call[c].pc /\ call'[c].calls = call[c].calls
           /\ call'[c].retry = call[c].retry /\ call'[c].fd = call[c].fd
           /\ call'[c].connFd = call[c].connFd /\ call'[c].overTime = call[c].overTime
           /\ call'[c].result = call[c].result
           /\ call'[c].left = Later(call[c].left)
           /\ call'[c].connectAt = Later(call[c].connectAt)
  <2>1. ASSUME NEW c \in Callers
        PROVE  LET r == [call[c] EXCEPT !.left = Later(@), !.connectAt = Later(@)] IN
               /\ r \in CallType
               /\ r.pc = call[c].pc /\ r.calls = call[c].calls
               /\ r.retry = call[c].retry /\ r.fd = call[c].fd
               /\ r.connFd = call[c].connFd /\ r.overTime = call[c].overTime
               /\ r.result = call[c].result
               /\ r.left = Later(call[c].left) /\ r.connectAt = Later(call[c].connectAt)
    BY <1>2, <1>3 DEF CallType
  <2> QED
    BY <1>1, <2>1
<1>5. \A c \in Callers : Frame(c)' = Frame(c)
  BY <1>4 DEF Frame
<1> DEFINE r == [i \in DOMAIN pending |-> [pending[i] EXCEPT !.at = Later(@)]]
<1>6. /\ r \in Seq(Event) /\ Len(r) = Len(pending) /\ Order(r)
      /\ \A e \in ToSet(r) : \E d \in ToSet(pending) : Same(e, d) /\ e.at = Later(d.at)
      /\ pending # <<>> => /\ r # <<>> /\ Head(r).at = Later(Head(pending).at)
                           /\ Same(Head(r), Head(pending))
      /\ Unique(pending) => Unique(r)
  BY <1>2, TickFacts
<1>7. pending' = r
  BY <1>1
<1> HIDE DEF r
<1>8. pending = <<>> => r = <<>>
  BY <1>6
<1>9. ASSUME NEW e \in ToSet(r) PROVE e \in Event /\ e.at >= Floor /\ Ticked(e)
  <2>1. PICK d \in ToSet(pending) : Same(e, d) /\ e.at = Later(d.at)
    BY <1>6
  <2>2. e \in Event /\ e.caller \in Callers /\ e.caller = d.caller /\ e.frame = d.frame
    BY <1>6, <2>1, EventPlaces DEF Event, Same
  <2>3. Live(e)' <=> Live(d)
    BY <1>4, <1>5, <2>2 DEF Live
  <2>4. e.at >= Floor
    BY <1>2, <2>1, LaterFacts
  <2> QED
    BY <2>1, <2>2, <2>3, <2>4 DEF Ticked
<1>10. armed' \in Int /\ (armed = Never => armed' = Never)
  <2>1. Never \in Int /\ ~(Never > 0)
    BY DEF Never
  <2>2. armed' = IF armed > 0 THEN armed - 1 ELSE armed
    BY <1>1
  <2>3. armed \in Int
    BY <1>2
  <2>4. armed' \in Int
    BY ONLY <2>2, <2>3
  <2>5. armed = Never => armed' = Never
    BY ONLY <2>1, <2>2
  <2> QED
    BY <2>4, <2>5
<1>11. r # <<>> => Head(r) \in Event
  BY <1>6
<1> QED
  BY <1>1, <1>4, <1>5, <1>6, <1>7, <1>8, <1>9, <1>10, <1>11

\* A tick keeps the invariant.
LEMMA TickKeeps ==
    ASSUME RpcInv, crashed = "no", UNCHANGED faults, Tick
    PROVE  RpcInv'
<1>1. /\ TypeInv /\ BaseInv
      /\ Single => Alone /\ Places /\ Cors /\ Queued /\ PromptInv /\ SlowInv
  BY DEF RpcInv
<1>2. /\ running = NoCaller
      /\ "batched" \in faults \/ (LoopFree /\ queue = <<>> /\ Ready = {})
      /\ "connectSlow" \in faults \/ \A f \in Fds : sock[f].state # "syn"
      /\ UNCHANGED <<addrs, sock, watch, cor, tasks, batch, queue, running, crashed>>
  BY <1>1, TickIs
<1>3. /\ call' \in [Callers -> CallType]
      /\ \A c \in Callers :
           /\ call'[c].pc = call[c].pc /\ call'[c].calls = call[c].calls
           /\ call'[c].retry = call[c].retry /\ call'[c].fd = call[c].fd
           /\ call'[c].connFd = call[c].connFd /\ call'[c].overTime = call[c].overTime
           /\ call'[c].result = call[c].result /\ Frame(c)' = Frame(c)
           /\ call'[c].left = Later(call[c].left)
           /\ call'[c].connectAt = Later(call[c].connectAt)
  BY <1>1, TickIs
<1>4. /\ pending' \in Seq(Event) /\ Order(pending)' /\ (pending = <<>> <=> pending' = <<>>)
      /\ \A e \in ToSet(pending)' : e \in Event /\ e.at >= Floor /\ Ticked(e)
      /\ Unique(pending) => Unique(pending)'
      /\ armed' \in Int /\ (armed = Never => armed' = Never)
  BY <1>1, TickIs
<1>5. pending # <<>> =>
        /\ Head(pending') \in Event /\ Head(pending').at = Later(Head(pending).at)
        /\ Same(Head(pending'), Head(pending))
  BY <1>1, TickIs
<1>6. \A c \in Callers : call[c].left \in Int /\ call[c].connectAt \in Int
  BY <1>1 DEF TypeInv, CallType
<1>7. TypeInv'
  <2>1. TypeOK'
    BY <1>1, <1>2, <1>4 DEF TypeInv, TypeOK, Order
  <2> QED
    BY <1>1, <1>2, <1>3, <1>4, <2>1 DEF TypeInv
<1>8. BaseInv'
  <2>1. \A c \in Callers : /\ call[c].left >= Floor => call'[c].left >= Floor
                           /\ call[c].connectAt >= Floor => call'[c].connectAt >= Floor
    BY <1>3, <1>6, LaterFacts
  <2>2. ASSUME NEW f \in Fds, sock'[f].state # "none"
        PROVE  sock'[f].owner \in Callers /\ call'[sock'[f].owner].fd = f
    BY <1>1, <1>2, <1>3, <2>2 DEF BaseInv
  <2> QED
    BY <1>1, <1>2, <1>3, <2>1, <2>2 DEF BaseInv
<1> SUFFICES ASSUME Single PROVE (Alone /\ Places /\ Cors /\ Queued /\ PromptInv /\ SlowInv)'
  BY <1>2, <1>7, <1>8 DEF RpcInv, Single
<1>9. Alone'
  BY <1>1, <1>2, <1>3 DEF Alone
<1>10. Places'
  <2>1. ASSUME NEW f \in Fds PROVE SocketPlace(f)'
    BY <1>1, <1>2, <2>1 DEF Places, SocketPlace
  <2>2. ASSUME NEW c \in Callers PROVE Place(c)'
    BY <1>1, <1>2, <1>3, <2>2 DEF Places, Place, Uses
  <2> QED
    BY <2>1, <2>2 DEF Places
<1>11. Cors'
  BY <1>1, <1>2, <1>3 DEF Cors
<1>12. Queued'
  <2>1. \A f \in Fds, c \in Callers : Come(f, c) => Come(f, c)'
    BY <1>2, <1>3 DEF Come
  <2> QED
    BY <1>1, <1>2, <2>1 DEF Queued
<1>13. ASSUME Prompt PROVE Resumes' /\ EventsLive'
  <2>1. /\ LoopFree /\ queue = <<>> /\ Ready = {} /\ Resumes /\ EventsLive
        /\ \A f \in Fds : sock[f].state # "syn"
    BY <1>1, <1>2, <1>13 DEF Prompt, PromptInv
  <2>2. tasks = <<>> /\ ToSet(tasks) = {}
    BY <2>1, EmptyElements DEF LoopFree
  <2>3. ASSUME NEW c \in Callers PROVE call[c].pc \notin {"select", "connect", "connecting"} /\ running # c
    <3>1. Woken(c) /\ Place(c) /\ running # c
      BY <1>1, <1>2, <2>1, RpcCallAssumption DEF Resumes, Places
    <3>2. ASSUME call[c].pc = "connecting" PROVE FALSE
      <4>1. call[c].fd \in Fds /\ watch[call[c].fd] = "WRITE"
            /\ sock[call[c].fd].state \in {"up", "refused", "closed"}
        BY <1>1, <2>1, <3>1, <3>2, FdIs DEF Woken, Place, Uses
      <4>2. call[c].fd \in Ready
        BY <4>1 DEF Ready, Readable
      <4> QED
        BY <2>1, <4>2
    <3> QED
      BY <3>1, <3>2 DEF Place
  <2>4. ASSUME NEW c \in Callers
        PROVE  ~call[c].overTime \/ call[c].pc \in {"idle", "select", "crashed"}
    BY <2>1, <2>3 DEF Resumes, Woken
  <2>5. Resumes'
    BY <1>2, <1>3, <2>2, <2>3, <2>4 DEF Resumes, Woken
  <2>6. ASSUME NEW c \in Callers PROVE PendingOf(c)'
    <3> SUFFICES ASSUME NEW e \in ToSet(pending)', e.caller = c
                 PROVE  /\ call'[c].pc \notin {"idle", "select"} /\ e.frame = Frame(c)'
                        /\ e.kind = "connect" => call'[c].pc = "connecting" /\ e.at = ConnectTimeout
                        /\ e.kind = "call" => e.at = call'[c].left
      BY DEF PendingOf
    <3>1. PICK d \in ToSet(pending) : Same(e, d) /\ e.at = Later(d.at)
      BY <1>4 DEF Ticked
    <3>2. PendingOf(c) /\ d.caller = c /\ d.kind = e.kind /\ d.frame = e.frame
      BY <2>1, <3>1 DEF EventsLive, Same
    <3> QED
      BY <1>3, <2>3, <3>1, <3>2 DEF PendingOf
  <2>7. Unique(pending)' /\ Unique(tasks)' /\ \A c \in Callers : TasksOf(c)'
    BY <1>2, <1>4, <2>1, <2>2 DEF EventsLive, Unique, TasksOf
  <2> QED
    BY <2>5, <2>6, <2>7 DEF EventsLive
<1>14. ASSUME ~Prompt PROVE (Older /\ SlowPending /\ SlowTasks /\ SlowOver)'
  <2>1. Older /\ SlowPending /\ SlowTasks /\ SlowOver
    BY <1>1, <1>14 DEF SlowInv
  <2>2. Dead => Dead'
    BY <1>2, <1>4 DEF Dead
  <2>3. \A e \in ToSet(tasks) : Live(e)' <=> Live(e)
    BY <1>1, <1>3, EventParts DEF Live
  <2>4. \A c \in Callers : call[c].left <= 0 => call'[c].left <= 0
    BY <1>3, <1>6, LaterFacts
  <2>5. Older'
    <3> SUFFICES ASSUME NEW e \in ToSet(pending)' \cup ToSet(tasks), NEW c \in Callers, e.caller = c
                 PROVE  /\ e.frame[1] <= call'[c].calls
                        /\ call'[c].pc # "idle" /\ e.frame[1] = call'[c].calls =>
                              e.frame[2] <= call'[c].retry
                        /\ call'[c].pc = "select" => e.frame # Frame(c)'
      BY <1>2 DEF Older
    <3>1. PICK d \in ToSet(pending) \cup ToSet(tasks) : Same(e, d)
      <4>1. CASE e \in ToSet(tasks)
        BY <4>1 DEF Same
      <4>2. CASE e \in ToSet(pending)'
        BY <1>4, <4>2 DEF Ticked
      <4> QED
        BY <4>1, <4>2
    <3>2. d.caller = c /\ d.frame = e.frame
      BY <3>1 DEF Same
    <3> QED
      BY <1>3, <2>1, <3>2 DEF Older
  <2>6. StaleFirst => StaleFirst'
    <3> SUFFICES ASSUME StaleFirst PROVE StaleFirst'
      OBVIOUS
    <3>1. PICK h \in Event :
            /\ pending # <<>> /\ h = Head(pending) /\ h.kind = "call" /\ ~Live(h) /\ h.at <= 0
            /\ \A c \in Callers : call[c].pc # "idle" =>
                  h.at <= call[c].left /\ (call[c].pc = "connecting" => h.at <= call[c].connectAt)
      BY DEF StaleFirst
    <3>2. PICK g : g = Head(pending')
      OBVIOUS
    <3>3. g \in Event /\ g.at = Later(h.at) /\ Same(g, h) /\ pending' # <<>>
      BY <1>4, <1>5, <3>1, <3>2
    <3>4. h \in ToSet(pending) /\ h.at \in Int /\ h.at >= Floor /\ h.caller \in Callers
      BY <1>1, <3>1, EventPlaces DEF TypeInv, TypeOK, Event
    <3>5. g.at <= 0
      BY <3>1, <3>3, <3>4, LaterFacts
    <3>6. ASSUME NEW c \in Callers, call'[c].pc # "idle"
          PROVE  g.at <= call'[c].left /\ (call'[c].pc = "connecting" => g.at <= call'[c].connectAt)
      BY <1>3, <1>6, <3>1, <3>3, <3>4, <3>6, LaterFacts
    <3>7. g.kind = "call" /\ g.caller = h.caller /\ g.frame = h.frame
      BY <3>1, <3>3 DEF Same
    <3>8. ~Live(g)'
      BY <1>3, <3>1, <3>4, <3>7 DEF Live
    <3> QED
      BY <3>2, <3>3, <3>5, <3>6, <3>7, <3>8 DEF StaleFirst
  <2>7. ASSUME NEW c \in Callers, LiveFirst(c) PROVE LiveFirst(c)'
    <3>1. PICK h \in Event :
            /\ pending # <<>> /\ h = Head(pending) /\ h.kind = "call" /\ h.caller = c
            /\ Live(h) /\ h.at <= 0
      BY <2>7 DEF LiveFirst
    <3>2. PICK g : g = Head(pending')
      OBVIOUS
    <3>3. g \in Event /\ g.at = Later(h.at) /\ Same(g, h) /\ pending' # <<>>
      BY <1>4, <1>5, <3>1, <3>2
    <3>4. h.at \in Int /\ g.kind = "call" /\ g.caller = c /\ g.frame = h.frame
      BY <3>1, <3>3 DEF Same, Event
    <3>5. g.at <= 0
      BY <3>1, <3>3, <3>4, LaterFacts
    <3>6. Live(g)'
      BY <1>3, <3>1, <3>4 DEF Live
    <3> QED
      BY <3>2, <3>3, <3>4, <3>5, <3>6 DEF LiveFirst
  <2>8. SlowPending'
    <3>1. ASSUME NEW e \in ToSet(pending)', NEW c \in Callers, e.caller = c
          PROVE  /\ e.kind = "connect" => Live(e)' /\ call'[c].pc = "connecting"
                 /\ e.kind = "call" /\ Live(e)' => e.at = call'[c].left
      <4>1. PICK d \in ToSet(pending) : Same(e, d) /\ e.at = Later(d.at) /\ (Live(e)' <=> Live(d))
        BY <1>4, <3>1 DEF Ticked
      <4>2. d.kind = e.kind /\ d.caller = c
        BY <3>1, <4>1 DEF Same
      <4> QED
        BY <1>3, <2>1, <4>1, <4>2 DEF SlowPending
    <3>2. ASSUME NEW e \in ToSet(pending)', e.kind = "call", ~Live(e)'
          PROVE  StaleFirst' /\ Dead' /\ tasks' = <<>>
      <4>1. PICK d \in ToSet(pending) : Same(e, d) /\ (Live(e)' <=> Live(d))
        BY <1>4 DEF Ticked
      <4>2. d.kind = "call" /\ ~Live(d)
        BY <3>2, <4>1 DEF Same
      <4> QED
        BY <1>2, <2>1, <2>2, <2>6, <4>2 DEF SlowPending
    <3>3. IsInjective(batch) /\ Unique(pending)'
      BY <1>4, <2>1 DEF SlowPending
    <3> QED
      BY <1>2, <3>1, <3>2, <3>3 DEF SlowPending
  <2>9. ASSUME NEW e \in ToSet(tasks), NEW c \in Callers, e.caller = c, Goes(e, c)
        PROVE  Goes(e, c)'
    <3>1. CASE call[c].pc \in {"idle", "crashed"}
      BY <1>3, <3>1 DEF Goes
    <3>2. CASE /\ e.frame = Frame(c)
               /\ \A d \in ToSet(pending) : ~(d.kind = "call" /\ d.caller = c)
      <4>1. ASSUME NEW g \in ToSet(pending)', g.kind = "call", g.caller = c PROVE FALSE
        <5>1. PICK d \in ToSet(pending) : Same(g, d)
          BY <1>4 DEF Ticked
        <5> QED
          BY <3>2, <4>1, <5>1 DEF Same
      <4>2. running' # c
        BY <1>2, RpcCallAssumption
      <4> QED
        BY <1>3, <3>2, <4>1, <4>2 DEF Goes
    <3>3. CASE /\ e.frame # Frame(c) /\ Dead
               /\ call[c].pc = "connecting" => running # c
               /\ (call[c].pc = "select" /\ pending = <<>>) \/ (call[c].pc # "select" /\ LiveFirst(c))
      BY <1>2, <1>3, <1>4, <2>2, <2>7, <3>3 DEF Goes
    <3> QED
      BY <2>9, <3>1, <3>2, <3>3 DEF Goes
  <2>10. SlowTasks'
    <3>1. \A e \in ToSet(tasks) : \A c \in Callers : e.caller = c =>
            /\ e.kind = "connect" => call'[c].pc # "abandoned"
            /\ e.kind = "call" /\ call'[c].pc # "idle" => call'[c].left <= 0
            /\ e.kind = "call" /\ call'[c].pc = "abandoned" => e.frame = Frame(c)'
            /\ e.kind = "call" => Goes(e, c)'
            /\ Len(tasks) = 2 => Live(e)' /\ call'[c].pc = "connecting" /\ ~call'[c].overTime
      BY <1>3, <2>1, <2>3, <2>4, <2>9 DEF SlowTasks
    <3>2. Len(tasks) = 2 => running' = NoCaller /\ pending' = <<>> /\ Dead'
      BY <1>2, <1>4, <2>1, <2>2 DEF SlowTasks
    <3>3. \A c \in Callers : running' # c
      BY <1>2, RpcCallAssumption
    <3>4. Unique(tasks) /\ Len(tasks) <= 2 /\ \A e, d \in ToSet(tasks) : e.caller = d.caller
      BY <2>1 DEF SlowTasks
    <3> QED
      BY <1>2, <3>1, <3>2, <3>3, <3>4 DEF SlowTasks, Unique
  <2>11. SlowOver'
    <3> SUFFICES ASSUME NEW c \in Callers, call'[c].overTime, call'[c].pc \notin {"idle", "select"}
                 PROVE  /\ call'[c].left <= 0
                        /\ (\E e \in ToSet(pending)' : e.kind = "call" /\ e.caller = c /\ Live(e)') =>
                              Dead' /\ tasks' = <<>> /\ LiveFirst(c)'
      BY DEF SlowOver
    <3>1. /\ call[c].left <= 0
          /\ (\E e \in ToSet(pending) : e.kind = "call" /\ e.caller = c /\ Live(e)) =>
                Dead /\ tasks = <<>> /\ LiveFirst(c)
      BY <1>3, <2>1 DEF SlowOver
    <3>2. ASSUME NEW g \in ToSet(pending)', g.kind = "call", g.caller = c, Live(g)'
          PROVE  \E e \in ToSet(pending) : e.kind = "call" /\ e.caller = c /\ Live(e)
      BY <1>4, <3>2 DEF Ticked, Same
    <3> QED
      BY <1>2, <2>2, <2>4, <2>7, <3>1, <3>2
  <2> QED
    BY <2>5, <2>8, <2>10, <2>11
<1> QED
  BY <1>2, <1>9, <1>10, <1>11, <1>12, <1>13, <1>14 DEF PromptInv, SlowInv, Prompt

----------------------------------------------------------------------------
(* The timer's call-backs.                                                 *)

\* Events of one attempt are two at most.
LEMMA TwoKinds ==
    ASSUME NEW s \in Seq(Event), Unique(s), NEW c, NEW frame,
           \A e \in ToSet(s) : e.caller = c /\ e.frame = frame
    PROVE  /\ Len(s) <= 2
           /\ Len(s) = 2 => /\ \E e \in ToSet(s) : e.kind = "connect"
                            /\ \E e \in ToSet(s) : e.kind = "call"
<1>1. /\ Len(s) \in Nat /\ DOMAIN s = 1 .. Len(s)
      /\ \A i \in 1 .. Len(s) : s[i] \in Event /\ s[i] \in ToSet(s)
  BY EventPlaces
<1>2. \A i, j \in 1 .. Len(s) : s[i].kind = s[j].kind => i = j
  BY <1>1 DEF Unique, Same
<1>3. \A i \in 1 .. Len(s) : s[i].kind = "call" \/ s[i].kind = "connect"
  BY <1>1 DEF Event
<1>4. Len(s) <= 2
  <2> SUFFICES ASSUME Len(s) >= 3 PROVE FALSE
    BY <1>1
  <2>1. 1 \in 1 .. Len(s) /\ 2 \in 1 .. Len(s) /\ 3 \in 1 .. Len(s)
    BY <1>1
  <2>2. s[1].kind # s[2].kind /\ s[1].kind # s[3].kind /\ s[2].kind # s[3].kind
    BY <1>2, <2>1
  <2> QED
    BY <1>3, <2>1, <2>2
<1>5. ASSUME Len(s) = 2
      PROVE  (\E e \in ToSet(s) : e.kind = "connect") /\ \E e \in ToSet(s) : e.kind = "call"
  <2>1. 1 \in 1 .. Len(s) /\ 2 \in 1 .. Len(s)
    BY <1>5
  <2>2. s[1].kind # s[2].kind
    BY <1>2, <2>1
  <2> QED
    BY <1>1, <1>3, <2>1, <2>2
<1> QED
  BY <1>4, <1>5

\* What OnTimer does.
LEMMA OnTimerIs ==
    ASSUME TypeInv, OnTimer
    PROVE  /\ running = NoCaller /\ tasks = <<>> /\ batch # <<>> /\ Head(batch) = TimerFd
           /\ batch' = Tail(batch) /\ batch' \in Seq(Fds \cup {TimerFd})
           /\ Len(batch') = Len(batch) - 1 /\ Len(batch) \in Nat
           /\ TimerFd \in ToSet(batch)
           /\ IsInjective(batch) => IsInjective(batch') /\ TimerFd \notin ToSet(batch)'
           /\ UNCHANGED <<addrs, sock, watch, cor, queue, running, call, crashed>>
           /\ pending' \in Seq(Event) /\ tasks' \in Seq(Event) /\ Order(pending)'
           /\ ToSet(tasks)' \cup ToSet(pending)' \subseteq ToSet(pending)
           /\ \A e \in ToSet(tasks)' : e.at <= 0
           /\ Len(tasks') + Len(pending') = Len(pending)
           /\ Unique(pending) => /\ Unique(tasks)' /\ Unique(pending)'
                                 /\ \A d \in ToSet(tasks)', e \in ToSet(pending)' : ~Same(d, e)
           /\ armed' \in Int /\ (pending' = <<>> => armed' = Never)
<1>1. /\ running = NoCaller /\ tasks = <<>> /\ batch # <<>> /\ Head(batch) = TimerFd
      /\ batch' = Tail(batch)
      /\ tasks' = SubSeq(pending, 1, Due(pending, 0))
      /\ pending' = SubSeq(pending, Due(pending, 0) + 1, Len(pending))
      /\ armed' = IF pending' = <<>> THEN Never ELSE Armed(pending')
      /\ UNCHANGED <<addrs, sock, watch, cor, queue, running, call, crashed>>
  BY DEF OnTimer, socketVars
<1>2. /\ batch \in Seq(Fds \cup {TimerFd}) /\ pending \in Seq(Event) /\ Order(pending) /\ armed \in Int
  BY DEF TypeInv, TypeOK, Order
<1>3. /\ batch' \in Seq(Fds \cup {TimerFd}) /\ Len(batch') = Len(batch) - 1 /\ Len(batch) \in Nat
      /\ TimerFd \in ToSet(batch)
  <2>1. 1 \in 1 .. Len(batch) /\ DOMAIN batch = 1 .. Len(batch) /\ Head(batch) = batch[1]
    BY <1>1, <1>2
  <2> QED
    BY <1>1, <1>2, <2>1 DEF ToSet
<1>4. ASSUME IsInjective(batch) PROVE IsInjective(batch') /\ TimerFd \notin ToSet(batch)'
  BY <1>1, <1>2, <1>4, TailElements
<1> DEFINE first == SubSeq(pending, 1, Due(pending, 0))
           rest == SubSeq(pending, Due(pending, 0) + 1, Len(pending))
<1>5. /\ first \in Seq(Event) /\ rest \in Seq(Event) /\ Order(rest)
      /\ ToSet(first) \cup ToSet(rest) \subseteq ToSet(pending)
      /\ \A e \in ToSet(first) : e.at <= 0
      /\ Len(first) + Len(rest) = Len(pending)
      /\ Unique(pending) => /\ Unique(first) /\ Unique(rest)
                            /\ \A d \in ToSet(first), e \in ToSet(rest) : ~Same(d, e)
  <2>1. pending \in Seq(Event) /\ Order(pending) /\ 0 \in Int
    BY <1>2
  <2> QED
    BY ONLY <2>1, DueFacts
<1>6. tasks' = first /\ pending' = rest
  BY <1>1
<1> HIDE DEF first, rest
<1>7. rest # <<>> => Armed(rest) \in Int
  BY <1>2, <1>5, ArmedFacts
<1>8. armed' = IF rest = <<>> THEN Never ELSE Armed(rest)
  BY <1>1, <1>6
<1>9. armed' \in Int /\ (rest = <<>> => armed' = Never)
  BY <1>7, <1>8 DEF Never
<1> QED
  BY <1>1, <1>3, <1>4, <1>5, <1>6, <1>9

\* The events that are due are taken, when nobody runs.
LEMMA OnTimerKeeps ==
    ASSUME RpcInv, crashed = "no", UNCHANGED faults, OnTimer
    PROVE  RpcInv'
<1>1. /\ TypeInv /\ BaseInv
      /\ Single => Alone /\ Places /\ Cors /\ Queued /\ PromptInv /\ SlowInv
  BY DEF RpcInv
<1>2. /\ running = NoCaller /\ tasks = <<>> /\ batch # <<>> /\ Head(batch) = TimerFd
      /\ batch' = Tail(batch) /\ batch' \in Seq(Fds \cup {TimerFd})
      /\ Len(batch') = Len(batch) - 1 /\ Len(batch) \in Nat
      /\ UNCHANGED <<addrs, sock, watch, cor, queue, running, call, crashed>>
  BY <1>1, OnTimerIs
<1>3. /\ TimerFd \in ToSet(batch)
      /\ IsInjective(batch) => IsInjective(batch') /\ TimerFd \notin ToSet(batch)'
  BY <1>1, OnTimerIs
<1>4. /\ pending' \in Seq(Event) /\ tasks' \in Seq(Event) /\ Order(pending)'
      /\ ToSet(tasks)' \cup ToSet(pending)' \subseteq ToSet(pending)
      /\ \A e \in ToSet(tasks)' : e.at <= 0
      /\ Len(tasks') + Len(pending') = Len(pending)
      /\ Unique(pending) => /\ Unique(tasks)' /\ Unique(pending)'
                            /\ \A d \in ToSet(tasks)', e \in ToSet(pending)' : ~Same(d, e)
      /\ armed' \in Int /\ (pending' = <<>> => armed' = Never)
  BY <1>1, OnTimerIs
<1>5. \A e \in ToSet(pending) : e \in Event /\ e.caller \in Callers /\ e.at \in Int
                                /\ e.kind \in {"call", "connect"}
  BY <1>1, EventParts
<1>6. TypeInv'
  <2>1. TypeOK'
    BY <1>1, <1>2, <1>4 DEF TypeInv, TypeOK, Order
  <2> QED
    BY <1>1, <1>2, <1>4, <2>1 DEF TypeInv
<1>7. BaseInv'
  BY <1>1, <1>2 DEF BaseInv
<1> SUFFICES ASSUME Single PROVE (Alone /\ Places /\ Cors /\ Queued /\ PromptInv /\ SlowInv)'
  BY <1>2, <1>6, <1>7 DEF RpcInv, Single
<1>8. Alone' /\ Cors'
  BY <1>1, <1>2 DEF Alone, Cors
<1>9. Places'
  BY <1>1, <1>2 DEF Places, Place, SocketPlace, Uses
<1>10. "batched" \notin faults => queue = <<>> /\ batch' = <<>>
  <2>1. ASSUME "batched" \notin faults PROVE queue = <<>> /\ Len(batch) <= 1
    BY <1>1, <1>2, <2>1 DEF Queued
  <2>2. ASSUME "batched" \notin faults PROVE batch' = <<>>
    <3>1. Len(batch') <= 0 /\ Len(batch') \in Nat
      BY <1>2, <2>1, <2>2
    <3> QED
      BY <1>2, <3>1
  <2> QED
    BY <2>1, <2>2
<1>11. Queued'
  <2>1. Len(<<>>) <= 1
    OBVIOUS
  <2> QED
    BY ONLY <1>2, <1>10, <2>1, crashed = "no", UNCHANGED faults DEF Queued
<1>12. \A c \in Callers : running # c /\ Frame(c)' = Frame(c)
  BY <1>2, RpcCallAssumption DEF Frame
<1>13. ASSUME Prompt PROVE Resumes' /\ EventsLive'
  <2>1. Resumes /\ EventsLive /\ queue = <<>>
    BY <1>1, <1>10, <1>13 DEF Prompt, PromptInv
  <2>2. Resumes'
    BY <1>2, <1>12, <2>1 DEF Resumes, Woken
  <2>3. ASSUME NEW c \in Callers PROVE PendingOf(c)'
    BY <1>2, <1>4, <1>12, <2>1, <2>3 DEF EventsLive, PendingOf
  <2>4. ASSUME NEW c \in Callers, NEW e \in ToSet(tasks)', e.caller = c
        PROVE  /\ e.kind = "call" /\ e.frame = Frame(c)'
               /\ call'[c].pc \in {"receiving", "sending", "abandoned"}
               /\ call'[c].left <= 0 /\ running' # c
               /\ \A d \in ToSet(pending)' : ~Same(d, e)
    <3>1. e \in ToSet(pending) /\ e.at <= 0 /\ PendingOf(c) /\ Woken(c) /\ Place(c)
      BY <1>1, <1>4, <2>1, <2>4 DEF EventsLive, Resumes, Places
    <3>2. /\ call[c].pc \notin {"idle", "select"} /\ e.frame = Frame(c)
          /\ e.kind = "connect" => e.at = ConnectTimeout
          /\ e.kind = "call" => e.at = call[c].left
      BY <2>4, <3>1 DEF PendingOf
    <3>3. e.kind = "call" /\ call[c].left <= 0
      BY <1>5, <3>1, <3>2, RpcCallAssumption
    <3>4. call[c].pc \notin {"connect", "connecting"}
      BY <3>1, <3>3, RpcCallAssumption DEF Woken
    <3>5. call[c].pc \in {"receiving", "sending", "abandoned"}
      <4>1. call[c].pc \in Pcs
        BY <1>1 DEF TypeInv, CallType
      <4> QED
        BY <1>12, <3>1, <3>2, <3>4, <4>1 DEF Pcs, Place
    <3>6. \A d \in ToSet(pending)' : ~Same(e, d)
      BY <1>4, <2>1, <2>4 DEF EventsLive
    <3>7. \A d \in ToSet(pending)' : ~Same(d, e)
      BY <3>6 DEF Same
    <3> QED
      BY <1>2, <1>12, <3>2, <3>3, <3>5, <3>7
  <2>5. \A c \in Callers : TasksOf(c)'
    BY <2>4 DEF TasksOf
  <2> QED
    BY <1>4, <2>1, <2>2, <2>3, <2>5 DEF EventsLive
<1>14. ASSUME ~Prompt PROVE (Older /\ SlowPending /\ SlowTasks /\ SlowOver)'
  <2>1. Older /\ SlowPending /\ SlowTasks /\ SlowOver /\ ~Dead
    BY <1>1, <1>3, <1>14 DEF SlowInv, Dead
  <2>2. \A e \in ToSet(pending) : Live(e) /\ Live(e)'
    BY <1>2, <1>5, <2>1 DEF SlowPending, Live, Frame
  <2>3. \A e \in ToSet(tasks)' \cup ToSet(pending)' : e \in ToSet(pending)
    BY <1>4
  <2>4. Older'
    BY <1>2, <1>12, <2>1, <2>3 DEF Older
  <2>5. SlowPending'
    BY <1>2, <1>3, <1>4, <2>1, <2>2, <2>3 DEF SlowPending
  <2>6. SlowOver'
    BY <1>2, <2>1, <2>2, <2>3 DEF SlowOver
  <2>7. \A e, d \in ToSet(pending) : e.caller = d.caller /\ e.frame = d.frame
    <3>1. \A e \in ToSet(pending) : call[e.caller].pc # "idle" /\ e.frame = Frame(e.caller)
      BY <2>2 DEF Live
    <3>2. \A c, d \in Callers : call[c].pc # "idle" /\ call[d].pc # "idle" => c = d
      BY <1>1, <1>14, FaultCases DEF Alone
    <3> QED
      BY <1>5, <3>1, <3>2
  <2>8. Len(tasks') <= 2
        /\ (Len(tasks') = 2 => /\ pending' = <<>>
                               /\ \E e \in ToSet(pending) : e.kind = "connect"
                               /\ \E e \in ToSet(pending) : e.kind = "call")
    <3>1. CASE pending = <<>>
      <4>1. Len(tasks') \in Nat /\ Len(pending') \in Nat /\ Len(pending) = 0
        BY <1>4, <3>1
      <4> QED
        BY <1>4, <4>1
    <3>2. CASE pending # <<>>
      <4>1. pending \in Seq(Event)
        BY <1>1 DEF TypeInv, TypeOK
      <4>2. PICK x \in ToSet(pending) : x = Head(pending)
        BY <3>2, <4>1, EventPlaces
      <4> DEFINE c == x.caller
                 frame == x.frame
      <4>6. \A e \in ToSet(pending) : e.caller = c /\ e.frame = frame
        BY <2>7
      <4> HIDE DEF c, frame
      <4>3. /\ Len(pending) <= 2
            /\ Len(pending) = 2 => /\ \E e \in ToSet(pending) : e.kind = "connect"
                                   /\ \E e \in ToSet(pending) : e.kind = "call"
        BY <2>1, <4>1, <4>6, TwoKinds DEF SlowPending
      <4>4. Len(tasks') \in Nat /\ Len(pending') \in Nat /\ Len(pending) \in Nat
        BY <1>4, <4>1
      <4>5. Len(tasks') <= 2 /\ (Len(tasks') = 2 => Len(pending) = 2 /\ Len(pending') = 0)
        <5>1. \A k, l, n \in Nat : k + l = n /\ n <= 2 => k <= 2 /\ (k = 2 => n = 2 /\ l = 0)
          OBVIOUS
        <5>2. Len(tasks') + Len(pending') = Len(pending) /\ Len(pending) <= 2
          BY <1>4, <4>3
        <5> QED
          BY ONLY <4>4, <5>1, <5>2
      <4> QED
        BY <1>4, <4>3, <4>5
    <3> QED
      BY <3>1, <3>2
  <2>9. ASSUME NEW e \in ToSet(tasks)', NEW c \in Callers, e.caller = c
        PROVE  /\ e.kind = "connect" => call'[c].pc # "abandoned"
               /\ e.kind = "call" /\ call'[c].pc # "idle" => call'[c].left <= 0
               /\ e.kind = "call" /\ call'[c].pc = "abandoned" => e.frame = Frame(c)'
               /\ e.kind = "call" => Goes(e, c)'
               /\ Len(tasks') = 2 => Live(e)' /\ call'[c].pc = "connecting" /\ ~call'[c].overTime
    <3>1. /\ e \in ToSet(pending) /\ Live(e) /\ Live(e)' /\ e.at <= 0
          /\ call[c].pc \notin {"idle", "select"} /\ e.frame = Frame(c)
      BY <1>4, <2>2, <2>3, <2>9 DEF Live
    <3>2. /\ e.kind = "connect" => call[c].pc = "connecting"
          /\ e.kind = "call" => call[c].left <= 0
      BY <2>1, <2>9, <3>1 DEF SlowPending
    <3>3. ASSUME e.kind = "call" PROVE Goes(e, c)'
      <4>1. ASSUME NEW d \in ToSet(pending)', d.kind = "call", d.caller = c PROVE FALSE
        <5>1. d \in ToSet(pending) /\ e.caller = d.caller /\ e.frame = d.frame
          BY <2>3, <2>7, <3>1, <4>1
        <5>2. Same(e, d) /\ ~Same(e, d)
          BY <1>4, <2>1, <2>9, <3>3, <4>1, <5>1 DEF Same, SlowPending
        <5> QED
          BY <5>2
      <4> QED
        BY <1>2, <1>12, <3>1, <4>1 DEF Goes
    <3>4. ASSUME Len(tasks') = 2 PROVE call[c].pc = "connecting" /\ ~call[c].overTime
      <4>1. PICK x, y \in ToSet(pending) : x.kind = "connect" /\ y.kind = "call"
        BY <2>8, <3>4
      <4>2. x.caller = c /\ y.caller = c /\ Live(y)
        BY <2>2, <2>7, <2>9, <3>1
      <4>3. call[c].pc = "connecting"
        BY <2>1, <4>1, <4>2 DEF SlowPending
      <4> QED
        BY <2>1, <4>1, <4>2, <4>3 DEF SlowOver
    <3> QED
      BY <1>2, <1>12, <3>1, <3>2, <3>3, <3>4
  <2>10. Len(tasks') = 2 => running' = NoCaller /\ pending' = <<>> /\ Dead'
    <3>1. TimerFd \notin ToSet(batch)'
      BY <1>3, <2>1 DEF SlowPending
    <3> QED
      BY <1>2, <1>4, <2>8, <3>1 DEF Dead
  <2>11. SlowTasks'
    <3>1. Unique(tasks)' /\ \A e, d \in ToSet(tasks)' : e.caller = d.caller
      BY <1>4, <2>1, <2>3, <2>7 DEF SlowPending
    <3>2. \A c \in Callers : running' # c
      BY <1>2, <1>12
    <3> QED
      BY <2>8, <2>9, <2>10, <3>1, <3>2 DEF SlowTasks
  <2> QED
    BY <2>4, <2>5, <2>6, <2>11
<1> QED
  BY <1>8, <1>9, <1>11, <1>13, <1>14 DEF PromptInv, SlowInv, Prompt

\* The call-back of e sets the flags of c when it hits its attempt.
RunsTask(e, c, hit) ==
    /\ e = Head(tasks) /\ c = e.caller
    /\ running = NoCaller /\ tasks # <<>> /\ tasks' = Tail(tasks)
    /\ running' = IF call[c].pc = "idle" THEN NoCaller ELSE c
    /\ e.kind = "connect" => ~hit
    /\ e.kind # "connect" /\ e.frame = Frame(c) /\ call[c].pc # "idle" => hit
    /\ call' \in [Callers -> CallType] /\ \A d \in Callers \ {c} : call'[d] = call[d]
    /\ \A d \in Callers :
          /\ call'[d].pc = call[d].pc /\ call'[d].calls = call[d].calls
          /\ call'[d].retry = call[d].retry /\ call'[d].fd = call[d].fd
          /\ call'[d].connFd = call[d].connFd /\ call'[d].left = call[d].left
          /\ call'[d].connectAt = call[d].connectAt /\ call'[d].result = call[d].result
          /\ Frame(d)' = Frame(d)
    /\ call'[c].overTime = (call[c].overTime \/ hit)
    /\ UNCHANGED <<addrs, sock, watch, cor, pending, armed, batch, queue, crashed>>

\* What a call-back does to the caller of its event.
LEMMA RunTaskIs ==
    ASSUME TypeInv, RunTask
    PROVE  \E e \in Event, c \in Callers, hit \in BOOLEAN : RunsTask(e, c, hit)
<1>0. PICK e, c : e = Head(tasks) /\ c = e.caller
  OBVIOUS
<1>1. /\ running = NoCaller /\ tasks # <<>> /\ tasks' = Tail(tasks)
      /\ running' = IF call[c].pc = "idle" THEN NoCaller ELSE c
      /\ UNCHANGED <<addrs, sock, watch, cor, pending, armed, batch, queue, crashed>>
  BY <1>0 DEF RunTask, Resume, socketVars, timerVars
<1>2. PICK hit \in BOOLEAN :
        /\ e.kind = "connect" => ~hit
        /\ e.kind # "connect" /\ e.frame = Frame(c) /\ call[c].pc # "idle" => hit
        /\ call' = [call EXCEPT ![c].isTimeout = @ \/ hit, ![c].overTime = @ \/ hit]
  <2>1. \E hit \in IF e.kind = "connect" THEN {FALSE}
                   ELSE IF e.frame = Frame(c) /\ call[c].pc # "idle" THEN {TRUE}
                   ELSE BOOLEAN :
            call' = [call EXCEPT ![c].isTimeout = @ \/ hit, ![c].overTime = @ \/ hit]
    BY <1>0 DEF RunTask
  <2> QED
    BY <2>1
<1>3. e \in Event /\ c \in Callers
  <2>1. tasks \in Seq(Event)
    BY DEF TypeInv, TypeOK
  <2>2. e \in Event
    BY <1>0, <1>1, <2>1, EventPlaces
  <2> QED
    BY <1>0, <2>2 DEF Event
<1>4. call \in [Callers -> CallType]
  BY DEF TypeInv
<1> DEFINE r == [call[c] EXCEPT !.isTimeout = @ \/ hit, !.overTime = @ \/ hit]
<1>5. /\ r \in CallType /\ r.pc = call[c].pc /\ r.calls = call[c].calls /\ r.retry = call[c].retry
      /\ r.fd = call[c].fd /\ r.connFd = call[c].connFd /\ r.left = call[c].left
      /\ r.connectAt = call[c].connectAt /\ r.result = call[c].result
      /\ r.overTime = (call[c].overTime \/ hit)
  BY <1>3, <1>4 DEF CallType
<1>6. call' = [call EXCEPT ![c] = r]
  BY <1>2, <1>3, <1>4 DEF CallType
<1> HIDE DEF r
<1>7. /\ call' \in [Callers -> CallType] /\ \A d \in Callers \ {c} : call'[d] = call[d]
      /\ call'[c] = r
  BY <1>3, <1>4, <1>5, <1>6
<1>8. \A d \in Callers :
         /\ call'[d].pc = call[d].pc /\ call'[d].calls = call[d].calls
         /\ call'[d].retry = call[d].retry /\ call'[d].fd = call[d].fd
         /\ call'[d].connFd = call[d].connFd /\ call'[d].left = call[d].left
         /\ call'[d].connectAt = call[d].connectAt /\ call'[d].result = call[d].result
  BY <1>5, <1>7
<1>9. \A d \in Callers : Frame(d)' = Frame(d)
  BY <1>8 DEF Frame
<1>10. call'[c].overTime = (call[c].overTime \/ hit)
  BY <1>5, <1>7
<1>11. RunsTask(e, c, hit)
  BY ONLY <1>0, <1>1, <1>2, <1>3, <1>7, <1>8, <1>9, <1>10 DEF RunsTask
<1> QED
  BY <1>2, <1>3, <1>11

\* A call-back sets the flags of its caller and resumes it.
LEMMA RunTaskKeeps ==
    ASSUME RpcInv, crashed = "no", UNCHANGED faults, RunTask
    PROVE  RpcInv'
<1>1. /\ TypeInv /\ BaseInv
      /\ Single => Alone /\ Places /\ Cors /\ Queued /\ PromptInv /\ SlowInv
  BY DEF RpcInv
<1>0. PICK e \in Event, c \in Callers, hit \in BOOLEAN : RunsTask(e, c, hit)
  BY <1>1, RunTaskIs
<1>2. /\ e = Head(tasks) /\ c = e.caller
      /\ running = NoCaller /\ tasks # <<>> /\ tasks' = Tail(tasks)
      /\ running' = IF call[c].pc = "idle" THEN NoCaller ELSE c
      /\ e.kind = "connect" => ~hit
      /\ e.kind # "connect" /\ e.frame = Frame(c) /\ call[c].pc # "idle" => hit
      /\ call' \in [Callers -> CallType] /\ \A d \in Callers \ {c} : call'[d] = call[d]
      /\ \A d \in Callers :
            /\ call'[d].pc = call[d].pc /\ call'[d].calls = call[d].calls
            /\ call'[d].retry = call[d].retry /\ call'[d].fd = call[d].fd
            /\ call'[d].connFd = call[d].connFd /\ call'[d].left = call[d].left
            /\ call'[d].connectAt = call[d].connectAt /\ call'[d].result = call[d].result
            /\ Frame(d)' = Frame(d)
      /\ call'[c].overTime = (call[c].overTime \/ hit)
      /\ UNCHANGED <<addrs, sock, watch, cor, pending, armed, batch, queue, crashed>>
  BY <1>0 DEF RunsTask
<1>3. /\ tasks \in Seq(Event) /\ tasks' \in Seq(Event) /\ Len(tasks') = Len(tasks) - 1
      /\ Len(tasks) \in Nat /\ ToSet(tasks)' \subseteq ToSet(tasks) /\ e \in ToSet(tasks)
      /\ Unique(tasks) => Unique(tasks)' /\ \A d \in ToSet(tasks)' : ~Same(d, e)
  <2>1. tasks \in Seq(Event) /\ tasks # <<>>
    BY <1>1, <1>2 DEF TypeInv, TypeOK
  <2>2. /\ Tail(tasks) \in Seq(Event) /\ Len(Tail(tasks)) = Len(tasks) - 1
        /\ ToSet(Tail(tasks)) \subseteq ToSet(tasks) /\ Head(tasks) \in ToSet(tasks)
        /\ Unique(tasks) => /\ Unique(Tail(tasks))
                            /\ \A d \in ToSet(Tail(tasks)) : ~Same(d, Head(tasks))
    BY <2>1, TailFacts
  <2> QED
    BY <1>2, <2>1, <2>2
<1>4. \A d \in ToSet(pending) \cup ToSet(tasks) :
        d \in Event /\ d.caller \in Callers /\ d.kind \in {"call", "connect"}
  BY <1>1, EventParts
<1>5. \A d \in Callers : running # d /\ call[d].pc # "connect" /\ (running' = d => d = c)
  BY <1>1, <1>2, RpcCallAssumption DEF BaseInv
<1>6. TypeInv'
  <2>1. running' \in Callers \cup {NoCaller}
    BY <1>2
  <2>2. TypeOK'
    BY <1>1, <1>2, <1>3, <2>1 DEF TypeInv, TypeOK
  <2> QED
    BY <1>1, <1>2, <2>2 DEF TypeInv
<1>7. BaseInv'
  <2>1. ASSUME NEW f \in Fds, sock'[f].state # "none"
        PROVE  sock'[f].owner \in Callers /\ call'[sock'[f].owner].fd = f
    BY <1>1, <1>2, <2>1 DEF BaseInv
  <2>2. ASSUME NEW d \in Callers
        PROVE  /\ call'[d].pc \in {"idle", "select"} <=> call'[d].fd = NoFd
               /\ call'[d].pc \notin {"idle", "select"} => call'[d].connFd \in Fds
               /\ call'[d].pc # "connect"
               /\ call'[d].pc # "idle" => call'[d].result = "none" /\ call'[d].left >= Floor
               /\ call'[d].pc = "connecting" => call'[d].connectAt >= Floor
    BY <1>1, <1>2, <1>5, <2>2 DEF BaseInv
  <2> QED
    BY <2>1, <2>2 DEF BaseInv
<1> SUFFICES ASSUME Single PROVE (Alone /\ Places /\ Cors /\ Queued /\ PromptInv /\ SlowInv)'
  BY <1>6, <1>7 DEF RpcInv, Single
<1>8. Alone'
  BY <1>1, <1>2 DEF Alone
<1>9. Places'
  <2>1. ASSUME NEW f \in Fds PROVE SocketPlace(f)'
    BY <1>1, <1>2, <2>1 DEF Places, SocketPlace
  <2>2. ASSUME NEW d \in Callers PROVE Place(d)'
    <3>1. Place(d)
      BY <1>1 DEF Places
    <3>2. call[d].pc \notin {"select", "connect", "send", "recv", "crashed"}
      BY <1>5, <3>1 DEF Place
    <3>3. running' = d => call'[d].pc # "idle"
      BY <1>2, <1>5, RpcCallAssumption
    <3> QED
      BY <1>2, <3>1, <3>2, <3>3 DEF Place, Uses
  <2> QED
    BY <2>1, <2>2 DEF Places
<1>10. Cors'
  BY <1>1, <1>2 DEF Cors
<1>11. Queued'
  <2>1. "batched" \notin faults => queue = <<>> /\ batch = <<>>
    BY <1>1, <1>2 DEF Queued
  <2>2. Len(<<>>) <= 1
    OBVIOUS
  <2> QED
    BY ONLY <1>2, <2>1, <2>2, crashed = "no", UNCHANGED faults DEF Queued
<1>12. ASSUME Prompt PROVE Resumes' /\ EventsLive'
  <2>1. Resumes /\ EventsLive
    BY <1>1, <1>12 DEF PromptInv
  <2>2. /\ e.kind = "call" /\ e.frame = Frame(c) /\ call[c].left <= 0
        /\ call[c].pc \in {"receiving", "sending", "abandoned"}
        /\ \A d \in ToSet(pending) : ~Same(d, e)
    BY <1>2, <1>3, <2>1 DEF EventsLive, TasksOf
  <2>3. hit /\ running' = c /\ call'[c].overTime
    BY <1>2, <2>2
  <2>4. ASSUME NEW d \in ToSet(pending) \cup ToSet(tasks)', d.caller = c PROVE FALSE
    <3>1. d \in ToSet(pending) => PendingOf(c) /\ d.kind \in {"call", "connect"}
      BY <1>4, <2>1 DEF EventsLive
    <3>2. d \in ToSet(tasks)' => TasksOf(c) /\ d \in ToSet(tasks) /\ ~Same(d, e)
      BY <1>3, <2>1, <2>4 DEF EventsLive
    <3>3. CASE d \in ToSet(pending)
      <4>1. d.kind = "call" /\ d.frame = Frame(c)
        BY <2>2, <2>4, <3>1, <3>3 DEF PendingOf
      <4> QED
        BY <1>2, <2>2, <2>4, <3>3, <4>1 DEF Same
    <3>4. CASE d \in ToSet(tasks)'
      <4>1. d.kind = "call" /\ d.frame = Frame(c)
        BY <2>4, <3>2, <3>4 DEF TasksOf
      <4> QED
        BY <1>2, <2>2, <2>4, <3>2, <3>4, <4>1 DEF Same
    <3> QED
      BY <3>3, <3>4
  <2>5. ASSUME NEW d \in Callers PROVE Woken(d)'
    <3>1. Woken(d)
      BY <2>1 DEF Resumes
    <3>2. CASE d = c
      BY <1>2, <2>2, <2>3, <2>4, <3>2 DEF Woken
    <3>3. CASE d # c
      <4>1. call'[d] = call[d] /\ running' # d /\ running # d
        BY <1>2, <1>5, <3>3
      <4>2. ~(call[d].overTime /\ call[d].pc \notin {"idle", "select", "crashed"})
        BY <3>1, <4>1 DEF Woken
      <4> QED
        BY <1>2, <3>1, <4>1, <4>2 DEF Woken
    <3> QED
      BY <3>2, <3>3
  <2>6. ASSUME NEW d \in Callers PROVE PendingOf(d)'
    BY <1>2, <2>1 DEF EventsLive, PendingOf
  <2>7. ASSUME NEW d \in Callers PROVE TasksOf(d)'
    <3> SUFFICES ASSUME NEW x \in ToSet(tasks)', x.caller = d
                 PROVE  /\ x.kind = "call" /\ x.frame = Frame(d)'
                        /\ call'[d].pc \in {"receiving", "sending", "abandoned"}
                        /\ call'[d].left <= 0 /\ running' # d
                        /\ \A y \in ToSet(pending)' : ~Same(y, x)
      BY DEF TasksOf
    <3>1. d # c /\ running' # d /\ x \in ToSet(tasks) /\ TasksOf(d)
      BY <1>3, <1>5, <2>1, <2>4 DEF EventsLive
    <3> QED
      BY <1>2, <3>1 DEF TasksOf
  <2>8. Unique(pending)' /\ Unique(tasks)'
    BY <1>2, <1>3, <2>1 DEF EventsLive, Unique
  <2> QED
    BY <2>5, <2>6, <2>7, <2>8 DEF Resumes, EventsLive
<1>13. ASSUME ~Prompt PROVE (Older /\ SlowPending /\ SlowTasks /\ SlowOver)'
  <2>1. Older /\ SlowPending /\ SlowTasks /\ SlowOver
    BY <1>1, <1>13 DEF SlowInv
  <2>2. \A d \in ToSet(pending) \cup ToSet(tasks) : Live(d)' <=> Live(d)
    BY <1>2, <1>4 DEF Live
  <2>3. Older'
    BY <1>2, <1>3, <2>1 DEF Older
  <2>4. SlowPending'
    BY <1>2, <2>1, <2>2 DEF SlowPending, Unique
  <2>5. Dead => Dead'
    BY <1>2 DEF Dead
  <2>6. /\ e.kind = "connect" => call[c].pc # "abandoned"
        /\ e.kind = "call" /\ call[c].pc # "idle" => call[c].left <= 0
        /\ e.kind = "call" /\ call[c].pc = "abandoned" => e.frame = Frame(c)
        /\ e.kind = "call" => Goes(e, c)
    BY <1>2, <1>3, <2>1 DEF SlowTasks
  <2>7. Len(tasks) = 2 \/ tasks' = <<>>
    <3>1. Len(tasks) <= 2 /\ Len(tasks') \in Nat
      BY <1>3, <2>1 DEF SlowTasks
    <3>2. Len(tasks) = 2 \/ Len(tasks') = 0
      BY ONLY <1>3, <3>1
    <3> QED
      BY <1>3, <3>2
  <2>8. /\ Unique(tasks)' /\ Len(tasks') <= 1
        /\ \A x, y \in ToSet(tasks)' : x.caller = y.caller
    <3>1. /\ Unique(tasks) /\ Len(tasks) <= 2 /\ Len(tasks') \in Nat
          /\ \A x, y \in ToSet(tasks) : x.caller = y.caller
      BY <1>3, <2>1 DEF SlowTasks
    <3>2. Len(tasks') <= 1
      BY ONLY <1>3, <3>1
    <3> QED
      BY <1>3, <3>1, <3>2
  <2>9. ASSUME NEW d \in ToSet(tasks)'
        PROVE  /\ Len(tasks) = 2 /\ d.caller = c /\ d \in ToSet(tasks) /\ d.frame = Frame(c)
               /\ call[c].pc = "connecting" /\ pending = <<>> /\ Dead
    <3>1. tasks' # <<>> /\ d \in ToSet(tasks) /\ d.caller = c
      BY <1>2, <1>3, <2>1, <2>9, EmptyElements, ZenonT(90) DEF SlowTasks
    <3>2. Len(tasks) = 2
      BY <2>7, <3>1
    <3>3. Live(d) /\ call[c].pc = "connecting" /\ pending = <<>> /\ Dead
      BY <2>1, <3>1, <3>2 DEF SlowTasks
    <3> QED
      BY <3>1, <3>2, <3>3 DEF Live
  <2>10. SlowTasks'
    <3>1. ASSUME NEW d \in ToSet(tasks)', NEW x \in Callers, d.caller = x
          PROVE  /\ d.kind = "connect" => call'[x].pc # "abandoned"
                 /\ d.kind = "call" /\ call'[x].pc # "idle" => call'[x].left <= 0
                 /\ d.kind = "call" /\ call'[x].pc = "abandoned" => d.frame = Frame(x)'
                 /\ d.kind = "call" => Goes(d, x)'
      <4>1. /\ x = c /\ d \in ToSet(tasks) /\ d.frame = Frame(c)'
            /\ call'[c].pc = "connecting" /\ pending' = <<>> /\ Dead'
        BY <1>2, <2>5, <2>9, <3>1
      <4>2. d.kind = "call" => call'[c].left <= 0
        BY <1>2, <2>1, <3>1, <4>1 DEF SlowTasks
      <4>3. Goes(d, c)'
        BY <4>1, EmptyElements DEF Goes
      <4> QED
        BY <4>1, <4>2, <4>3
    <3>2. ASSUME NEW x \in Callers, running' = x
          PROVE  /\ tasks' # <<>> =>
                      call'[x].pc \in {"connecting", "select", "connect", "send", "recv", "crashed"}
                 /\ call'[x].pc = "abandoned" => call'[x].overTime
      <4>1. x = c
        BY <1>5, <3>2
      <4>2. ASSUME tasks' # <<>> PROVE call'[c].pc = "connecting"
        <5>1. Head(tasks') \in ToSet(tasks)'
          BY <1>3, <4>2, EventPlaces
        <5> QED
          BY <1>2, <2>9, <5>1
      <4>3. ASSUME call'[c].pc = "abandoned" PROVE call'[c].overTime
        BY <1>2, <2>6, <4>3 DEF Event
      <4> QED
        BY <4>1, <4>2, <4>3
    <3>3. Len(tasks') <= 2 /\ Len(tasks') # 2
      <4>1. Len(tasks') \in Nat
        BY <1>3
      <4> QED
        BY <2>8, <4>1
    <3> QED
      BY <2>8, <3>1, <3>2, <3>3 DEF SlowTasks
  <2>11. SlowOver'
    <3> SUFFICES ASSUME NEW x \in Callers, call'[x].overTime, call'[x].pc \notin {"idle", "select"}
                 PROVE  /\ call'[x].left <= 0
                        /\ (\E d \in ToSet(pending)' : d.kind = "call" /\ d.caller = x /\ Live(d)') =>
                              Dead' /\ tasks' = <<>> /\ LiveFirst(x)'
      BY DEF SlowOver
    <3>1. CASE call[x].overTime
      <4>1. /\ call[x].left <= 0
            /\ ~\E d \in ToSet(pending) : d.kind = "call" /\ d.caller = x /\ Live(d)
        BY <1>2, <2>1, <3>1 DEF SlowOver
      <4> QED
        BY <1>2, <2>2, <4>1
    <3>2. CASE ~call[x].overTime
      <4>1. x = c /\ hit /\ e.kind = "call" /\ call[c].pc \notin {"idle", "select"}
        BY <1>2, <1>3, <1>4, <3>2
      <4>2. call[c].left <= 0 /\ Goes(e, c)
        BY <2>6, <4>1
      <4>3. call[c].pc # "crashed"
        BY <1>1 DEF Places, Place
      <4>4. ASSUME NEW d \in ToSet(pending), d.kind = "call", d.caller = c
            PROVE  Dead /\ LiveFirst(c) /\ tasks' = <<>>
        <5>1. Dead /\ LiveFirst(c)
          BY <4>1, <4>2, <4>3, <4>4 DEF Goes
        <5>2. Len(tasks) # 2
          BY <2>1, <4>4, EmptyElements DEF SlowTasks
        <5> QED
          BY <2>7, <5>1, <5>2
      <4>5. LiveFirst(c) => LiveFirst(c)'
        <5>1. \A h \in Event : h.caller = c => (Live(h)' <=> Live(h))
          BY <1>2 DEF Live
        <5> QED
          BY <1>2, <5>1 DEF LiveFirst
      <4> QED
        BY <1>2, <2>5, <4>1, <4>2, <4>4, <4>5
    <3> QED
      BY <3>1, <3>2
  <2> QED
    BY <2>3, <2>4, <2>10, <2>11
<1> QED
  BY <1>8, <1>9, <1>10, <1>11, <1>12, <1>13 DEF PromptInv, SlowInv, Prompt

----------------------------------------------------------------------------
(* The theorems.                                                           *)

\* Every step keeps the invariant.
LEMMA NextKeeps ==
    ASSUME RpcInv, [Next]_vars
    PROVE  RpcInv'
<1>1. CASE UNCHANGED vars
  BY <1>1, StutterKeeps
<1>2. CASE Next
  <2>1. crashed = "no" /\ UNCHANGED faults
    BY <1>2 DEF Next
  <2>2. ASSUME NEW c \in Callers, Begin(c) \/ Step(c) PROVE RpcInv'
    BY <2>1, <2>2, BeginKeeps, StepKeeps
  <2>3. ASSUME Loop PROVE RpcInv'
    BY <2>1, <2>3, PopQueueKeeps, EpollWaitKeeps, HandleSocketKeeps, OnTimerKeeps, RunTaskKeeps DEF Loop
  <2>4. ASSUME Established \/ PeerReply \/ PeerClose \/ Tick PROVE RpcInv'
    BY <2>1, <2>4, EstablishedKeeps, PeerReplyKeeps, PeerCloseKeeps, TickKeeps
  <2> QED
    BY <1>2, <2>2, <2>3, <2>4 DEF Next, Thread
<1> QED
  BY <1>1, <1>2

\* The invariant holds throughout.
LEMMA RpcInvHolds == Spec => []RpcInv
<1>1. Init => RpcInv
  BY InitInv
<1>2. RpcInv /\ [Next]_vars => RpcInv'
  BY NextKeeps
<1> QED
  BY <1>1, <1>2, PTL DEF Spec

\* A state that satisfies the invariant is sound.
LEMMA RpcInvSound == RpcInv => Sound
<1> SUFFICES ASSUME RpcInv PROVE Sound
  OBVIOUS
<1>1. /\ TypeInv /\ BaseInv
      /\ Single => Alone /\ Places /\ Cors /\ Queued /\ PromptInv /\ SlowInv
  BY DEF RpcInv
<1>2. TypeOK
  BY <1>1 DEF TypeInv
<1>3. ASSUME Single, faults \cap {"batched", "connectSlow"} = {},
             NEW e \in ToSet(pending) \cup ToSet(tasks)
      PROVE  InCall(e.caller) /\ e.frame = Frame(e.caller)
  <2>1. Prompt /\ EventsLive
    BY <1>1, <1>3 DEF Prompt, PromptInv
  <2>2. PICK c \in Callers : e.caller = c
    BY <1>1, EventParts
  <2>3. PendingOf(c) /\ TasksOf(c)
    BY <2>1 DEF EventsLive
  <2> QED
    BY <1>3, <2>2, <2>3 DEF PendingOf, TasksOf, InCall
<1>4. CallbackInFrame
  BY <1>3 DEF CallbackInFrame, Single
<1>5. NullCoroutine
  BY <1>1 DEF NullCoroutine, Single, Queued
<1>6. OwnSocket
  BY <1>1 DEF OwnSocket, Single, Places, Place, Uses
<1> QED
  BY <1>2, <1>4, <1>5, <1>6 DEF Sound

\* Under any one fault (calls overlap, connections are slow, peers close, events
\* are batched) a caller of RpcChannel::CallMethod works on a socket it made,
\* with its client and its connection agreed on the number; unless events are
\* batched no coroutine of the queue is missing; unless they are or connections are
\* slow every time-out that is pending or about to run belongs to an attempt that
\* is still going on, so that its references into that frame are good.
THEOREM SoundHolds == Spec => []Sound
BY RpcInvHolds, RpcInvSound, PTL

\* The caller that runs has been told that its time is over.
ToldOver(c) ==
    running = c /\ call[c].overTime /\ call[c].pc \in {"receiving", "sending", "abandoned"}

\* Where a result may change to a time-out.
EndsOver(c) == call'[c].result \in {call[c].result, "none", "ok"} \/ ToldOver(c)

\* A reading of replies ends no call as timed out.
LEMMA TakenEnds ==
    ASSUME TypeInv, BaseInv, NEW d \in Callers, call[d].pc \notin {"idle", "select"}, Taken(d),
           NEW c \in Callers
    PROVE  EndsOver(c)
<1> DEFINE f == call[d].connFd
<1>1. CASE d \in sock[f].answered
  <2>1. Return(d, "ok")
    BY <1>1 DEF Taken
  <2> QED
    BY <2>1, ReturnIs DEF EndsOver
<1>2. CASE d \notin sock[f].answered
  <2>1. call' = [call EXCEPT ![d].pc = "recv"] /\ call \in [Callers -> CallType]
    BY <1>2 DEF Taken, TypeInv
  <2> QED
    BY <2>1 DEF EndsOver, CallType
<1> QED
  BY <1>1, <1>2

\* A step of a caller ends a call as timed out only when the caller has been told.
LEMMA StepEnds ==
    ASSUME TypeInv, BaseInv, NEW d \in Callers, Step(d), NEW c \in Callers
    PROVE  EndsOver(c)
<1>1. call \in [Callers -> CallType]
  BY DEF TypeInv
<1>2. CASE Select(d)
  <2>1. PICK a, f : call' = [call EXCEPT ![d] = [@ EXCEPT !.pc = "connect", !.addr = a, !.fd = f,
                                 !.connFd = f, !.isTimeout = FALSE, !.overTime = FALSE]]
    BY <1>2 DEF Select
  <2> QED
    BY <1>1, <2>1 DEF EndsOver, CallType
<1>3. CASE Connect(d)
  <2>1. CASE Retry(d)
    <3>1. call[d].pc \notin {"idle", "select"}
      BY <1>3 DEF Connect
    <3> QED
      BY <2>1, <3>1, RetryIs DEF EndsOver
  <2>2. CASE call' = [call EXCEPT ![d].pc = "send"]
    BY <1>1, <2>2 DEF EndsOver, CallType
  <2>3. CASE call' = [call EXCEPT ![d].pc = "connecting", ![d].connectAt = ConnectTimeout]
    BY <1>1, <2>3 DEF EndsOver, CallType
  <2> QED
    BY <1>3, <2>1, <2>2, <2>3 DEF Connect
<1>4. CASE Connecting(d)
  <2>1. CASE Retry(d)
    <3>1. call[d].pc \notin {"idle", "select"}
      BY <1>4 DEF Connecting
    <3> QED
      BY <2>1, <3>1, RetryIs DEF EndsOver
  <2>2. CASE call' = [call EXCEPT ![d].pc = "send", ![d].connectAt = Never]
    BY <1>1, <2>2 DEF EndsOver, CallType
  <2>3. CASE ResetFd(d, "connect")
    <3>1. PICK g : call' = [call EXCEPT ![d].fd = g, ![d].pc = "connect", ![d].connectAt = Never]
      BY <2>3 DEF ResetFd
    <3> QED
      BY <1>1, <3>1 DEF EndsOver, CallType
  <2> QED
    BY <1>4, <2>1, <2>2, <2>3 DEF Connecting
<1>5. CASE Send(d)
  <2>1. \E x \in {"recv", "sending"} : call' = [call EXCEPT ![d].pc = x]
    BY <1>5 DEF Send
  <2> QED
    BY <1>1, <2>1 DEF EndsOver, CallType
<1>6. CASE Recv(d)
  <2>1. Taken(d) \/ call' = [call EXCEPT ![d].pc = "receiving"]
    BY <1>6 DEF Recv
  <2>2. call[d].pc \notin {"idle", "select"}
    BY <1>6 DEF Recv
  <2>3. CASE Taken(d)
    BY <2>2, <2>3, TakenEnds
  <2>4. CASE call' = [call EXCEPT ![d].pc = "receiving"]
    BY <1>1, <2>4 DEF EndsOver, CallType
  <2> QED
    BY <2>1, <2>3, <2>4
<1>7. CASE Receiving(d)
  <2>1. running = d /\ call[d].pc = "receiving"
    BY <1>7 DEF Receiving
  <2>2. CASE call[d].overTime /\ Return(d, "timeout")
    BY <2>1, <2>2, ReturnIs DEF EndsOver, ToldOver
  <2>3. CASE Taken(d)
    BY <2>1, <2>3, TakenEnds
  <2>4. CASE call' = [call EXCEPT ![d].pc = "abandoned"]
    BY <1>1, <2>4 DEF EndsOver, CallType
  <2> QED
    BY <1>7, <2>2, <2>3, <2>4 DEF Receiving
<1>8. CASE Resumed(d)
  <2>1. running = d /\ call[d].pc \in {"sending", "abandoned"}
    BY <1>8 DEF Resumed
  <2>2. CASE call[d].overTime /\ Return(d, "timeout")
    BY <2>1, <2>2, ReturnIs DEF EndsOver, ToldOver
  <2>3. CASE Retry(d)
    BY <2>1, <2>3, RetryIs DEF EndsOver
  <2>4. CASE call' = [call EXCEPT ![d].pc = "send"]
    BY <1>1, <2>4 DEF EndsOver, CallType
  <2> QED
    BY <1>8, <2>2, <2>3, <2>4 DEF Resumed
<1> QED
  BY <1>2, <1>3, <1>4, <1>5, <1>6, <1>7, <1>8 DEF Step

\* And no other step does.
LEMMA NextEnds ==
    ASSUME TypeInv, BaseInv, [Next]_vars, NEW c \in Callers
    PROVE  EndsOver(c)
<1>1. call \in [Callers -> CallType]
  BY DEF TypeInv
<1>2. CASE UNCHANGED call
  BY <1>2 DEF EndsOver
<1>3. ASSUME NEW d \in Callers, Begin(d) PROVE EndsOver(c)
  <2>1. call' = [call EXCEPT ![d].pc = "select", ![d].calls = @ + 1, ![d].retry = 0,
                             ![d].left = Timeout, ![d].result = "none"]
    BY <1>3 DEF Begin
  <2> QED
    BY <1>1, <2>1 DEF EndsOver, CallType
<1>4. ASSUME NEW d \in Callers, Step(d) PROVE EndsOver(c)
  BY <1>4, StepEnds
<1>5. CASE RunTask
  <2>1. PICK e \in Event, d \in Callers, hit \in BOOLEAN : RunsTask(e, d, hit)
    BY <1>5, RunTaskIs
  <2> QED
    BY <2>1 DEF RunsTask, EndsOver
<1>6. CASE Tick
  BY <1>6, TickIs DEF EndsOver
<1>7. CASE PopQueue \/ EpollWait \/ HandleSocket \/ OnTimer \/ Established \/ PeerReply \/ PeerClose
  BY <1>2, <1>7 DEF PopQueue, EpollWait, HandleSocket, OnTimer, Established, PeerReply, PeerClose
<1>8. CASE UNCHANGED vars
  BY <1>2, <1>8 DEF vars
<1> QED
  BY <1>3, <1>4, <1>5, <1>6, <1>7, <1>8 DEF Next, Thread, Loop

\* Under any one fault a call of RpcChannel::CallMethod ends as timed out only
\* when its own time is up, whatever time-outs of its earlier attempts, of other
\* calls and of connect_hook have run.
THEOREM TimeoutNotEarlyHolds == Spec => TimeoutNotEarly
<1>1. ASSUME RpcInv, [Next]_vars, NEW c \in Callers, Cardinality(faults) = 1, InCall(c),
             call'[c].result = "timeout"
      PROVE  call[c].left <= 0
  <2>1. /\ TypeInv /\ BaseInv
        /\ Single => Alone /\ Places /\ Cors /\ Queued /\ PromptInv /\ SlowInv
    BY <1>1 DEF RpcInv
  <2>2. call[c].result = "none"
    BY <1>1, <2>1 DEF BaseInv, InCall
  <2>3. ToldOver(c)
    BY <1>1, <2>1, <2>2, NextEnds DEF EndsOver
  <2>4. CASE Prompt
    BY <1>1, <2>1, <2>3, <2>4 DEF Single, PromptInv, Resumes, Woken, ToldOver
  <2>5. CASE ~Prompt
    BY <1>1, <2>1, <2>3, <2>5 DEF Single, SlowInv, SlowOver, ToldOver
  <2> QED
    BY <2>4, <2>5
<1>2. RpcInv /\ [Next]_vars =>
        [\A c \in Callers : Cardinality(faults) = 1 /\ InCall(c) /\ call'[c].result = "timeout" =>
            call[c].left <= 0]_vars
  BY <1>1
<1> QED
  BY <1>2, RpcInvHolds, PTL DEF Spec, TimeoutNotEarly
=============================================================================
