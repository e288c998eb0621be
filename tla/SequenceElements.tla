-------------------------- MODULE SequenceElements --------------------------
(* Lemmas that several proofs use: smallest and largest numbers, and the   *)
(* set of elements of a sequence in which no element occurs twice.         *)
EXTENDS Integers, SequencesExt, SequenceTheorems, FiniteSetTheorems, WellFoundedInduction, TLAPS

\* A set of natural numbers has a smallest.
LEMMA Smallest ==
    ASSUME NEW T \in SUBSET Nat, T # {}
    PROVE  \E n \in T : \A m \in T : n <= m
<1>1. PICK n \in T : \A m \in T : <<m, n>> \notin OpToRel(<, Nat)
  BY NatLessThanWellFounded, WFMin
<1>2. n \in Nat /\ \A m \in T : m \in Nat /\ ~(m < n)
  BY <1>1 DEF OpToRel
<1> QED
  BY <1>2

\* What is true of zero, and of every number whose predecessor it is true of, up
\* to a bound, is true up to the bound.
LEMMA UpTo ==
    ASSUME NEW n \in Nat, NEW Fits \in SUBSET (0 .. n),
           0 \in Fits, \A i \in 1 .. n : i - 1 \in Fits => i \in Fits
    PROVE  Fits = 0 .. n
<1> DEFINE T == (0 .. n) \ Fits
<1> SUFFICES ASSUME T # {} PROVE FALSE
  OBVIOUS
<1>1. PICK i \in T : \A m \in T : i <= m
  <2>1. T \in SUBSET Nat
    OBVIOUS
  <2> HIDE DEF T
  <2> QED
    BY <2>1, Smallest
<1>2. i \in 1 .. n /\ i - 1 \in 0 .. n /\ ~(i <= i - 1)
  BY <1>1
<1> QED
  BY <1>1, <1>2

\* A set of numbers up to a bound has a largest.
LEMMA Largest ==
    ASSUME NEW n \in Nat, NEW T \in SUBSET (1 .. n), T # {}
    PROVE  \E m \in T : \A k \in T : k <= m
<1> DEFINE U == {n - m : m \in T}
<1>1. U \in SUBSET Nat /\ U # {}
  <2>1. \A m \in T : m \in 1 .. n /\ n - m \in Nat
    OBVIOUS
  <2>2. U # {}
    OBVIOUS
  <2> QED
    BY <2>1, <2>2
<1>2. PICK u \in U : \A v \in U : u <= v
  <2> HIDE DEF U
  <2> QED
    BY <1>1, Smallest
<1>3. PICK m \in T : u = n - m
  BY <1>2
<1>4. \A k \in T : n - k \in U
  OBVIOUS
<1>5. \A k \in T : n - m <= n - k
  BY <1>2, <1>3, <1>4
<1> QED
  BY <1>5

\* The minimum of a set of numbers.
LEMMA MinOfSet ==
    ASSUME NEW T \in SUBSET Nat, T # {}
    PROVE  Min(T) \in T /\ \A m \in T : Min(T) <= m
BY Smallest DEF Min

\* And it is the only one.
LEMMA MinIsOne ==
    ASSUME NEW T \in SUBSET Nat, NEW n \in T, \A m \in T : n <= m
    PROVE  Min(T) = n
<1>1. Min(T) \in T /\ Min(T) <= n
  BY MinOfSet
<1>2. Min(T) \in Nat /\ n \in Nat /\ n <= Min(T)
  BY <1>1
<1> QED
  BY <1>1, <1>2

\* The tail of a sequence without repetition has the elements but the head.
LEMMA TailElements ==
    ASSUME NEW S, NEW s \in Seq(S), s # <<>>, IsInjective(s)
    PROVE  /\ IsInjective(Tail(s)) /\ ToSet(Tail(s)) = ToSet(s) \ {Head(s)}
           /\ Head(s) \in ToSet(s)
<1>1. /\ Tail(s) \in Seq(S) /\ Len(Tail(s)) = Len(s) - 1 /\ Head(s) = s[1] /\ Len(s) \in Nat \ {0}
      /\ \A i \in 1..(Len(s) - 1) : Tail(s)[i] = s[i + 1]
  BY HeadTailProperties
<1>2. DOMAIN s = 1..Len(s) /\ DOMAIN Tail(s) = 1..(Len(s) - 1)
  BY <1>1
<1>3. IsInjective(Tail(s))
  BY <1>1, <1>2 DEF IsInjective
<1>4. \A i \in 1..Len(s) : i # 1 => (i - 1 \in 1..(Len(s) - 1) /\ s[i] = Tail(s)[i - 1])
  BY <1>1
<1>5. \A x \in ToSet(s) \ {Head(s)} : x \in ToSet(Tail(s))
  <2> SUFFICES ASSUME NEW i \in 1..Len(s), s[i] # Head(s) PROVE s[i] \in ToSet(Tail(s))
    BY <1>2 DEF ToSet
  <2>1. i # 1
    BY <1>1
  <2> QED
    BY <1>2, <1>4, <2>1 DEF ToSet
<1>6. \A x \in ToSet(Tail(s)) : x \in ToSet(s) \ {Head(s)}
  BY <1>1, <1>2 DEF ToSet, IsInjective
<1>7. Head(s) \in ToSet(s)
  BY <1>1, <1>2 DEF ToSet
<1> QED
  BY <1>3, <1>5, <1>6, <1>7

\* A new last element adds itself.
LEMMA AppendElements ==
    ASSUME NEW S, NEW s \in Seq(S), NEW x \in S, IsInjective(s), x \notin ToSet(s)
    PROVE  IsInjective(Append(s, x)) /\ ToSet(Append(s, x)) = ToSet(s) \cup {x}
<1> DEFINE r == Append(s, x)
<1>1. /\ DOMAIN s = 1..Len(s) /\ DOMAIN r = 1..(Len(s) + 1) /\ Len(s) \in Nat
      /\ \A i \in 1..Len(s) : r[i] = s[i]
      /\ r[Len(s) + 1] = x
  BY AppendProperties
<1> HIDE DEF r
<1>2. IsInjective(r)
  BY <1>1 DEF IsInjective, ToSet
<1>3. ToSet(r) = ToSet(s) \cup {x}
  BY <1>1 DEF ToSet
<1> QED
  BY <1>2, <1>3 DEF r

\* The two parts a sequence is cut into share nothing.
LEMMA CutElements ==
    ASSUME NEW S, NEW s \in Seq(S), NEW n \in 0..Len(s), IsInjective(s)
    PROVE  LET first == SubSeq(s, 1, n)
               rest == SubSeq(s, n + 1, Len(s))
           IN  /\ first \in Seq(S) /\ IsInjective(first)
               /\ rest \in Seq(S) /\ IsInjective(rest)
               /\ ToSet(first) \cap ToSet(rest) = {}
               /\ ToSet(first) \subseteq ToSet(s) /\ ToSet(rest) \subseteq ToSet(s)
               /\ ToSet(s) \subseteq ToSet(first) \cup ToSet(rest)
<1> DEFINE first == SubSeq(s, 1, n)
           rest == SubSeq(s, n + 1, Len(s))
<1>1. /\ first \in Seq(S) /\ DOMAIN first = 1..n /\ \A i \in 1..n : first[i] = s[i]
      /\ rest \in Seq(S) /\ DOMAIN rest = 1..(Len(s) - n)
      /\ \A i \in 1..(Len(s) - n) : rest[i] = s[n + i] /\ n + i \in 1..Len(s) /\ n + i > n
      /\ DOMAIN s = 1..Len(s) /\ n \in Nat /\ Len(s) \in Nat
      /\ \A i \in 1..n : i \in 1..Len(s)
  <2>1. /\ n \in Nat /\ Len(s) \in Nat /\ n <= Len(s) /\ DOMAIN s = 1..Len(s)
        /\ \A i \in 1..n : i \in 1..Len(s)
    OBVIOUS
  <2>2. first \in Seq(S) /\ DOMAIN first = 1..n /\ \A i \in 1..n : first[i] = s[i]
    BY <2>1, SubSeqProperties
  <2>3. rest \in Seq(S) /\ DOMAIN rest = 1..(Len(s) - n)
    BY <2>1, SubSeqProperties
  <2>4. \A i \in 1..(Len(s) - n) : n + i \in 1..Len(s) /\ n + i > n
    BY <2>1
  <2>5. \A i \in 1..(Len(s) - n) : rest[i] = s[n + i]
    BY <2>1, SubSeqProperties
  <2> QED
    BY <2>1, <2>2, <2>3, <2>4, <2>5
<1> HIDE DEF first, rest
<1>2. IsInjective(first) /\ IsInjective(rest)
  <2>1. ASSUME NEW i \in 1..n, NEW j \in 1..n, first[i] = first[j] PROVE i = j
    BY <1>1, <2>1 DEF IsInjective
  <2>2. ASSUME NEW i \in 1..(Len(s) - n), NEW j \in 1..(Len(s) - n), rest[i] = rest[j]
        PROVE  i = j
    <3>0. n + i \in DOMAIN s /\ n + j \in DOMAIN s /\ s[n + i] = s[n + j]
      BY <1>1, <2>2
    <3>1. n + i = n + j
      BY <3>0 DEF IsInjective
    <3> QED
      BY <1>1, <3>1
  <2> QED
    BY <1>1, <2>1, <2>2 DEF IsInjective
<1>3. ToSet(first) \subseteq ToSet(s) /\ ToSet(rest) \subseteq ToSet(s)
  <2>1. \A i \in 1..n : first[i] \in ToSet(s)
    BY <1>1 DEF ToSet
  <2>2. \A i \in 1..(Len(s) - n) : rest[i] \in ToSet(s)
    BY <1>1 DEF ToSet
  <2> QED
    BY <1>1, <2>1, <2>2 DEF ToSet
<1>4. ToSet(first) \cap ToSet(rest) = {}
  <2>1. ASSUME NEW i \in 1..n, NEW j \in 1..(Len(s) - n) PROVE first[i] # rest[j]
    <3>1. i \in DOMAIN s /\ n + j \in DOMAIN s /\ i # n + j
      BY <1>1
    <3>2. s[i] # s[n + j]
      BY <3>1 DEF IsInjective
    <3> QED
      BY <1>1, <3>2
  <2> QED
    BY <1>1, <2>1 DEF ToSet
<1>5. ToSet(s) \subseteq ToSet(first) \cup ToSet(rest)
  <2> SUFFICES ASSUME NEW i \in 1..Len(s) PROVE s[i] \in ToSet(first) \cup ToSet(rest)
    BY <1>1 DEF ToSet
  <2>1. CASE i <= n
    <3>1. i \in DOMAIN first /\ first[i] = s[i]
      BY <1>1, <2>1
    <3> QED
      BY <3>1 DEF ToSet
  <2>2. CASE ~(i <= n)
    <3>1. i - n \in DOMAIN rest /\ n + (i - n) = i
      BY <1>1, <2>2
    <3>2. rest[i - n] = s[i]
      BY <1>1, <3>1
    <3> QED
      BY <3>1, <3>2 DEF ToSet
  <2> QED
    BY <2>1, <2>2
<1> QED
  BY <1>1, <1>2, <1>3, <1>4, <1>5 DEF first, rest

\* Two sequences that share nothing are joined without repetition.
LEMMA ConcatElements ==
    ASSUME NEW S, NEW r \in Seq(S), NEW s \in Seq(S), IsInjective(r), IsInjective(s),
           ToSet(r) \cap ToSet(s) = {}
    PROVE  IsInjective(r \o s) /\ ToSet(r \o s) = ToSet(r) \cup ToSet(s)
<1> DEFINE w == r \o s
<1>1. /\ Len(r) \in Nat /\ Len(s) \in Nat /\ DOMAIN w = 1..(Len(r) + Len(s))
      /\ \A i \in 1..(Len(r) + Len(s)) :
            \/ i \in 1..Len(r) /\ w[i] = r[i] /\ w[i] \in ToSet(r)
            \/ i > Len(r) /\ i - Len(r) \in 1..Len(s) /\ w[i] = s[i - Len(r)] /\ w[i] \in ToSet(s)
      /\ \A i \in 1..Len(r) : i \in 1..(Len(r) + Len(s)) /\ r[i] = w[i]
      /\ \A i \in 1..Len(s) : Len(r) + i \in 1..(Len(r) + Len(s)) /\ s[i] = w[Len(r) + i]
      /\ DOMAIN r = 1..Len(r) /\ DOMAIN s = 1..Len(s)
  BY ConcatProperties DEF ToSet
<1> HIDE DEF w
<1>2. ASSUME NEW i \in DOMAIN w, NEW j \in DOMAIN w, w[i] = w[j] PROVE i = j
  <2>1. CASE i \in 1..Len(r) /\ j \in 1..Len(r)
    BY <1>1, <1>2, <2>1 DEF IsInjective
  <2>2. CASE i > Len(r) /\ j > Len(r)
    <3>1. i - Len(r) = j - Len(r)
      BY <1>1, <1>2, <2>2 DEF IsInjective
    <3> QED
      BY <1>1, <3>1
  <2> QED
    BY <1>1, <1>2, <2>1, <2>2
<1>3. \A x \in ToSet(w) : x \in ToSet(r) \cup ToSet(s)
  BY <1>1 DEF ToSet
<1>4. \A x \in ToSet(r) \cup ToSet(s) : x \in ToSet(w)
  <2>1. \A i \in 1..Len(r) : r[i] \in ToSet(w)
    BY <1>1 DEF ToSet
  <2>2. \A i \in 1..Len(s) : s[i] \in ToSet(w)
    BY <1>1 DEF ToSet
  <2> QED
    BY <1>1, <2>1, <2>2 DEF ToSet
<1> QED
  BY <1>2, <1>3, <1>4 DEF IsInjective, w

\* The elements of a sequence over a set are of that set.
LEMMA ElementsType ==
    ASSUME NEW S, NEW s \in Seq(S)
    PROVE  ToSet(s) \subseteq S
BY DEF ToSet

\* The empty sequence has none.
LEMMA EmptyElements == ToSet(<<>>) = {} /\ IsInjective(<<>>)
BY DEF ToSet, IsInjective

\* SetToSeq lists the elements of a finite set, each once.
LEMMA SetToSeqLists ==
    ASSUME NEW S, IsFiniteSet(S)
    PROVE  /\ SetToSeq(S) \in [1 .. Cardinality(S) -> S] /\ Cardinality(S) \in Nat
           /\ SetToSeq(S) \in Seq(S) /\ Len(SetToSeq(S)) = Cardinality(S)
           /\ IsInjective(SetToSeq(S))
           /\ \A x \in S : \E i \in 1 .. Cardinality(S) : SetToSeq(S)[i] = x
<1> DEFINE n == Cardinality(S)
<1>1. n \in Nat /\ ExistsBijection(1 .. n, S)
  BY FS_CardinalityType
<1>2. PICK g \in Bijection(1 .. n, S) : TRUE
  BY <1>1 DEF ExistsBijection
<1>3. g \in [1 .. n -> S] /\ IsInjective(g)
  BY <1>2 DEF Bijection, Injection
<1> DEFINE f == SetToSeq(S)
<1>4. f \in [1 .. n -> S] /\ IsInjective(f)
  BY <1>3 DEF SetToSeq
<1> HIDE DEF f
<1>5. f \in Injection(1 .. n, S)
  BY <1>4 DEF Injection
<1>6. IsFiniteSet(1 .. n) /\ Cardinality(1 .. n) = n
  <2>1. IsFiniteSet(1 .. n) /\ Cardinality(1 .. n) = IF 1 > n THEN 0 ELSE n - 1 + 1
    BY <1>1, FS_Interval
  <2> HIDE DEF n
  <2> QED
    BY <1>1, <2>1
<1>7. f \in Surjection(1 .. n, S)
  BY <1>5, <1>6, FS_Injection
<1>8. \A x \in S : \E i \in 1 .. n : f[i] = x
  BY <1>7 DEF Surjection
<1>9. f \in Seq(S) /\ Len(f) = n
  <2> HIDE DEF n
  <2> QED
    BY <1>1, <1>4
<1> QED
  BY <1>1, <1>4, <1>8, <1>9 DEF f

\* A sequence of four and one of eight.
LEMMA ConcatFourEight ==
    ASSUME NEW a, NEW b, NEW c, NEW d, NEW e, NEW f, NEW g, NEW h, NEW i, NEW j, NEW k, NEW l
    PROVE  <<a,b,c,d>> \o <<e,f,g,h,i,j,k,l>> = <<a,b,c,d,e,f,g,h,i,j,k,l>>
<1> DEFINE S == {a,b,c,d,e,f,g,h,i,j,k,l}
           s == <<a,b,c,d>>
           t == <<e,f,g,h,i,j,k,l>>
           all == <<a,b,c,d,e,f,g,h,i,j,k,l>>
<1>1. s \in Seq(S) /\ t \in Seq(S) /\ all \in Seq(S) /\ Len(s) = 4 /\ Len(t) = 8 /\ Len(all) = 12
  OBVIOUS
<1>2. /\ s[1] = a /\ s[2] = b /\ s[3] = c /\ s[4] = d /\ t[1] = e /\ t[2] = f
      /\ t[3] = g /\ t[4] = h /\ t[5] = i /\ t[6] = j /\ t[7] = k /\ t[8] = l
  OBVIOUS
<1>3. /\ all[1] = a /\ all[2] = b /\ all[3] = c /\ all[4] = d /\ all[5] = e /\ all[6] = f
      /\ all[7] = g /\ all[8] = h /\ all[9] = i /\ all[10] = j /\ all[11] = k /\ all[12] = l
  OBVIOUS
<1> HIDE DEF s, t, all, S
<1>4. s \o t \in Seq(S) /\ Len(s \o t) = 12
      /\ \A n \in 1 .. 12 : (s \o t)[n] = IF n <= 4 THEN s[n] ELSE t[n - 4]
  <2>1. /\ s \o t \in Seq(S) /\ Len(s \o t) = Len(s) + Len(t)
        /\ \A n \in 1 .. Len(s) + Len(t) : (s \o t)[n] = IF n <= Len(s) THEN s[n] ELSE t[n - Len(s)]
    BY <1>1, ConcatProperties
  <2> QED
    BY SMTT(30), <1>1, <2>1
<1>5. PICK u : u = s \o t
  OBVIOUS
<1>6. u \in Seq(S) /\ Len(u) = 12 /\ \A n \in 1 .. 12 : u[n] = IF n <= 4 THEN s[n] ELSE t[n - 4]
  BY <1>4, <1>5
<1>7. \A n \in 1 .. 12 : u[n] = all[n]
  <2>1. \A n \in 1 .. 12 : n \in {1,2,3,4,5,6,7,8,9,10,11,12}
    OBVIOUS
  <2>2. \A n \in 1 .. 4 : u[n] = s[n]
    BY <1>6
  <2>3. \A n \in 1 .. 8 : u[n + 4] = t[n]
    BY <1>6
  <2>4. u[1] = a /\ u[2] = b /\ u[3] = c /\ u[4] = d
    BY <1>2, <2>2
  <2>5. /\ u[1 + 4] = e /\ u[2 + 4] = f /\ u[3 + 4] = g /\ u[4 + 4] = h
        /\ u[5 + 4] = i /\ u[6 + 4] = j /\ u[7 + 4] = k /\ u[8 + 4] = l
    BY <1>2, <2>3
  <2> QED
    BY <1>3, <2>1, <2>4, <2>5
<1>8. u = all
  BY <1>1, <1>6, <1>7, SeqEqual
<1> QED
  BY <1>5, <1>8 DEF s, t, all

\* r is s with an element behind the first m, place by place.
IsInserted(r, s, m, e) ==
    /\ Len(r) = Len(s) + 1
    /\ \A i \in 1 .. m : r[i] = s[i]
    /\ r[m + 1] = e
    /\ \A i \in (m + 2) .. (Len(s) + 1) : r[i] = s[i - 1]

\* r is s without its place n.
IsRemoved(r, s, n) ==
    /\ Len(r) = Len(s) - 1
    /\ \A i \in 1 .. (n - 1) : r[i] = s[i]
    /\ \A i \in n .. (Len(s) - 1) : r[i] = s[i + 1]

\* s is first, of length n, and rest.
IsCut(first, rest, s, n) ==
    /\ Len(first) = n /\ Len(rest) = Len(s) - n
    /\ \A i \in 1 .. n : first[i] = s[i]
    /\ \A i \in 1 .. (Len(s) - n) : rest[i] = s[n + i]

\* InsertAt puts an element in a sequence.
LEMMA InsertPlaces ==
    ASSUME NEW S, NEW s \in Seq(S), NEW e \in S, NEW m \in 0 .. Len(s)
    PROVE  InsertAt(s, m + 1, e) \in Seq(S) /\ IsInserted(InsertAt(s, m + 1, e), s, m, e)
<1> DEFINE a == SubSeq(s, 1, m)
           b == SubSeq(s, m + 1, Len(s))
           c == a \o <<e>>
           r == c \o b
<1>1. /\ m \in Nat /\ Len(s) \in Nat /\ m <= Len(s) /\ m + 1 \in Int /\ (m + 1) - 1 = m
      /\ \A i \in 1 .. m : s[i] \in S
      /\ \A i \in (m + 1) .. Len(s) : s[i] \in S
  OBVIOUS
<1>2. a \in Seq(S) /\ Len(a) = m /\ \A i \in 1 .. m : a[i] = s[i]
  BY <1>1, SubSeqProperties
<1>3. b \in Seq(S) /\ Len(b) = Len(s) - m /\ \A i \in 1 .. (Len(s) - m) : b[i] = s[m + i]
  BY <1>1, SubSeqProperties
<1> HIDE DEF a, b
<1>4. <<e>> \in Seq(S) /\ Len(<<e>>) = 1 /\ <<e>>[1] = e
  OBVIOUS
<1>5. /\ c \in Seq(S) /\ Len(c) = m + 1
      /\ \A i \in 1 .. (m + 1) : c[i] = IF i <= m THEN s[i] ELSE e
  BY <1>1, <1>2, <1>4, ConcatProperties
<1> HIDE DEF c
<1>6. /\ r \in Seq(S) /\ Len(r) = Len(s) + 1
      /\ \A i \in 1 .. (Len(s) + 1) : r[i] = IF i <= m + 1 THEN c[i] ELSE b[i - (m + 1)]
  <2>1. /\ c \o b \in Seq(S) /\ Len(c \o b) = Len(c) + Len(b)
        /\ \A i \in 1 .. Len(c) + Len(b) :
              (c \o b)[i] = IF i <= Len(c) THEN c[i] ELSE b[i - Len(c)]
    BY <1>3, <1>5, ConcatProperties
  <2>2. Len(c) = m + 1 /\ Len(c) + Len(b) = Len(s) + 1
    BY <1>1, <1>3, <1>5
  <2> QED
    BY <2>1, <2>2
<1>7. InsertAt(s, m + 1, e) = r
  <2>1. InsertAt(s, m + 1, e) = SubSeq(s, 1, (m + 1) - 1) \o <<e>> \o SubSeq(s, m + 1, Len(s))
    BY Zenon DEF InsertAt
  <2>2. SubSeq(s, 1, (m + 1) - 1) = SubSeq(s, 1, m)
    BY <1>1
  <2> QED
    BY <2>1, <2>2, Zenon DEF a, b, c
<1> HIDE DEF r
<1>8. \A i \in 1 .. m : r[i] = s[i]
  BY <1>1, <1>5, <1>6
<1>9. r[m + 1] = e
  BY <1>1, <1>5, <1>6
<1>10. ASSUME NEW i \in (m + 2) .. (Len(s) + 1) PROVE r[i] = s[i - 1]
  <2>1. i - (m + 1) \in 1 .. (Len(s) - m) /\ m + (i - (m + 1)) = i - 1 /\ ~(i <= m + 1)
        /\ i \in 1 .. (Len(s) + 1)
    BY <1>1
  <2> QED
    BY <1>3, <1>6, <2>1
<1> QED
  BY <1>6, <1>7, <1>8, <1>9, <1>10 DEF IsInserted

\* RemoveAt takes one place out of a sequence.
LEMMA RemovePlaces ==
    ASSUME NEW S, NEW s \in Seq(S), NEW n \in 1 .. Len(s)
    PROVE  RemoveAt(s, n) \in Seq(S) /\ IsRemoved(RemoveAt(s, n), s, n)
<1> DEFINE a == SubSeq(s, 1, n - 1)
           b == SubSeq(s, n + 1, Len(s))
           r == a \o b
<1>1. /\ Len(s) \in Nat /\ DOMAIN s = 1 .. Len(s) /\ n - 1 \in Nat /\ n + 1 \in Int /\ n \in Nat
      /\ n <= Len(s)
      /\ \A i \in 1 .. (n - 1) : s[i] \in S
      /\ \A i \in (n + 1) .. Len(s) : s[i] \in S
  OBVIOUS
<1>2. a \in Seq(S) /\ Len(a) = n - 1 /\ \A i \in 1 .. (n - 1) : a[i] = s[i]
  BY <1>1, SubSeqProperties
<1>3. b \in Seq(S) /\ Len(b) = Len(s) - n /\ \A i \in 1 .. (Len(s) - n) : b[i] = s[n + i]
  <2>1. /\ b \in Seq(S) /\ Len(b) = IF n + 1 <= Len(s) THEN Len(s) - (n + 1) + 1 ELSE 0
        /\ \A i \in 1 .. (Len(s) - (n + 1) + 1) : b[i] = s[(n + 1) + i - 1]
    <3>1. Len(s) \in Int /\ n + 1 \in Int /\ \A i \in (n + 1) .. Len(s) : s[i] \in S
      BY <1>1
    <3> QED
      BY SMTT(30), <3>1, SubSeqProperties
  <2> HIDE DEF b
  <2>2. Len(s) - (n + 1) + 1 = Len(s) - n /\ \A i \in 1 .. (Len(s) - n) : (n + 1) + i - 1 = n + i
    BY <1>1
  <2>3. Len(b) = Len(s) - n
    <3>1. CASE n + 1 <= Len(s)
      BY <1>1, <2>1, <2>2, <3>1
    <3>2. CASE ~(n + 1 <= Len(s))
      <4>1. Len(s) - n = 0
        <5>1. n \in Nat /\ Len(s) \in Nat /\ n <= Len(s)
          BY <1>1
        <5> QED
          BY <3>2, <5>1
      <4> QED
        BY <2>1, <3>2, <4>1
    <3> QED
      BY <3>1, <3>2
  <2>4. \A i \in 1 .. (Len(s) - n) : b[i] = s[n + i]
    BY <2>1, <2>2
  <2> QED
    BY <2>1, <2>3, <2>4
<1> HIDE DEF a, b
<1>4. /\ r \in Seq(S) /\ Len(r) = Len(s) - 1
      /\ \A i \in 1 .. (Len(s) - 1) : r[i] = IF i <= n - 1 THEN a[i] ELSE b[i - (n - 1)]
  <2>1. /\ a \o b \in Seq(S) /\ Len(a \o b) = Len(a) + Len(b)
        /\ \A i \in 1 .. Len(a) + Len(b) :
              (a \o b)[i] = IF i <= Len(a) THEN a[i] ELSE b[i - Len(a)]
    BY <1>2, <1>3, ConcatProperties
  <2>2. Len(a) = n - 1 /\ Len(a) + Len(b) = Len(s) - 1
    BY <1>1, <1>2, <1>3
  <2> QED
    BY <2>1, <2>2
<1>5. RemoveAt(s, n) = r
  BY DEF RemoveAt, a, b
<1> HIDE DEF r
<1>6. \A i \in 1 .. (n - 1) : r[i] = s[i]
  <2> TAKE i \in 1 .. (n - 1)
  <2>1. i <= n - 1 /\ i \in 1 .. (Len(s) - 1)
    BY <1>1
  <2> QED
    BY <1>2, <1>4, <2>1
<1>7. \A i \in n .. (Len(s) - 1) : r[i] = s[i + 1]
  <2> TAKE i \in n .. (Len(s) - 1)
  <2>1. /\ i - (n - 1) \in 1 .. (Len(s) - n) /\ n + (i - (n - 1)) = i + 1
        /\ ~(i <= n - 1) /\ i \in 1 .. (Len(s) - 1)
    BY <1>1
  <2> QED
    BY <1>3, <1>4, <2>1
<1> QED
  BY <1>4, <1>5, <1>6, <1>7 DEF IsRemoved

\* A sequence cut in two.
LEMMA CutPlaces ==
    ASSUME NEW S, NEW s \in Seq(S), NEW n \in 0 .. Len(s)
    PROVE  /\ SubSeq(s, 1, n) \in Seq(S) /\ SubSeq(s, n + 1, Len(s)) \in Seq(S)
           /\ IsCut(SubSeq(s, 1, n), SubSeq(s, n + 1, Len(s)), s, n)
<1> DEFINE first == SubSeq(s, 1, n)
           rest == SubSeq(s, n + 1, Len(s))
<1>1. /\ Len(s) \in Nat /\ DOMAIN s = 1 .. Len(s) /\ n \in Nat /\ n <= Len(s) /\ n + 1 \in Int
      /\ \A i \in 1 .. n : s[i] \in S
      /\ \A i \in (n + 1) .. Len(s) : s[i] \in S
  OBVIOUS
<1>2. first \in Seq(S) /\ Len(first) = n /\ \A i \in 1 .. n : first[i] = s[i]
  BY <1>1, SubSeqProperties
<1>3. /\ rest \in Seq(S) /\ Len(rest) = Len(s) - n
      /\ \A i \in 1 .. (Len(s) - n) : rest[i] = s[n + i]
  <2>1. /\ rest \in Seq(S) /\ Len(rest) = IF n + 1 <= Len(s) THEN Len(s) - (n + 1) + 1 ELSE 0
        /\ \A i \in 1 .. (Len(s) - (n + 1) + 1) : rest[i] = s[(n + 1) + i - 1]
    <3>1. Len(s) \in Int /\ n + 1 \in Int /\ \A i \in (n + 1) .. Len(s) : s[i] \in S
      BY <1>1
    <3> QED
      BY <3>1, SubSeqProperties
  <2> HIDE DEF rest
  <2>2. Len(s) - (n + 1) + 1 = Len(s) - n /\ \A i \in 1 .. (Len(s) - n) : (n + 1) + i - 1 = n + i
    BY <1>1
  <2>3. Len(rest) = Len(s) - n
    <3>1. CASE n + 1 <= Len(s)
      BY <1>1, <2>1, <2>2, <3>1
    <3>2. CASE ~(n + 1 <= Len(s))
      <4>1. Len(s) - n = 0
        <5>1. n \in Nat /\ Len(s) \in Nat /\ n <= Len(s)
          BY <1>1
        <5> QED
          BY <3>2, <5>1
      <4> QED
        BY <2>1, <3>2, <4>1
    <3> QED
      BY <3>1, <3>2
  <2>4. \A i \in 1 .. (Len(s) - n) : rest[i] = s[n + i]
    BY <2>1, <2>2
  <2> QED
    BY <2>1, <2>3, <2>4
<1> HIDE DEF first, rest
<1> QED
  BY <1>2, <1>3 DEF first, rest, IsCut

\* Numbers up to a bound, each with all those before it, are the first ones.
LEMMA FirstPlaces ==
    ASSUME NEW n \in Nat, NEW Before \in SUBSET (1 .. n),
           \A i \in Before : \A j \in 1 .. n : j < i => j \in Before
    PROVE  \E m \in 0 .. n : Before = 1 .. m /\ Cardinality(Before) = m
<1> DEFINE Behind == (1 .. n) \ Before
<1>1. \E m \in 0 .. n : Before = 1 .. m
  <2>1. CASE Behind = {}
    <3>1. \A i \in 1 .. n : i \in Before
      BY <2>1
    <3>2. Before \subseteq 1 .. n
      OBVIOUS
    <3>3. Before = 1 .. n
      BY <3>1, <3>2
    <3>4. n \in 0 .. n
      OBVIOUS
    <3> QED
      BY <3>3, <3>4, Zenon
  <2>2. CASE Behind # {}
    <3>1. PICK k \in Behind : \A j \in Behind : k <= j
      <4>1. Behind \in SUBSET Nat
        OBVIOUS
      <4> HIDE DEF Behind
      <4> QED
        BY <2>2, <4>1, Smallest
    <3>2. k \in 1 .. n /\ k - 1 \in 0 .. n /\ k \notin Before
      BY <3>1
    <3>3. \A i \in 1 .. n : i < k => i \in Before
      BY <3>1
    <3>4. \A i \in 1 .. n : ~(i < k) => i \notin Before
      BY <3>2
    <3>5. Before = 1 .. (k - 1)
      <4>1. \A i \in 1 .. n : i \in Before <=> i \in 1 .. (k - 1)
        BY <3>2, <3>3, <3>4
      <4>2. 1 .. (k - 1) \subseteq 1 .. n
        BY <3>2
      <4> QED
        BY <4>1, <4>2
    <3> QED
      BY <3>2, <3>5
  <2> QED
    BY <2>1, <2>2
<1>2. PICK m \in 0 .. n : Before = 1 .. m
  BY <1>1
<1>3. Cardinality(1 .. m) = m
  <2>1. m \in Int /\ 1 \in Int /\ m >= 0
    OBVIOUS
  <2>2. Cardinality(1 .. m) = IF 1 > m THEN 0 ELSE m - 1 + 1
    BY <2>1, FS_Interval
  <2> QED
    BY <2>1, <2>2
<1> QED
  BY <1>2, <1>3
=============================================================================
