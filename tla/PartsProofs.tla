----------------------------- MODULE PartsProofs -----------------------------
(* Proofs about the parts that share no state with each other: TcpBuffer,  *)
(* for every set of bytes, every size and every bound, while no failed     *)
(* send is passed on to RecycleRead; LoadBalance, for every set of lists   *)
(* and every ring; MsgReq, for every base and length; Generator, for every *)
(* finite set of methods; Registry, for any number of processes and        *)
(* services; and TcpServer, for any number of connections, descriptors and *)
(* buckets.                                                                *)
EXTENDS TcpServer, TcpBuffer, LoadBalance, MsgReq, Generator, Registry, SequenceElements, FiniteSetTheorems

\* The filled part of a vector between two indices.
Filled(b, r, w) == SubSeq(b, r + 1, w)

\* A vector with its indices is in order and holds bytes between them.
Good(b, r, w) ==
    /\ b \in Seq(Bytes \cup {0})
    /\ r \in Nat /\ w \in Nat /\ r <= w /\ w <= Len(b)
    /\ \A i \in r + 1 .. w : b[i] \in Bytes

\* The smaller of two numbers.
LEMMA MinOfTwo ==
    ASSUME NEW x \in Nat, NEW y \in Nat
    PROVE  Min({x, y}) = IF x <= y THEN x ELSE y
<1> DEFINE m == IF x <= y THEN x ELSE y
<1>1. m \in {x, y} /\ \A z \in {x, y} : m <= z
  OBVIOUS
<1>2. \A z \in {x, y} : (\A u \in {x, y} : z <= u) => z = m
  OBVIOUS
<1> QED
  BY <1>1, <1>2 DEF Min

\* What is received or appended is a sequence of bytes.
LEMMA DataType ==
    ASSUME NEW data \in Data
    PROVE  data \in Seq(Bytes) /\ Len(data) \in Nat \ {0} /\ DOMAIN data = 1 .. Len(data)
<1>1. PICK n \in 1 .. MaxData : data \in [1 .. n -> Bytes]
  BY DEF Data
<1>2. n \in Nat /\ n # 0
  BY <1>1, TcpBufferAssumption DEF TcpBufferAssumption
<1>3. data \in Seq(Bytes) /\ Len(data) = n
  BY <1>1, <1>2
<1> QED
  BY <1>1, <1>2, <1>3

\* The filled part is as long as the indices say and has the vector's bytes.
LEMMA FilledIs ==
    ASSUME NEW b, NEW r, NEW w, Good(b, r, w)
    PROVE  /\ Filled(b, r, w) \in Seq(Bytes) /\ Len(Filled(b, r, w)) = w - r
           /\ w - r \in Nat
           /\ \A i \in 1 .. w - r : Filled(b, r, w)[i] = b[r + i]
<1>1. r + 1 \in Int /\ w \in Int /\ r \in Int /\ r <= w /\ \A i \in r + 1 .. w : b[i] \in Bytes
  BY DEF Good
<1>2. /\ SubSeq(b, r + 1, w) \in Seq(Bytes)
      /\ Len(SubSeq(b, r + 1, w)) = IF r + 1 <= w THEN w - (r + 1) + 1 ELSE 0
      /\ \A i \in 1 .. w - (r + 1) + 1 : SubSeq(b, r + 1, w)[i] = b[r + 1 + i - 1]
  BY <1>1, SubSeqProperties
<1>3. Len(SubSeq(b, r + 1, w)) = w - r /\ w - (r + 1) + 1 = w - r /\ w - r \in Nat
  BY <1>1, <1>2
<1>4. \A i \in 1 .. w - r : r + 1 + i - 1 = r + i
  BY <1>1
<1> QED
  BY <1>2, <1>3, <1>4 DEF Filled

\* Two filled parts are equal when they are equally long and agree.
LEMMA FilledEqual ==
    ASSUME NEW b, NEW r, NEW w, NEW c, NEW s, NEW v, Good(b, r, w), Good(c, s, v),
           v - s = w - r, \A i \in 1 .. w - r : c[s + i] = b[r + i]
    PROVE  Filled(c, s, v) = Filled(b, r, w)
<1>1. /\ Filled(b, r, w) \in Seq(Bytes) /\ Len(Filled(b, r, w)) = w - r
      /\ \A i \in 1 .. w - r : Filled(b, r, w)[i] = b[r + i]
  BY FilledIs
<1>2. /\ Filled(c, s, v) \in Seq(Bytes) /\ Len(Filled(c, s, v)) = v - s
      /\ \A i \in 1 .. v - s : Filled(c, s, v)[i] = c[s + i]
  BY FilledIs
<1> QED
  BY <1>1, <1>2, SeqEqual

\* Moving the filled part to the front of a vector with room for it keeps it.
LEMMA MovedKeeps ==
    ASSUME NEW b, NEW r, NEW w, Good(b, r, w), NEW size \in Nat, w - r <= size
    PROVE  /\ Good(Moved(b, r, w, size), 0, w - r) /\ Len(Moved(b, r, w, size)) = size
           /\ Filled(Moved(b, r, w, size), 0, w - r) = Filled(b, r, w)
<1> DEFINE m == Moved(b, r, w, size)
<1>1. \A i \in 1 .. size : m[i] = IF i <= w - r THEN b[r + i] ELSE 0
  BY DEF Moved
<1>2. \A i \in 1 .. w - r : i \in 1 .. size /\ r + i \in r + 1 .. w /\ m[i] = b[r + i] /\ b[r + i] \in Bytes
  BY <1>1 DEF Good
<1>3. m \in Seq(Bytes \cup {0}) /\ Len(m) = size
  <2>1. \A i \in 1 .. size : m[i] \in Bytes \cup {0}
    <3> SUFFICES ASSUME NEW i \in 1 .. size PROVE m[i] \in Bytes \cup {0}
      OBVIOUS
    <3>1. CASE i <= w - r
      <4>1. i \in 1 .. w - r
        BY <3>1 DEF Good
      <4> QED
        BY <1>2, <4>1
    <3>2. CASE ~(i <= w - r)
      BY <1>1, <3>2
    <3> QED
      BY <3>1, <3>2
  <2>2. m = [i \in 1 .. size |-> IF i <= w - r THEN b[r + i] ELSE 0]
    BY DEF Moved
  <2>3. m \in [1 .. size -> Bytes \cup {0}]
    BY <2>1, <2>2
  <2> QED
    BY <2>3
<1> HIDE DEF m
<1>4. w - r \in Nat /\ r + 1 \in Nat
  BY DEF Good
<1>5. Good(m, 0, w - r)
  BY <1>2, <1>3, <1>4 DEF Good
<1>6. Filled(m, 0, w - r) = Filled(b, r, w)
  <2>1. \A i \in 1 .. w - r : m[0 + i] = b[r + i]
    BY <1>2
  <2> QED
    BY <1>4, <1>5, <2>1, FilledEqual
<1> QED
  BY <1>3, <1>5, <1>6 DEF m

\* Copying data in behind the filled part appends it.
LEMMA CopiedAppends ==
    ASSUME NEW b, NEW r, NEW w, Good(b, r, w), NEW data \in Data, w + Len(data) <= Len(b)
    PROVE  /\ Good(Copied(b, w, data), r, w + Len(data)) /\ Len(Copied(b, w, data)) = Len(b)
           /\ Filled(Copied(b, w, data), r, w + Len(data)) = Filled(b, r, w) \o data
<1> DEFINE m == Copied(b, w, data)
           n == Len(data)
<1>0. data \in Seq(Bytes) /\ n \in Nat /\ n # 0 /\ DOMAIN data = 1 .. n
  BY DataType
<1>1. b \in Seq(Bytes \cup {0}) /\ DOMAIN b = 1 .. Len(b) /\ Len(b) \in Nat /\ r \in Nat /\ w \in Nat /\ r <= w
  BY DEF Good
<1>2. m = [i \in 1 .. Len(b) |-> IF i > w /\ i <= w + n THEN data[i - w] ELSE b[i]]
  BY <1>1 DEF Copied
<1> HIDE DEF m, n
<1>3. \A i \in 1 .. Len(b) : m[i] \in Bytes \cup {0}
  <2> SUFFICES ASSUME NEW i \in 1 .. Len(b) PROVE m[i] \in Bytes \cup {0}
    OBVIOUS
  <2>1. CASE i > w /\ i <= w + n
    <3>1. i - w \in 1 .. n
      BY <1>0, <1>1, <2>1
    <3>2. data[i - w] \in Bytes
      BY <1>0, <3>1
    <3> QED
      BY <1>2, <2>1, <3>2
  <2>2. CASE ~(i > w /\ i <= w + n)
    BY <1>1, <1>2, <2>2
  <2> QED
    BY <2>1, <2>2
<1>4. m \in Seq(Bytes \cup {0}) /\ Len(m) = Len(b)
  BY <1>1, <1>2, <1>3
<1>5. \A i \in r + 1 .. w : m[i] = b[i] /\ m[i] \in Bytes
  <2> SUFFICES ASSUME NEW i \in r + 1 .. w PROVE m[i] = b[i] /\ m[i] \in Bytes
    OBVIOUS
  <2>1. i \in 1 .. Len(b) /\ ~(i > w) /\ b[i] \in Bytes
    BY <1>1 DEF Good
  <2> QED
    BY <1>2, <2>1
<1>6. \A i \in 1 .. n : m[w + i] = data[i] /\ data[i] \in Bytes
  <2> SUFFICES ASSUME NEW i \in 1 .. n PROVE m[w + i] = data[i] /\ data[i] \in Bytes
    OBVIOUS
  <2>1. w + i \in 1 .. Len(b) /\ w + i > w /\ w + i <= w + n /\ (w + i) - w = i
    BY <1>0, <1>1 DEF n
  <2> QED
    BY <1>0, <1>2, <2>1
<1>7. Good(m, r, w + n)
  <2>1. ASSUME NEW i \in r + 1 .. w + n PROVE m[i] \in Bytes
    <3>1. CASE i <= w
      BY <1>1, <1>5, <3>1
    <3>2. CASE i > w
      <4>1. i - w \in 1 .. n /\ w + (i - w) = i
        BY <1>0, <1>1, <3>2
      <4> QED
        BY <1>6, <4>1
    <3> QED
      BY <1>1, <3>1, <3>2
  <2> QED
    BY <1>0, <1>1, <1>4, <2>1 DEF Good, n
<1>8. Filled(m, r, w + n) = Filled(b, r, w) \o data
  <2>1. /\ Filled(b, r, w) \in Seq(Bytes) /\ Len(Filled(b, r, w)) = w - r /\ w - r \in Nat
        /\ \A i \in 1 .. w - r : Filled(b, r, w)[i] = b[r + i]
    BY FilledIs
  <2>2. /\ Filled(m, r, w + n) \in Seq(Bytes) /\ Len(Filled(m, r, w + n)) = w + n - r
        /\ \A i \in 1 .. w + n - r : Filled(m, r, w + n)[i] = m[r + i]
    <3>1. PICK v : v = w + n
      OBVIOUS
    <3>2. Good(m, r, v)
      BY <1>7, <3>1
    <3>3. /\ Filled(m, r, v) \in Seq(Bytes) /\ Len(Filled(m, r, v)) = v - r
          /\ \A i \in 1 .. v - r : Filled(m, r, v)[i] = m[r + i]
      BY <3>2, FilledIs
    <3> QED
      BY <1>0, <1>1, <3>1, <3>3
  <2>3. data \in Seq(Bytes) /\ Len(data) = n
    BY <1>0 DEF n
  <2>4. /\ Filled(b, r, w) \o data \in Seq(Bytes)
        /\ Len(Filled(b, r, w) \o data) = (w - r) + n
        /\ \A i \in 1 .. (w - r) + n : (Filled(b, r, w) \o data)[i] =
              IF i <= w - r THEN Filled(b, r, w)[i] ELSE data[i - (w - r)]
    <3>1. /\ Filled(b, r, w) \o data \in Seq(Bytes)
          /\ Len(Filled(b, r, w) \o data) = Len(Filled(b, r, w)) + Len(data)
          /\ \A i \in 1 .. Len(Filled(b, r, w)) + Len(data) : (Filled(b, r, w) \o data)[i] =
                IF i <= Len(Filled(b, r, w)) THEN Filled(b, r, w)[i]
                                             ELSE data[i - Len(Filled(b, r, w))]
      BY <2>1, <2>3, ConcatProperties
    <3> QED
      BY <2>1, <2>3, <3>1
  <2>5. ASSUME NEW i \in 1 .. w + n - r
        PROVE  Filled(m, r, w + n)[i] = (Filled(b, r, w) \o data)[i]
    <3>1. CASE i <= w - r
      <4>1. i \in 1 .. w - r /\ r + i \in r + 1 .. w
        BY <1>1, <3>1
      <4>2. i \in 1 .. (w - r) + n
        BY <1>0, <1>1
      <4> QED
        BY <1>5, <2>1, <2>2, <2>4, <3>1, <4>1, <4>2
    <3>2. CASE ~(i <= w - r)
      <4>1. i - (w - r) \in 1 .. n /\ w + (i - (w - r)) = r + i /\ i \in 1 .. (w - r) + n
        BY <1>0, <1>1, <3>2
      <4>2. m[r + i] = data[i - (w - r)]
        BY <1>6, <4>1
      <4> QED
        BY <2>2, <2>4, <3>2, <4>1, <4>2
    <3> QED
      BY <3>1, <3>2
  <2>6. w + n - r = (w - r) + n
    BY <1>0, <1>1
  <2> QED
    BY <2>2, <2>4, <2>5, <2>6, SeqEqual
<1> QED
  BY <1>4, <1>7, <1>8 DEF m, n

\* AdjustBuffer keeps the vector in order, and its filled part.
LEMMA AdjustKeeps ==
    ASSUME NEW b, NEW r, NEW w, Good(b, r, w), AdjustBuffer(b, r, w)
    PROVE  /\ Good(buffer', readIndex', writeIndex') /\ Len(buffer') = Len(b)
           /\ Filled(buffer', readIndex', writeIndex') = Filled(b, r, w)
<1>1. CASE r > Len(b) \div 3
  <2>1. Len(b) \in Nat /\ w - r <= Len(b)
    BY DEF Good
  <2> QED
    BY <1>1, <2>1, MovedKeeps DEF AdjustBuffer
<1>2. CASE ~(r > Len(b) \div 3)
  BY <1>2 DEF AdjustBuffer
<1> QED
  BY <1>1, <1>2

\* ResizeBuffer to no less than is filled keeps the filled part.
LEMMA ResizeKeeps ==
    ASSUME Good(buffer, readIndex, writeIndex), NEW size \in Nat, Readable <= size
    PROVE  LET m == Resized(size) IN
           /\ m.writeIndex = Readable /\ Readable \in Nat
           /\ Good(m.buffer, 0, m.writeIndex) /\ Len(m.buffer) = size
           /\ Filled(m.buffer, 0, m.writeIndex) = Filled(buffer, readIndex, writeIndex)
<1>1. Readable \in Nat /\ readIndex + Readable = writeIndex
  BY DEF Good, Readable
<1>2. Min({size, Readable}) = Readable
  BY <1>1, MinOfTwo
<1>3. Resized(size) = [buffer |-> Moved(buffer, readIndex, writeIndex, size), writeIndex |-> Readable]
  BY <1>1, <1>2 DEF Resized
<1> QED
  BY <1>1, <1>3, MovedKeeps DEF Readable

\* The shape of the state is that its vector and its indices are in order.
LEMMA TypeIsGood == BufferTypeOK <=> Good(buffer, readIndex, writeIndex)
BY DEF BufferTypeOK, IndicesInRange, Good

----------------------------------------------------------------------------

\* The state after a step, seen from the queue: data were put behind it.
LEMMA AppendIsPut ==
    ASSUME Good(buffer, readIndex, writeIndex), Good(buffer', readIndex', writeIndex'),
           NEW data \in Data,
           Filled(buffer', readIndex', writeIndex') = Filled(buffer, readIndex, writeIndex) \o data
    PROVE  Queue!Put
<1> DEFINE q == Filled(buffer, readIndex, writeIndex)
<1>1. q \in Seq(Bytes) /\ data \in Seq(Bytes) /\ Len(data) \in Nat \ {0} /\ Len(q) \in Nat
  BY FilledIs, DataType
<1>2. /\ q \o data \in Seq(Bytes) /\ Len(q \o data) = Len(q) + Len(data)
      /\ \A i \in 1 .. Len(q) + Len(data) :
            (q \o data)[i] = IF i <= Len(q) THEN q[i] ELSE data[i - Len(q)]
  BY <1>1, ConcatProperties
<1>3. q = SubSeq(buffer, readIndex + 1, writeIndex)
      /\ q \o data = SubSeq(buffer', readIndex' + 1, writeIndex')
  BY DEF Filled
<1> HIDE DEF q
<1>4. Len(q \o data) > Len(q) /\ \A i \in 1 .. Len(q \o data) : (q \o data)[i] \in Bytes
  BY <1>1, <1>2
<1>5. SubSeq(q \o data, 1, Len(q)) = q
  <2>1. \A i \in 1 .. Len(q) : (q \o data)[i] = q[i] /\ q[i] \in Bytes
    BY <1>1, <1>2
  <2>2. /\ SubSeq(q \o data, 1, Len(q)) \in Seq(Bytes)
        /\ Len(SubSeq(q \o data, 1, Len(q))) = IF 1 <= Len(q) THEN Len(q) - 1 + 1 ELSE 0
        /\ \A i \in 1 .. Len(q) - 1 + 1 : SubSeq(q \o data, 1, Len(q))[i] = (q \o data)[1 + i - 1]
    <3>1. 1 \in Int /\ Len(q) \in Int /\ \A i \in 1 .. Len(q) : (q \o data)[i] \in Bytes
      BY <1>1, <2>1
    <3> QED
      BY <3>1, SubSeqProperties
  <2>3. Len(SubSeq(q \o data, 1, Len(q))) = Len(q) /\ Len(q) - 1 + 1 = Len(q)
    BY <1>1, <2>2
  <2>4. \A i \in 1 .. Len(q) : SubSeq(q \o data, 1, Len(q))[i] = q[i]
    BY <1>1, <2>1, <2>2
  <2> QED
    BY <1>1, <2>2, <2>3, <2>4, SeqEqual
<1> QED
  BY <1>3, <1>4, <1>5 DEF Queue!Put

\* The state after a step, seen from the queue: n bytes left its front.
LEMMA DropIsTake ==
    ASSUME Good(buffer, readIndex, writeIndex), NEW n \in 1 .. Readable,
           AdjustBuffer(buffer, readIndex + n, writeIndex)
    PROVE  Good(buffer', readIndex', writeIndex') /\ Queue!Take
<1> DEFINE q == Filled(buffer, readIndex, writeIndex)
<1>1. PICK r : r = readIndex + n
  OBVIOUS
<1>2. readIndex \in Nat /\ writeIndex \in Nat /\ Readable = writeIndex - readIndex /\ n \in Nat
  BY DEF Good, Readable
<1>3. Good(buffer, r, writeIndex) /\ writeIndex - r = Readable - n /\ Readable - n \in Nat
  BY <1>1, <1>2 DEF Good
<1>4. /\ Good(buffer', readIndex', writeIndex')
      /\ Filled(buffer', readIndex', writeIndex') = Filled(buffer, r, writeIndex)
  BY <1>1, <1>3, AdjustKeeps
<1>5. /\ q \in Seq(Bytes) /\ Len(q) = Readable
      /\ \A i \in 1 .. Readable : q[i] = buffer[readIndex + i]
  <2>1. /\ q \in Seq(Bytes) /\ Len(q) = writeIndex - readIndex
        /\ \A i \in 1 .. writeIndex - readIndex : q[i] = buffer[readIndex + i]
    BY FilledIs
  <2> QED
    BY <2>1 DEF Readable
<1>6. /\ Filled(buffer, r, writeIndex) \in Seq(Bytes)
      /\ Len(Filled(buffer, r, writeIndex)) = Readable - n
      /\ \A i \in 1 .. Readable - n : Filled(buffer, r, writeIndex)[i] = buffer[r + i]
  BY <1>3, FilledIs
<1>7. q = SubSeq(buffer, readIndex + 1, writeIndex)
      /\ Filled(buffer', readIndex', writeIndex') = SubSeq(buffer', readIndex' + 1, writeIndex')
  BY DEF Filled
<1> HIDE DEF q
<1>8. Filled(buffer, r, writeIndex) = SubSeq(q, n + 1, Len(q))
  <2>1. n + 1 \in Int /\ Len(q) \in Int /\ \A i \in n + 1 .. Len(q) : q[i] \in Bytes
    BY <1>2, <1>5
  <2>2. /\ SubSeq(q, n + 1, Len(q)) \in Seq(Bytes)
        /\ Len(SubSeq(q, n + 1, Len(q))) = IF n + 1 <= Len(q) THEN Len(q) - (n + 1) + 1 ELSE 0
        /\ \A i \in 1 .. Len(q) - (n + 1) + 1 : SubSeq(q, n + 1, Len(q))[i] = q[n + 1 + i - 1]
    BY <2>1, SubSeqProperties
  <2>3. Len(SubSeq(q, n + 1, Len(q))) = Readable - n /\ Len(q) - (n + 1) + 1 = Readable - n
    BY <1>2, <1>3, <1>5, <2>2
  <2>4. ASSUME NEW i \in 1 .. Readable - n
        PROVE  Filled(buffer, r, writeIndex)[i] = SubSeq(q, n + 1, Len(q))[i]
    <3>1. n + i \in 1 .. Readable /\ n + 1 + i - 1 = n + i /\ readIndex + (n + i) = r + i
      BY <1>1, <1>2, <1>3
    <3>2. q[n + i] = buffer[r + i]
      BY <1>5, <3>1
    <3> QED
      BY <1>6, <2>2, <2>3, <3>1, <3>2
  <2> QED
    BY <1>6, <2>2, <2>3, <2>4, SeqEqual
<1>9. n \in 1 .. Len(q)
  BY <1>5
<1> QED
  BY <1>4, <1>7, <1>8, <1>9 DEF Queue!Take

\* Receiving keeps the vector in order and puts the bytes behind the queue.
LEMMA ReceivePuts ==
    ASSUME Good(buffer, readIndex, writeIndex), NEW data \in Data, Receive(data)
    PROVE  Good(buffer', readIndex', writeIndex') /\ Queue!Put
<1> DEFINE full == Resized(2 * Len(buffer))
           b == IF Writeable = 0 THEN full.buffer ELSE buffer
           r == IF Writeable = 0 THEN 0 ELSE readIndex
           w == IF Writeable = 0 THEN full.writeIndex ELSE writeIndex
           c == Copied(b, w, data)
<1>1. Good(b, r, w) /\ Filled(b, r, w) = Filled(buffer, readIndex, writeIndex)
  <2>1. CASE Writeable = 0
    <3>1. 2 * Len(buffer) \in Nat /\ Readable <= 2 * Len(buffer)
      BY DEF Good, Readable
    <3>2. /\ Good(full.buffer, 0, full.writeIndex)
          /\ Filled(full.buffer, 0, full.writeIndex) = Filled(buffer, readIndex, writeIndex)
      BY <3>1, ResizeKeeps
    <3> QED
      BY <2>1, <3>2
  <2>2. CASE Writeable # 0
    BY <2>2
  <2> QED
    BY <2>1, <2>2
<1>2. Len(data) <= Len(b) - w /\ RecycleWrite(c, r, w, Len(data))
  BY DEF Receive
<1> HIDE DEF b, r, w
<1>3. w \in Nat /\ Len(b) \in Nat /\ Len(data) \in Nat
  BY <1>1, DataType DEF Good
<1>4. w + Len(data) <= Len(b)
  BY <1>2, <1>3
<1>5. /\ Good(c, r, w + Len(data)) /\ Len(c) = Len(b)
      /\ Filled(c, r, w + Len(data)) = Filled(b, r, w) \o data
  BY <1>1, <1>4, CopiedAppends
<1>6. AdjustBuffer(c, r, w + Len(data))
  BY <1>2, <1>3, <1>4, <1>5 DEF RecycleWrite
<1> HIDE DEF c
<1>7. /\ Good(buffer', readIndex', writeIndex')
      /\ Filled(buffer', readIndex', writeIndex') = Filled(c, r, w + Len(data))
  <2>1. PICK v : v = w + Len(data)
    OBVIOUS
  <2>2. Good(c, r, v) /\ AdjustBuffer(c, r, v)
    BY <1>5, <1>6, <2>1
  <2>3. /\ Good(buffer', readIndex', writeIndex')
        /\ Filled(buffer', readIndex', writeIndex') = Filled(c, r, v)
    BY <2>2, AdjustKeeps
  <2> QED
    BY <2>1, <2>3
<1> QED
  BY <1>1, <1>5, <1>7, AppendIsPut

\* Appending keeps the vector in order and puts the bytes behind the queue.
LEMMA WriteToBufferPuts ==
    ASSUME Good(buffer, readIndex, writeIndex), NEW data \in Data, WriteToBuffer(data)
    PROVE  Good(buffer', readIndex', writeIndex') /\ Queue!Put
<1> DEFINE size == (3 * (writeIndex + Len(data))) \div 2
           more == Resized(size)
<1>1. Len(data) \in Nat /\ writeIndex \in Nat /\ readIndex \in Nat /\ readIndex <= writeIndex
      /\ Len(buffer) \in Nat /\ writeIndex <= Len(buffer)
  BY DataType DEF Good
<1>2. CASE Len(data) > Writeable
  <2>1. size \in Nat /\ writeIndex + Len(data) <= size
    BY <1>1
  <2>2. Readable <= size /\ Readable + Len(data) <= size
    BY <1>1, <2>1 DEF Readable
  <2> HIDE DEF size
  <2>3. /\ more.writeIndex = Readable /\ Readable \in Nat
        /\ Good(more.buffer, 0, more.writeIndex) /\ Len(more.buffer) = size
        /\ Filled(more.buffer, 0, more.writeIndex) = Filled(buffer, readIndex, writeIndex)
    BY <2>1, <2>2, ResizeKeeps
  <2>4. /\ buffer' = Copied(more.buffer, more.writeIndex, data)
        /\ readIndex' = 0 /\ writeIndex' = more.writeIndex + Len(data)
    BY <1>2 DEF WriteToBuffer, size
  <2> HIDE DEF more
  <2>5. more.writeIndex + Len(data) <= Len(more.buffer)
    BY <2>2, <2>3
  <2>6. /\ Good(buffer', readIndex', writeIndex')
        /\ Filled(buffer', readIndex', writeIndex') = Filled(buffer, readIndex, writeIndex) \o data
    <3>1. PICK c, u : c = more.buffer /\ u = more.writeIndex
      OBVIOUS
    <3>2. Good(c, 0, u) /\ u + Len(data) <= Len(c)
      BY <2>3, <2>5, <3>1
    <3>3. /\ Good(Copied(c, u, data), 0, u + Len(data))
          /\ Filled(Copied(c, u, data), 0, u + Len(data)) = Filled(c, 0, u) \o data
      BY <3>2, CopiedAppends
    <3>4. buffer' = Copied(c, u, data) /\ readIndex' = 0 /\ writeIndex' = u + Len(data)
      BY <2>4, <3>1
    <3>5. Filled(c, 0, u) = Filled(buffer, readIndex, writeIndex)
      BY <2>3, <3>1, Zenon
    <3> QED
      BY <3>3, <3>4, <3>5, Zenon
  <2> QED
    BY <2>6, AppendIsPut
<1>3. CASE ~(Len(data) > Writeable)
  <2>1. /\ buffer' = Copied(buffer, writeIndex, data)
        /\ readIndex' = readIndex /\ writeIndex' = writeIndex + Len(data)
    BY <1>3 DEF WriteToBuffer
  <2>2. writeIndex + Len(data) <= Len(buffer)
    BY <1>1, <1>3 DEF Writeable
  <2>3. /\ Good(buffer', readIndex', writeIndex')
        /\ Filled(buffer', readIndex', writeIndex') = Filled(buffer, readIndex, writeIndex) \o data
    <3>1. /\ Good(Copied(buffer, writeIndex, data), readIndex, writeIndex + Len(data))
          /\ Filled(Copied(buffer, writeIndex, data), readIndex, writeIndex + Len(data))
                = Filled(buffer, readIndex, writeIndex) \o data
      BY <2>2, CopiedAppends
    <3> QED
      BY <2>1, <3>1, Zenon
  <2> QED
    BY <2>3, AppendIsPut
<1> QED
  BY <1>2, <1>3

\* A successful send, or a packet taken off, takes from the front or nothing.
LEMMA ConsumeTakes ==
    ASSUME Good(buffer, readIndex, writeIndex), SendFails = FALSE,
           NEW n \in -1 .. MaxData, Consume(n)
    PROVE  /\ Good(buffer', readIndex', writeIndex')
           /\ \/ Queue!Take
              \/ SubSeq(buffer', readIndex' + 1, writeIndex') = SubSeq(buffer, readIndex + 1, writeIndex)
<1>1. n \in Int /\ n # -1 /\ n <= Readable /\ RecycleRead(n)
  BY TcpBufferAssumption DEF Consume, TcpBufferAssumption
<1>2. n >= 0
  BY <1>1, TcpBufferAssumption DEF TcpBufferAssumption
<1>3. CASE readIndex + n > Len(buffer)
  BY <1>1, <1>3 DEF RecycleRead, bufferVars
<1>4. CASE ~(readIndex + n > Len(buffer)) /\ n = 0
  <2>1. AdjustBuffer(buffer, readIndex, writeIndex)
    <3>1. readIndex + n = readIndex
      BY <1>4 DEF Good
    <3> QED
      BY <1>1, <1>4, <3>1 DEF RecycleRead
  <2> QED
    BY <2>1, AdjustKeeps DEF Filled
<1>5. CASE ~(readIndex + n > Len(buffer)) /\ n # 0
  <2>1. n \in 1 .. Readable /\ AdjustBuffer(buffer, readIndex + n, writeIndex)
    BY <1>1, <1>2, <1>5 DEF RecycleRead, Good, Readable
  <2> QED
    BY <2>1, DropIsTake
<1> QED
  BY <1>3, <1>4, <1>5

\* ReadFromBuffer takes from the front.
LEMMA ReadFromBufferTakes ==
    ASSUME Good(buffer, readIndex, writeIndex), NEW n \in 1 .. MaxData, ReadFromBuffer(n)
    PROVE  Good(buffer', readIndex', writeIndex') /\ Queue!Take
<1>1. Readable \in Nat /\ Readable > 0 /\ n \in Nat /\ n > 0
  BY TcpBufferAssumption DEF ReadFromBuffer, Good, Readable, TcpBufferAssumption
<1>2. Min({n, Readable}) \in 1 .. Readable
  BY <1>1, MinOfTwo
<1> QED
  BY <1>2, DropIsTake DEF ReadFromBuffer

\* What every step does: the vector stays in order, and the queue is put to,
\* taken from, or left alone.
LEMMA StepIsQueueStep ==
    ASSUME Good(buffer, readIndex, writeIndex), SendFails = FALSE, [BufferNext]_bufferVars
    PROVE  /\ Good(buffer', readIndex', writeIndex')
           /\ \/ Queue!Put \/ Queue!Take
              \/ SubSeq(buffer', readIndex' + 1, writeIndex') = SubSeq(buffer, readIndex + 1, writeIndex)
<1>1. CASE \E data \in Data : Receive(data)
  BY <1>1, ReceivePuts
<1>2. CASE \E data \in Data : WriteToBuffer(data)
  BY <1>2, WriteToBufferPuts
<1>3. CASE \E n \in -1 .. MaxData : Consume(n)
  BY <1>3, ConsumeTakes
<1>4. CASE \E n \in 1 .. MaxData : ReadFromBuffer(n)
  BY <1>4, ReadFromBufferTakes
<1>5. CASE UNCHANGED bufferVars
  BY <1>5 DEF bufferVars
<1> QED
  BY <1>1, <1>2, <1>3, <1>4, <1>5 DEF BufferNext

\* A new buffer is in order and its queue is empty.
LEMMA InitIsQueueInit ==
    ASSUME BufferInit
    PROVE  Good(buffer, readIndex, writeIndex) /\ Queue!Init
<1>1. buffer = [i \in 1 .. InitSize |-> 0] /\ readIndex = 0 /\ writeIndex = 0
      /\ InitSize \in Nat
  BY TcpBufferAssumption DEF BufferInit, TcpBufferAssumption
<1>2. buffer \in Seq(Bytes \cup {0}) /\ Len(buffer) = InitSize
  BY <1>1
<1>3. Good(buffer, readIndex, writeIndex)
  BY <1>1, <1>2 DEF Good
<1>4. SubSeq(buffer, readIndex + 1, writeIndex) = <<>>
  <2>1. readIndex + 1 \in Int /\ writeIndex \in Int /\ writeIndex < readIndex + 1
    BY <1>1
  <2> QED
    BY <2>1, SubSeqEmpty
<1> QED
  BY <1>3, <1>4 DEF Queue!Init

----------------------------------------------------------------------------

\* The indices stay in the vector and in their order, and every byte between
\* them was written there, whatever the sizes: tcp_buffer.cpp:33-108 as
\* TcpConnection::Input and Output use it.  It needs that a send does not fail.
THEOREM BufferTypeCorrect ==
    ASSUME SendFails = FALSE
    PROVE  BufferSpec => []BufferTypeOK
<1> DEFINE InOrder == Good(buffer, readIndex, writeIndex)
<1>1. BufferInit => InOrder
  BY InitIsQueueInit
<1>2. InOrder /\ [BufferNext]_bufferVars => InOrder'
  BY StepIsQueueStep
<1>3. InOrder => BufferTypeOK
  BY TypeIsGood
<1> QED
  BY <1>1, <1>2, <1>3, PTL DEF BufferSpec

\* The buffer implements the queue of bytes: no resize, no move to the front
\* and no index that moves loses, doubles or reorders a byte between the
\* receiver and the codec, or between the codec and the sender.
THEOREM Implements ==
    ASSUME SendFails = FALSE
    PROVE  BufferSpec => ImplementsQueue
<1> DEFINE QueueStep == [Queue!Put \/ Queue!Take]_(SubSeq(buffer, readIndex + 1, writeIndex))
<1>1. BufferInit => Queue!Init
  BY InitIsQueueInit
<1>2. BufferTypeOK /\ [BufferNext]_bufferVars => QueueStep
  BY TypeIsGood, StepIsQueueStep
<1>3. BufferSpec => []BufferTypeOK
  BY BufferTypeCorrect
<1>4. BufferSpec => Queue!Init /\ [][Queue!Put \/ Queue!Take]_(SubSeq(buffer, readIndex + 1, writeIndex))
  BY <1>1, <1>2, <1>3, PTL DEF BufferSpec
<1> QED
  BY <1>4, PTL DEF ImplementsQueue, Queue!Spec

----------------------------------------------------------------------------
(* Round robin.                                                            *)

\* The places are places in the lists they were chosen from, the index is the
\* last of them, and a turn follows the one before it.
TurnInv ==
    /\ index \in Nat
    /\ turns \in Seq([list : Lists, place : Nat])
    /\ index = IF Len(turns) = 0 THEN 0 ELSE turns[Len(turns)].place
    /\ InTurn

\* A place is followed by the next, and the last by the first.
LEMMA NextPlace ==
    ASSUME NEW n \in Nat \ {0}, NEW i \in 1 .. n
    PROVE  (i % n) + 1 = (IF i >= n THEN 0 ELSE i) + 1
<1>1. CASE i = n
  <2>1. n % n = 0
    OBVIOUS
  <2> QED
    BY <1>1, <2>1
<1>2. CASE i < n
  <2>1. i % n = i
    BY <1>2
  <2> QED
    BY <1>2, <2>1
<1> QED
  BY <1>1, <1>2

\* The lists that are offered.
LEMMA ListShape ==
    ASSUME NEW list \in Lists
    PROVE  /\ list \in Seq(Range(list)) /\ Len(list) \in Nat \ {0}
           /\ DOMAIN list = 1 .. Len(list)
<1>1. list \in Seq(Range(list)) /\ list # <<>>
  BY BalanceAssumption
<1> QED
  BY <1>1, EmptySeq, LenProperties

\* SelectRound keeps the turns in order.
LEMMA RoundKeepsTurns ==
    ASSUME TurnInv, NEW list \in Lists, SelectRound(list)
    PROVE  TurnInv'
<1> DEFINE i == IF index >= Len(list) THEN 0 ELSE index
           turn == [list |-> list, place |-> i + 1]
           n == Len(turns)
<1>1. Len(list) \in Nat \ {0} /\ DOMAIN list = 1 .. Len(list)
  BY ListShape
<1>2. i \in Nat /\ i + 1 \in 1 .. Len(list) /\ turn \in [list : Lists, place : Nat]
  BY <1>1 DEF TurnInv
<1>3. turns' = Append(turns, turn) /\ index' = i + 1
  BY DEF SelectRound
<1>4. /\ n \in Nat /\ DOMAIN turns = 1 .. n /\ Len(turns') = n + 1 /\ DOMAIN turns' = 1 .. (n + 1)
      /\ turns' \in Seq([list : Lists, place : Nat])
      /\ \A k \in 1 .. n : turns'[k] = turns[k]
      /\ turns'[n + 1] = turn
  BY <1>2, <1>3, AppendProperties, LenProperties DEF TurnInv
<1>5. \A k \in DOMAIN turns' : turns'[k].place \in DOMAIN turns'[k].list
  <2> SUFFICES ASSUME NEW k \in 1 .. (n + 1) PROVE turns'[k].place \in DOMAIN turns'[k].list
    BY <1>4
  <2>1. CASE k \in 1 .. n
    <3>1. turns[k].place \in DOMAIN turns[k].list /\ turns'[k] = turns[k]
      BY <1>4, <2>1 DEF TurnInv, InTurn
    <3> QED
      BY <3>1
  <2>2. CASE k = n + 1
    <3>1. turns'[k].place = i + 1 /\ turns'[k].list = list
      BY <1>4, <2>2
    <3> QED
      BY <1>1, <1>2, <3>1
  <2> QED
    BY <1>4, <2>1, <2>2
<1>6. ASSUME NEW k \in 2 .. (n + 1), Len(turns'[k].list) = Len(turns'[k - 1].list)
      PROVE  turns'[k].place = (turns'[k - 1].place % Len(turns'[k].list)) + 1
  <2>1. CASE k <= n
    <3>1. turns'[k] = turns[k] /\ turns'[k - 1] = turns[k - 1]
      BY <1>4, <2>1
    <3> QED
      BY <1>6, <2>1, <3>1 DEF TurnInv, InTurn
  <2>2. CASE k = n + 1
    <3>1. k - 1 = n /\ n \in 1 .. n /\ turns'[k - 1] = turns[n] /\ turns'[k] = turn
      BY <1>4, <2>2
    <3>2. turns[n].list \in Lists /\ turns[n].place = index /\ index \in DOMAIN turns[n].list
      <4>1. turns[n] \in [list : Lists, place : Nat]
        BY <1>4, <3>1, ElementOfSeq DEF TurnInv
      <4>2. n # 0 /\ turns[n].place = index
        BY <1>4, <3>1 DEF TurnInv
      <4>3. turns[n].place \in DOMAIN turns[n].list
        BY <1>4, <3>1 DEF TurnInv, InTurn
      <4> QED
        BY <4>1, <4>2, <4>3
    <3>3. index \in 1 .. Len(list)
      BY <1>6, <3>1, <3>2, ListShape
    <3>4. (index % Len(list)) + 1 = i + 1
      BY <1>1, <3>3, NextPlace
    <3> QED
      BY <3>1, <3>2, <3>4
  <2> QED
    BY <1>4, <2>1, <2>2
<1>7. InTurn'
  BY <1>4, <1>5, <1>6 DEF InTurn
<1>8. index' \in Nat /\ index' = turns'[Len(turns')].place /\ Len(turns') # 0
  BY <1>2, <1>3, <1>4
<1> QED
  BY <1>4, <1>7, <1>8 DEF TurnInv

----------------------------------------------------------------------------
(* Consistent hashing.                                                     *)

\* The place in the list of the owner of a point.
Owns(list, point, i) ==
    /\ i \in DOMAIN list
    /\ \E r \in 1 .. Replicas : RingPoint[<<list[i], r>>] = point
    /\ \A j \in i + 1 .. Len(list) : \A r \in 1 .. Replicas : RingPoint[<<list[j], r>>] # point

\* A point of the ring has one owner.
LEMMA OneOwner ==
    ASSUME NEW list \in Lists, NEW point, NEW i, NEW j, Owns(list, point, i), Owns(list, point, j)
    PROVE  i = j
<1>1. DOMAIN list = 1 .. Len(list) /\ Len(list) \in Nat
  BY ListShape
<1>2. i \in 1 .. Len(list) /\ j \in 1 .. Len(list)
  BY <1>1 DEF Owns
<1>3. ~(i < j) /\ ~(j < i)
  BY <1>1, <1>2 DEF Owns
<1> QED
  BY <1>2, <1>3

\* PointOwner finds it.
LEMMA OwnerIsPointOwner ==
    ASSUME NEW list \in Lists, NEW point, NEW i, Owns(list, point, i)
    PROVE  PointOwner(list, point) = list[i]
<1> DEFINE k == CHOOSE k \in DOMAIN list :
                   /\ \E r \in 1 .. Replicas : RingPoint[<<list[k], r>>] = point
                   /\ \A j \in k + 1 .. Len(list) : \A r \in 1 .. Replicas : RingPoint[<<list[j], r>>] # point
<1>1. Owns(list, point, k)
  BY DEF Owns
<1>2. k = i
  BY <1>1, OneOwner
<1> QED
  BY <1>2 DEF PointOwner

\* Every point has an owner, and it is an address of the list.
LEMMA PointHasOwner ==
    ASSUME NEW list \in Lists, NEW point \in Points(list)
    PROVE  \E i : Owns(list, point, i)
<1> DEFINE T == {i \in 1 .. Len(list) : \E r \in 1 .. Replicas : RingPoint[<<list[i], r>>] = point}
<1>1. DOMAIN list = 1 .. Len(list) /\ Len(list) \in Nat
  BY ListShape
<1>2. PICK a \in Range(list), r \in 1 .. Replicas : point = RingPoint[<<a, r>>]
  BY DEF Points
<1>3. PICK i \in 1 .. Len(list) : list[i] = a
  BY <1>1 DEF Range
<1>4. T \in SUBSET (1 .. Len(list)) /\ T # {}
  BY <1>2, <1>3
<1>5. PICK m \in T : \A k \in T : k <= m
  <2> HIDE DEF T
  <2> QED
    BY <1>1, <1>4, Largest
<1>6. ASSUME NEW j \in m + 1 .. Len(list), NEW q \in 1 .. Replicas
      PROVE  RingPoint[<<list[j], q>>] # point
  <2>1. j \in 1 .. Len(list) /\ ~(j <= m)
    BY <1>1, <1>5
  <2>2. j \notin T
    BY <1>5, <2>1
  <2> QED
    BY <2>1, <2>2
<1>7. m \in DOMAIN list /\ \E q \in 1 .. Replicas : RingPoint[<<list[m], q>>] = point
  BY <1>1, <1>5
<1> QED
  BY <1>6, <1>7 DEF Owns

\* The points are numbers, and there are some.
LEMMA PointsAreNumbers ==
    ASSUME NEW list \in Lists
    PROVE  Points(list) \in SUBSET Nat /\ Points(list) # {}
<1>1. 1 \in DOMAIN list /\ 1 \in 1 .. Replicas
  BY ListShape, BalanceAssumption
<1>2. list[1] \in Range(list)
  BY <1>1 DEF Range
<1>3. RingPoint[<<list[1], 1>>] \in Points(list)
  BY <1>1, <1>2 DEF Points
<1>4. \A a \in Range(list) : \A r \in 1 .. Replicas : RingPoint[<<a, r>>] \in Nat
  BY BalanceAssumption
<1>5. ASSUME NEW p \in Points(list) PROVE p \in Nat
  <2>1. PICK a \in Range(list), r \in 1 .. Replicas : p = RingPoint[<<a, r>>]
    BY DEF Points
  <2> QED
    BY <1>4, <2>1
<1> QED
  BY <1>3, <1>5

\* The points that a key looks for its address in.
Sought(list, key) ==
    LET behind == {p \in Points(list) : p >= KeyPoint[key]}
    IN  IF behind # {} THEN behind ELSE Points(list)

\* What is chosen from is a set of points of the list, and not empty.
LEMMA SoughtShape ==
    ASSUME NEW list \in Lists, NEW key \in Keys
    PROVE  /\ Sought(list, key) \in SUBSET Nat /\ Sought(list, key) # {}
           /\ Sought(list, key) \subseteq Points(list)
           /\ SelectForKey(list, key) = PointOwner(list, Min(Sought(list, key)))
BY PointsAreNumbers DEF Sought, SelectForKey

\* What is chosen is an address of the list that the ring was made of.
LEMMA ChoiceIsOffered ==
    ASSUME NEW list \in Lists, NEW key \in Keys
    PROVE  \E i : Owns(list, Min(Sought(list, key)), i) /\ SelectForKey(list, key) = list[i]
<1>1. Min(Sought(list, key)) \in Points(list)
  BY SoughtShape, MinOfSet
<1>2. PICK i : Owns(list, Min(Sought(list, key)), i)
  BY <1>1, PointHasOwner
<1> QED
  BY <1>2, SoughtShape, OwnerIsPointOwner

\* A key keeps its address when other addresses leave the list.
LEMMA KeyKeeps ==
    ASSUME NEW x \in Lists, NEW y \in Lists, NEW key \in Keys,
           Remain(x, y), SelectForKey(x, key) \in Range(y)
    PROVE  SelectForKey(y, key) = SelectForKey(x, key)
<1> DEFINE p == Min(Sought(x, key))
<1>1. PICK place \in [DOMAIN y -> DOMAIN x] :
        /\ \A i, j \in DOMAIN y : i < j => place[i] < place[j]
        /\ \A i \in DOMAIN y : y[i] = x[place[i]]
        /\ \A i \in DOMAIN x : x[i] \in Range(y) => i \in Range(place)
  BY DEF Remain
<1>2. PICK i : Owns(x, p, i) /\ SelectForKey(x, key) = x[i]
  BY ChoiceIsOffered
<1>3. PICK j \in DOMAIN y : place[j] = i
  BY <1>1, <1>2 DEF Owns, Range
<1>4. y[j] = x[i]
  BY <1>1, <1>3
<1>5. /\ DOMAIN x = 1 .. Len(x) /\ Len(x) \in Nat /\ DOMAIN y = 1 .. Len(y) /\ Len(y) \in Nat
      /\ \A k \in 1 .. Len(y) : place[k] \in 1 .. Len(x)
  BY <1>1, ListShape
<1>6. Points(y) \subseteq Points(x)
  <2>1. Range(y) \subseteq Range(x)
    BY <1>1 DEF Range
  <2> QED
    BY <2>1 DEF Points
<1>7. p \in Points(y)
  <2> HIDE DEF p
  <2>1. PICK r \in 1 .. Replicas : RingPoint[<<y[j], r>>] = p
    BY <1>2, <1>4 DEF Owns
  <2>2. y[j] \in Range(y)
    BY <1>3 DEF Range
  <2> QED
    BY <2>1, <2>2 DEF Points
<1>8. p \in Sought(x, key) /\ \A m \in Sought(x, key) : p <= m
  BY SoughtShape, MinOfSet
<1>9. p \in Sought(y, key) /\ Sought(y, key) \subseteq Sought(x, key)
  <2> HIDE DEF p
  <2> QED
    BY <1>6, <1>7, <1>8 DEF Sought
<1>10. Min(Sought(y, key)) = p
  <2> HIDE DEF p
  <2> QED
    BY <1>8, <1>9, SoughtShape, MinIsOne
<1>11. Owns(y, p, j)
  <2> HIDE DEF p
  <2>1. ASSUME NEW k \in j + 1 .. Len(y), NEW r \in 1 .. Replicas
        PROVE  RingPoint[<<y[k], r>>] # p
    <3>1. k \in DOMAIN y /\ j < k
      BY <1>3, <1>5
    <3>2. place[k] \in i + 1 .. Len(x) /\ y[k] = x[place[k]]
      BY <1>1, <1>3, <1>5, <3>1
    <3> QED
      BY <1>2, <3>2 DEF Owns
  <2> QED
    BY <1>2, <1>3, <1>4, <2>1 DEF Owns
<1> QED
  BY <1>2, <1>4, <1>10, <1>11, SoughtShape, OwnerIsPointOwner

\* One ring is kept; what is chosen without a collision is what the offered
\* list's own ring gives.
ChoiceInv ==
    /\ \A s, t \in selector : s = t
    /\ \A c \in choices :
          /\ c.list \in Lists /\ c.key \in Keys
          /\ ~c.collision => c.address = SelectForKey(c.list, c.key)

\* SelectHash chooses from the ring of the list it is offered.
LEMMA HashKeepsChoices ==
    ASSUME ChoiceInv, NEW list \in Lists, NEW key \in Keys, SelectHash(list, key)
    PROVE  ChoiceInv'
<1>1. PICK s \in selector' :
        choices' = choices \cup {[list |-> list, key |-> key, address |-> SelectForKey(s.list, key),
                                  collision |-> s.list # list /\ s.hash = HashCode(list)]}
  BY DEF SelectHash
<1>2. selector' = MakeSelector(list)
  BY DEF SelectHash
<1>3. \A t, u \in selector' : t = u
  BY <1>2 DEF ChoiceInv, MakeSelector
<1>4. s.list = list \/ s.hash = HashCode(list)
  <2> DEFINE made == [list |-> list, hash |-> Kept(HashCode(list))]
  <2>1. CASE \E t \in selector : t.hash = HashCode(list)
    BY <1>1, <1>2, <2>1 DEF ChoiceInv, MakeSelector
  <2>2. CASE ~\E t \in selector : t.hash = HashCode(list)
    <3>1. s = made
      BY <1>1, <1>2, <2>2 DEF MakeSelector
    <3> QED
      BY <3>1
  <2> QED
    BY <2>1, <2>2
<1>5. ASSUME NEW c \in choices'
      PROVE  /\ c.list \in Lists /\ c.key \in Keys
             /\ ~c.collision => c.address = SelectForKey(c.list, c.key)
  <2>1. CASE c \in choices
    BY <2>1 DEF ChoiceInv
  <2>2. CASE c = [list |-> list, key |-> key, address |-> SelectForKey(s.list, key),
                  collision |-> s.list # list /\ s.hash = HashCode(list)]
    <3>1. /\ c.list = list /\ c.key = key /\ c.address = SelectForKey(s.list, key)
          /\ c.collision = (s.list # list /\ s.hash = HashCode(list))
      BY <2>2
    <3> QED
      BY <1>4, <3>1
  <2> QED
    BY <1>1, <1>5, <2>1, <2>2
<1> QED
  BY <1>3, <1>5 DEF ChoiceInv

\* The invariant says what the strategies promise.
LEMMA InvIsSound ==
    ASSUME TurnInv, ChoiceInv
    PROVE  BalanceSound
<1>1. InTurn
  BY DEF TurnInv
<1>2. KeepsItsAddress
  <2> SUFFICES ASSUME NEW c \in choices, NEW d \in choices, ~c.collision, ~d.collision,
                      c.key = d.key, c.address \in Range(d.list), Remain(c.list, d.list)
               PROVE  d.address = c.address
    BY DEF KeepsItsAddress
  <2>1. /\ c.list \in Lists /\ d.list \in Lists /\ c.key \in Keys
        /\ c.address = SelectForKey(c.list, c.key) /\ d.address = SelectForKey(d.list, c.key)
    BY DEF ChoiceInv
  <2> QED
    BY <2>1, KeyKeeps
<1>3. ChosenIsOffered
  <2> SUFFICES ASSUME NEW c \in choices, ~c.collision PROVE c.address \in Range(c.list)
    BY DEF ChosenIsOffered
  <2>1. c.list \in Lists /\ c.key \in Keys /\ c.address = SelectForKey(c.list, c.key)
    BY DEF ChoiceInv
  <2>2. PICK i \in DOMAIN c.list : c.address = c.list[i]
    BY <2>1, ChoiceIsOffered DEF Owns
  <2> QED
    BY <2>2 DEF Range
<1> QED
  BY <1>1, <1>2, <1>3 DEF BalanceSound

----------------------------------------------------------------------------

\* Round robin's place is a place of the list it is offered and follows the one
\* before it, a key keeps its address when others leave the list, and what is
\* chosen is offered: load_balance.hpp:44-60 and 118-174, for every set of lists,
\* every hash, every ring and any number of choices, unless two lists have the
\* same hash.
THEOREM BalanceSoundHolds ==
    BalanceInit /\ [][BalanceNext]_balanceVars => []BalanceSound
<1> DEFINE Inv == TurnInv /\ ChoiceInv
<1>1. BalanceInit => Inv
  BY DEF BalanceInit, TurnInv, ChoiceInv, InTurn
<1>2. Inv /\ [BalanceNext]_balanceVars => Inv'
  <2> SUFFICES ASSUME TurnInv, ChoiceInv, [BalanceNext]_balanceVars PROVE TurnInv' /\ ChoiceInv'
    OBVIOUS
  <2>1. ASSUME NEW list \in Lists, SelectRound(list) PROVE TurnInv' /\ ChoiceInv'
    <3>1. TurnInv'
      BY <2>1, RoundKeepsTurns
    <3>2. UNCHANGED <<selector, choices>>
      BY <2>1 DEF SelectRound
    <3> QED
      BY <3>1, <3>2 DEF ChoiceInv
  <2>2. ASSUME NEW list \in Lists, NEW key \in Keys, SelectHash(list, key) PROVE TurnInv' /\ ChoiceInv'
    <3>1. ChoiceInv'
      BY <2>2, HashKeepsChoices
    <3>2. UNCHANGED <<index, turns>>
      BY <2>2 DEF SelectHash
    <3> QED
      BY <3>1, <3>2 DEF TurnInv, InTurn
  <2>3. CASE UNCHANGED balanceVars
    BY <2>3 DEF balanceVars, TurnInv, ChoiceInv, InTurn
  <2> QED
    BY <2>1, <2>2, <2>3 DEF BalanceNext
<1>3. Inv => BalanceSound
  BY InvIsSound
<1> QED
  BY <1>1, <1>2, <1>3, PTL

----------------------------------------------------------------------------
\* MsgReq: the values of the beginnings of a number are what they are made of.
LEMMA ValuesAreMade ==
    ASSUME NEW n \in Seq(Nat), NEW base \in Nat, base = Nine + 1
    PROVE  /\ ValueTo(n) \in [0 .. Len(n) -> Nat] /\ ValueTo(n)[0] = 0
           /\ \A i \in 1 .. Len(n) : ValueTo(n)[i] = ValueTo(n)[i - 1] * base + n[i]
<1> DEFINE Made(g, k) == \A i \in 0 .. k : g[i] = IF i = 0 THEN 0 ELSE g[i - 1] * base + n[i]
           Fits == {k \in 0 .. Len(n) : \E g \in [0 .. k -> Nat] : Made(g, k)}
<1>1. Len(n) \in Nat /\ \A i \in 1 .. Len(n) : n[i] \in Nat
  BY ElementOfSeq
<1>2. 0 \in Fits
  <2> DEFINE g == [i \in 0 .. 0 |-> 0]
  <2>1. g \in [0 .. 0 -> Nat] /\ Made(g, 0)
    OBVIOUS
  <2>2. \E h \in [0 .. 0 -> Nat] : Made(h, 0)
    <3> HIDE DEF Made, g
    <3> QED
      BY <2>1
  <2> HIDE DEF Made
  <2> QED
    BY <1>1, <2>2
<1>3. \A i \in 1 .. Len(n) : i - 1 \in Fits => i \in Fits
  <2> SUFFICES ASSUME NEW k \in 1 .. Len(n), k - 1 \in Fits PROVE k \in Fits
    OBVIOUS
  <2>0. PICK g \in [0 .. k - 1 -> Nat] : Made(g, k - 1)
    <3> HIDE DEF Made
    <3> QED
      OBVIOUS
  <2> DEFINE h == [i \in 0 .. k |-> IF i < k THEN g[i] ELSE g[k - 1] * base + n[k]]
  <2>1. g[k - 1] * base + n[k] \in Nat
    <3>1. g[k - 1] \in Nat /\ n[k] \in Nat
      BY <1>1, <2>0
    <3>2. \A x, y \in Nat : x * y \in Nat /\ x + y \in Nat
      OBVIOUS
    <3> QED
      BY <3>1, <3>2
  <2>2. h \in [0 .. k -> Nat]
    <3>1. \A i \in 0 .. k : i < k => g[i] \in Nat
      BY <1>1, <2>0
    <3> HIDE DEF Made
    <3> QED
      BY <2>1, <3>1
  <2>3. h[k] = h[k - 1] * base + n[k]
    BY <1>1
  <2>4. \A i \in 0 .. k - 1 : h[i] = g[i] /\ (i # 0 => i - 1 \in 0 .. k - 1 /\ h[i - 1] = g[i - 1])
    BY <1>1
  <2>5. \A i \in 0 .. k - 1 : h[i] = IF i = 0 THEN 0 ELSE h[i - 1] * base + n[i]
    BY <2>0, <2>4
  <2>6. \A i \in 0 .. k : i = k \/ i \in 0 .. k - 1
    BY <1>1
  <2>7. k # 0
    BY <1>1
  <2> HIDE DEF h
  <2>8. Made(h, k)
    BY <2>3, <2>5, <2>6, <2>7
  <2>9. k \in 0 .. Len(n)
    BY <1>1
  <2> HIDE DEF Made
  <2>10. \E f \in [0 .. k -> Nat] : Made(f, k)
    BY <2>2, <2>8
  <2> QED
    BY <2>9, <2>10
<1>4. Fits = 0 .. Len(n)
  <2>1. Fits \in SUBSET (0 .. Len(n))
    OBVIOUS
  <2> HIDE DEF Fits
  <2> QED
    BY <1>1, <1>2, <1>3, <2>1, UpTo
<1>5. PICK g \in [0 .. Len(n) -> Nat] : Made(g, Len(n))
  BY SMTT(30), <1>1, <1>4
<1>6. g = [i \in 0 .. Len(n) |-> IF i = 0 THEN 0 ELSE g[i - 1] * base + n[i]]
  BY <1>5
<1>7. ValueTo(n) = [i \in 0 .. Len(n) |-> IF i = 0 THEN 0 ELSE ValueTo(n)[i - 1] * base + n[i]]
  <2> DEFINE IsMade(v) == v = [i \in 0 .. Len(n) |-> IF i = 0 THEN 0 ELSE v[i - 1] * (Nine + 1) + n[i]]
  <2>1. IsMade(g)
    BY <1>6
  <2>2. ValueTo(n) = CHOOSE v : IsMade(v)
    BY DEF ValueTo
  <2> HIDE DEF IsMade
  <2>3. IsMade(ValueTo(n))
    BY <2>1, <2>2
  <2> QED
    BY <2>3 DEF IsMade
<1> DEFINE v == ValueTo(n)
<1> HIDE DEF v
<1>8. \A i \in 0 .. Len(n) : v[i] = IF i = 0 THEN 0 ELSE v[i - 1] * base + n[i]
  BY <1>7 DEF v
<1>9. \A i \in 0 .. Len(n) : v[i] \in Nat
  <2> DEFINE Numbers == {i \in 0 .. Len(n) : v[i] \in Nat}
  <2>1. 0 \in Numbers
    BY <1>1, <1>8
  <2>2. \A i \in 1 .. Len(n) : i - 1 \in Numbers => i \in Numbers
    <3> SUFFICES ASSUME NEW i \in 1 .. Len(n), v[i - 1] \in Nat PROVE v[i] \in Nat
      BY <1>1
    <3>1. v[i] = v[i - 1] * base + n[i] /\ n[i] \in Nat
      BY <1>1, <1>8
    <3>2. \A x, y \in Nat : x * y \in Nat /\ x + y \in Nat
      OBVIOUS
    <3>3. v[i - 1] \in Nat
      OBVIOUS
    <3>4. v[i - 1] * base \in Nat
      BY <3>2, <3>3
    <3> QED
      BY <3>1, <3>2, <3>4
  <2>3. Numbers \in SUBSET (0 .. Len(n))
    OBVIOUS
  <2>4. Numbers = 0 .. Len(n)
    <3> HIDE DEF Numbers
    <3> QED
      BY <1>1, <2>1, <2>2, <2>3, UpTo
  <2> QED
    BY <2>4
<1>10. v = [i \in 0 .. Len(n) |-> v[i]]
  BY <1>7 DEF v
<1> QED
  BY <1>1, <1>8, <1>9, <1>10 DEF v

\* MsgReq: a number with its last digit below nine counted up, and those behind
\* it set to zero, is the next number.
LEMMA SuccessorValue ==
    ASSUME NEW n \in Seq(Nat), NEW s \in Seq(Nat), Nine \in Nat, Len(s) = Len(n),
           NEW m \in 1 .. Len(n),
           s[m] = n[m] + 1,
           \A i \in 1 .. m - 1 : s[i] = n[i],
           \A i \in m + 1 .. Len(n) : n[i] = Nine /\ s[i] = 0
    PROVE  Value(s) = Value(n) + 1
<1> DEFINE base == Nine + 1
           v == ValueTo(n)
           w == ValueTo(s)
           Same == {k \in 0 .. Len(n) : w[k] = IF k < m THEN v[k] ELSE v[k] + 1}
<1>1. base \in Nat /\ Len(n) \in Nat /\ m \in Nat
  OBVIOUS
<1>2. /\ \A i \in 0 .. Len(n) : v[i] \in Nat
      /\ v[0] = 0 /\ \A i \in 1 .. Len(n) : v[i] = v[i - 1] * base + n[i]
  <2> HIDE DEF base
  <2>1. base = Nine + 1
    BY DEF base
  <2> QED
    BY <1>1, <2>1, ValuesAreMade
<1>3. /\ \A i \in 0 .. Len(n) : w[i] \in Nat
      /\ w[0] = 0 /\ \A i \in 1 .. Len(n) : w[i] = w[i - 1] * base + s[i]
  <2> HIDE DEF base
  <2>1. base = Nine + 1
    BY DEF base
  <2> QED
    BY <1>1, <2>1, ValuesAreMade
<1>4. \A i \in 1 .. Len(n) : n[i] \in Nat
  BY ElementOfSeq
<1> HIDE DEF v, w
<1>5. 0 \in Same
  BY <1>1, <1>2, <1>3
<1>6. \A k \in 1 .. Len(n) : k - 1 \in Same => k \in Same
  <2> SUFFICES ASSUME NEW k \in 1 .. Len(n), w[k - 1] = IF k - 1 < m THEN v[k - 1] ELSE v[k - 1] + 1
               PROVE  w[k] = IF k < m THEN v[k] ELSE v[k] + 1
    BY <1>1
  <2>1. /\ v[k - 1] \in Nat /\ v[k] = v[k - 1] * base + n[k] /\ w[k] = w[k - 1] * base + s[k]
        /\ n[k] \in Nat
    BY <1>1, <1>2, <1>3, <1>4
  <2>2. CASE k < m
    <3>1. w[k - 1] = v[k - 1] /\ s[k] = n[k]
      BY <1>1, <2>2
    <3> HIDE DEF base
    <3> QED
      BY <2>1, <2>2, <3>1
  <2>3. CASE k = m
    <3>1. w[k - 1] = v[k - 1] /\ s[k] = n[k] + 1
      BY <1>1, <2>3
    <3>2. \A x, y \in Nat : x * base + (y + 1) = (x * base + y) + 1
      BY <1>1
    <3> HIDE DEF base
    <3>3. w[k] = v[k] + 1
      BY <2>1, <3>1, <3>2
    <3> QED
      BY <2>3, <3>3, <1>1
  <2>4. CASE k > m
    <3>1. w[k - 1] = v[k - 1] + 1 /\ s[k] = 0 /\ n[k] = Nine
      BY <1>1, <2>4
    <3>2. \A x \in Nat : (x + 1) * base + 0 = (x * base + Nine) + 1
      OBVIOUS
    <3> HIDE DEF base
    <3>3. w[k] = v[k] + 1
      BY <2>1, <3>1, <3>2
    <3> QED
      BY <2>4, <3>3, <1>1
  <2> QED
    BY <1>1, <2>2, <2>3, <2>4
<1>7. Same = 0 .. Len(n)
  <2>1. Same \in SUBSET (0 .. Len(n))
    OBVIOUS
  <2> HIDE DEF Same
  <2> QED
    BY <1>1, <1>5, <1>6, <2>1, UpTo
<1>8. Len(n) \in Same /\ ~(Len(n) < m)
  BY SMTT(30), <1>1, <1>7
<1>9. w[Len(n)] = v[Len(n)] + 1
  BY <1>8
<1> QED
  BY <1>9 DEF Value, v, w

\* MsgReq: a number is none, or has its length and digits; the largest is all nines.
NumberOK ==
    \/ number = <<>>
    \/ /\ number \in [1 .. MsgReqLen -> Digits]
       /\ largest = [i \in 1 .. MsgReqLen |-> Nine]

\* The digits are the numbers up to nine.
LEMMA DigitsUpToNine == Nine \in Nat /\ Digits = 0 .. Nine /\ MsgReqLen \in Nat
BY MsgReqAssumption DEF MsgReqAssumption, Nine

\* Counting up gives the next number, with the same length and digits.
LEMMA IncrementCounts ==
    ASSUME NumberOK, Increment
    PROVE  /\ number' \in [1 .. MsgReqLen -> Digits] /\ largest = [i \in 1 .. MsgReqLen |-> Nine]
           /\ Value(number') = Value(number) + 1 /\ Len(number') = Len(number)
<1> DEFINE low == {i \in DOMAIN number : number[i] # Nine}
<1>1. number \in [1 .. MsgReqLen -> Digits] /\ largest = [i \in 1 .. MsgReqLen |-> Nine]
  BY DEF NumberOK, Increment
<1>2. /\ number # largest
      /\ number' = [i \in DOMAIN number |->
                     IF i = Max(low) THEN number[i] + 1 ELSE IF i > Max(low) THEN 0 ELSE number[i]]
  BY DEF Increment
<1>3. DOMAIN number = 1 .. MsgReqLen /\ \A i \in 1 .. MsgReqLen : number[i] \in 0 .. Nine
  BY <1>1, DigitsUpToNine
<1>4. low \in SUBSET (1 .. MsgReqLen)
  BY <1>3
<1>5. low # {}
  <2> SUFFICES ASSUME \A i \in 1 .. MsgReqLen : number[i] = Nine PROVE FALSE
    BY <1>3
  <2>1. number = [i \in 1 .. MsgReqLen |-> number[i]]
    BY <1>1
  <2>2. number = largest
    BY <1>1, <2>1
  <2> QED
    BY <1>2, <2>2
<1> DEFINE m == Max(low)
<1>6. m \in low /\ \A i \in low : i <= m
  <2> HIDE DEF low
  <2>1. PICK n \in low : \A k \in low : k <= n
    BY <1>4, <1>5, DigitsUpToNine, Largest
  <2> QED
    BY <2>1 DEF Max
<1> HIDE DEF m
<1>7. /\ m \in 1 .. MsgReqLen /\ number[m] # Nine
      /\ \A i \in 1 .. MsgReqLen : i > m => number[i] = Nine
  <2>1. m \in 1 .. MsgReqLen /\ number[m] # Nine
    BY <1>3, <1>6
  <2>2. ASSUME NEW i \in 1 .. MsgReqLen, i > m, number[i] # Nine PROVE FALSE
    BY <1>3, <1>6, <2>1, <2>2, DigitsUpToNine
  <2> QED
    BY <2>1, <2>2
<1>8. number' = [i \in 1 .. MsgReqLen |->
                     IF i = m THEN number[i] + 1 ELSE IF i > m THEN 0 ELSE number[i]]
  BY <1>2, <1>3 DEF m
<1> HIDE DEF low
<1>9. number' \in [1 .. MsgReqLen -> Digits]
  <2>1. \A i \in 1 .. MsgReqLen :
          (IF i = m THEN number[i] + 1 ELSE IF i > m THEN 0 ELSE number[i]) \in 0 .. Nine
    BY <1>3, <1>7, DigitsUpToNine
  <2> QED
    BY <1>8, <2>1, DigitsUpToNine
<1>10. /\ number \in Seq(Nat) /\ Len(number) = MsgReqLen
       /\ number' \in Seq(Nat) /\ Len(number') = MsgReqLen
  <2>1. \A f \in [1 .. MsgReqLen -> Digits] : f \in [1 .. MsgReqLen -> Nat]
    BY DigitsUpToNine
  <2>2. \A f \in [1 .. MsgReqLen -> Nat] : f \in Seq(Nat) /\ Len(f) = MsgReqLen
    BY DigitsUpToNine
  <2> QED
    BY <1>1, <1>9, <2>1, <2>2
<1>11. /\ number'[m] = number[m] + 1
       /\ \A i \in 1 .. m - 1 : number'[i] = number[i]
       /\ \A i \in m + 1 .. Len(number) : number[i] = Nine /\ number'[i] = 0
  <2>1. number'[m] = number[m] + 1
    BY <1>7, <1>8
  <2>2. \A i \in 1 .. m - 1 : i \in 1 .. MsgReqLen /\ i # m /\ ~(i > m)
    BY <1>7, DigitsUpToNine
  <2>3. \A i \in m + 1 .. MsgReqLen : i \in 1 .. MsgReqLen /\ i # m /\ i > m
    BY <1>7, DigitsUpToNine
  <2> QED
    BY <1>7, <1>8, <1>10, <2>1, <2>2, <2>3
<1>12. Value(number') = Value(number) + 1
  BY <1>7, <1>10, <1>11, DigitsUpToNine, SuccessorValue
<1> QED
  BY <1>1, <1>9, <1>10, <1>12

\* A step keeps the shape of the number and counts up.
LEMMA GenMsgNumberCounts ==
    ASSUME NumberOK, [GenMsgNumber]_msgVars
    PROVE  /\ NumberOK'
           /\ number # number' /\ number # <<>> /\ number # largest
              => Value(number') = Value(number) + 1 /\ Len(number') = Len(number)
<1>1. CASE Increment
  <2>1. largest' = largest
    BY <1>1 DEF Increment
  <2> QED
    BY <1>1, <2>1, IncrementCounts DEF NumberOK
<1>2. CASE Randomize
  BY <1>2 DEF Randomize, NumberOK
<1>3. CASE UNCHANGED msgVars
  BY <1>3 DEF msgVars, NumberOK
<1> QED
  BY <1>1, <1>2, <1>3 DEF GenMsgNumber

\* Between two random starts a thread's message numbers count up one by one
\* (msg_req.cpp:43-54): for every number of digits and every length.
THEOREM CountsUpHolds == MsgInit /\ [][GenMsgNumber]_msgVars => CountsUp
<1> DEFINE Counts == number # number' /\ number # <<>> /\ number # largest
                     => Value(number') = Value(number) + 1 /\ Len(number') = Len(number)
<1>1. MsgInit => NumberOK
  BY DEF MsgInit, NumberOK
<1>2. NumberOK /\ [GenMsgNumber]_msgVars => NumberOK' /\ [Counts]_msgVars
  BY GenMsgNumberCounts
<1>3. CountsUp <=> [][Counts]_msgVars
  BY DEF CountsUp
<1> QED
  BY <1>1, <1>2, <1>3, PTL

----------------------------------------------------------------------------
\* Generator: the files of the server, and those of a method.
Servers == {One("server.h"), One("server.cc")}
FileOf(kind, m) == <<kind, InterfaceName(m)>>

\* What a step of a run can be.
GenSteps ==
    {<<"copy", One("proto")>>, <<"protoc", One("pb")>>, <<"parse", One("pb")>>,
     <<"each", One("interface")>>}
    \cup {<<"gen_server", f>> : f \in Servers}
    \cup {<<"once", f>> : f \in Fixed}
    \cup {<<op, FileOf(kind, m), {m}>> : op \in {"once", "close"}, kind \in Range(Kinds), m \in known}
    \cup {<<"close", f, {}>> : f \in Fixed}
    \cup {<<"close", f, proto>> : f \in Servers}

Contents == [whole : BOOLEAN, edited : BOOLEAN, for : SUBSET Methods]

GenTypes ==
    /\ proto \in SUBSET Methods /\ methods \in SUBSET Methods /\ known \in SUBSET Methods
    /\ files \in [Files -> {{}} \cup {{c} : c \in Contents}]
    /\ steps \in Seq(GenSteps)

\* Only a run's first step closes a file; the .proto file is copied before it is
\* compiled, and its methods are read then, before they are used.
Before == {<<"copy", "protoc">>, <<"protoc", "parse">>, <<"parse", "gen_server">>, <<"parse", "each">>}
GenOrder ==
    /\ \A i \in DOMAIN steps : steps[i][1] = "close" => i = 1
    /\ \A i, j \in DOMAIN steps : <<steps[i][1], steps[j][1]>> \in Before => i < j

\* A file that is open is empty; the others are not there, whole or torn; and
\* the files of a method were written for one that had their name.
Opened(f) == steps # <<>> /\ Head(steps)[1] = "close" /\ Head(steps)[2] = f
GenFiles ==
    /\ \A f \in Files : Opened(f) => files[f] = {Empty}
    /\ \A f \in Files : f \in torn \/ Opened(f) \/ \A c \in files[f] : c.whole
    /\ \A kind \in Range(Kinds), m \in Methods : \A c \in files[FileOf(kind, m)] :
          c.whole => \E n \in known : InterfaceName(n) = InterfaceName(m) /\ c.for = {n}

\* What a run has not done yet, it will do.
Has(op) == \E i \in DOMAIN steps : steps[i][1] = op
Makes(f) == \E i \in DOMAIN steps :
    steps[i][1] \in {"copy", "protoc", "gen_server", "once", "close"} /\ steps[i][2] = f
GenRun ==
    /\ finished => steps = <<>>
    /\ steps # <<>> \/ finished =>
        /\ proto \subseteq known
        /\ Has("parse") \/ methods = proto
        /\ \A f \in Always : Makes(f) \/ files[f] = {Content(proto)}
        /\ \A f \in Fixed : Makes(f) \/ files[f] # {}
        /\ \A kind \in Range(Kinds), m \in proto :
              Has("each") \/ Makes(FileOf(kind, m)) \/ files[FileOf(kind, m)] # {}

GenInv == GenTypes /\ GenOrder /\ GenFiles /\ GenRun

\* The files written every time, once, and for a method are different files.
LEMMA FilesApart ==
    /\ Always = Servers \cup {One("pb"), One("proto")} /\ One("pb") \notin Servers /\ One("proto") \notin Servers
    /\ Files = Fixed \cup Interfaces \cup Always
    /\ Fixed \cap Always = {} /\ Interfaces \cap Always = {} /\ Interfaces \cap Fixed = {}
    /\ \A kind \in Range(Kinds), m \in Methods : FileOf(kind, m) \in Interfaces
    /\ \A f \in Interfaces : \E kind \in Range(Kinds), m \in Methods : f = FileOf(kind, m)
<1>1. Range(Kinds) = {"h", "cc", "test"}
  <2>1. Kinds = <<"h", "cc", "test">> /\ DOMAIN Kinds = 1 .. 3
    BY DEF Kinds
  <2>2. Range(Kinds) = {Kinds[i] : i \in 1 .. 3}
    BY <2>1 DEF Range
  <2>3. Kinds[1] = "h" /\ Kinds[2] = "cc" /\ Kinds[3] = "test"
    BY DEF Kinds
  <2>4. 1 .. 3 = {1, 2, 3}
    OBVIOUS
  <2> QED
    BY <2>2, <2>3, <2>4
<1>2. /\ \A f \in Fixed : f[1] \in {"makefile", "conf", "business_exception.h", "main.cc", "interface.h", "interface.cc"}
      /\ \A f \in Always : f[1] \in {"proto", "pb", "server.h", "server.cc"}
  BY DEF Fixed, Always, One
<1>3. \A f \in Interfaces : f[1] \in {"h", "cc", "test"}
  BY <1>1 DEF Interfaces
<1>4. Always = Servers \cup {One("pb"), One("proto")} /\ One("pb") \notin Servers /\ One("proto") \notin Servers
  BY DEF Always, Servers, One
<1>5. Fixed \cap Always = {} /\ Interfaces \cap Always = {} /\ Interfaces \cap Fixed = {}
  BY <1>2, <1>3
<1>6. \A kind \in Range(Kinds), m \in Methods : FileOf(kind, m) \in Interfaces
  BY DEF Interfaces, FileOf
<1>7. \A f \in Interfaces : \E kind \in Range(Kinds), m \in Methods : f = FileOf(kind, m)
  BY DEF Interfaces, FileOf
<1> QED
  BY <1>4, <1>5, <1>6, <1>7 DEF Files

\* What each kind of step names.
LEMMA StepForms ==
    ASSUME NEW s \in GenSteps
    PROVE  /\ s[1] \in {"copy", "protoc", "parse", "each", "gen_server", "once", "close"}
           /\ s[1] = "copy" => s[2] = One("proto")
           /\ s[1] = "protoc" => s[2] = One("pb")
           /\ s[1] = "gen_server" => s[2] \in Servers
           /\ s[1] = "once" =>
                 \/ Len(s) # 3 /\ s[2] \in Fixed
                 \/ Len(s) = 3 /\ \E kind \in Range(Kinds), m \in known : s[2] = FileOf(kind, m) /\ s[3] = {m}
           /\ s[1] = "close" =>
                 \/ s[2] \in Fixed /\ s[3] = {}
                 \/ s[2] \in Servers /\ s[3] = proto
                 \/ \E kind \in Range(Kinds), m \in known : s[2] = FileOf(kind, m) /\ s[3] = {m}
<1>1. CASE s \in {<<"copy", One("proto")>>, <<"protoc", One("pb")>>, <<"parse", One("pb")>>,
                   <<"each", One("interface")>>}
  BY <1>1
<1>2. CASE s \in {<<"gen_server", f>> : f \in Servers}
  BY <1>2
<1>3. CASE s \in {<<"once", f>> : f \in Fixed}
  <2>1. PICK f \in Fixed : s = <<"once", f>>
    BY <1>3
  <2>2. s[1] = "once" /\ s[2] = f /\ Len(s) = 2
    BY <2>1
  <2> QED
    BY <2>2
<1>4. CASE s \in {<<op, FileOf(kind, m), {m}>> : op \in {"once", "close"}, kind \in Range(Kinds), m \in known}
  <2>1. PICK op \in {"once", "close"}, kind \in Range(Kinds), m \in known : s = <<op, FileOf(kind, m), {m}>>
    BY <1>4
  <2>2. s[1] = op /\ s[2] = FileOf(kind, m) /\ s[3] = {m} /\ Len(s) = 3
    BY <2>1
  <2> QED
    BY <2>2
<1>5. CASE s \in {<<"close", f, {}>> : f \in Fixed}
  BY <1>5
<1>6. CASE s \in {<<"close", f, proto>> : f \in Servers}
  BY <1>6
<1> QED
  BY <1>1, <1>2, <1>3, <1>4, <1>5, <1>6 DEF GenSteps

\* A sequence whose head gives way to others.
LEMMA HeadGivesWay ==
    ASSUME NEW S, NEW s \in Seq(S), s # <<>>, NEW more \in Seq(S), NEW t, t = more \o Tail(s)
    PROVE  /\ t \in Seq(S) /\ Len(t) = Len(more) + Len(s) - 1
           /\ \A j \in 1 .. Len(more) : j \in DOMAIN t /\ t[j] = more[j]
           /\ \A i \in 2 .. Len(s) : Len(more) + i - 1 \in DOMAIN t /\ t[Len(more) + i - 1] = s[i]
           /\ \A j \in DOMAIN t : \/ j \in 1 .. Len(more)
                                  \/ j - Len(more) + 1 \in 2 .. Len(s) /\ j > Len(more)
<1>1. /\ Tail(s) \in Seq(S) /\ Len(Tail(s)) = Len(s) - 1 /\ Len(s) \in Nat /\ Len(s) >= 1
      /\ \A i \in 1 .. Len(s) - 1 : Tail(s)[i] = s[i + 1]
  BY HeadTailProperties
<1>2. /\ t \in Seq(S) /\ Len(t) = Len(more) + Len(Tail(s)) /\ Len(more) \in Nat
      /\ \A j \in 1 .. Len(t) : t[j] = IF j <= Len(more) THEN more[j] ELSE Tail(s)[j - Len(more)]
  BY <1>1, ConcatProperties
<1>3. DOMAIN t = 1 .. Len(t)
  BY <1>2
<1>4. \A j \in 1 .. Len(more) : j \in DOMAIN t /\ t[j] = more[j]
  BY <1>1, <1>2, <1>3
<1>5. ASSUME NEW i \in 2 .. Len(s) PROVE Len(more) + i - 1 \in DOMAIN t /\ t[Len(more) + i - 1] = s[i]
  <2> DEFINE j == Len(more) + i - 1
  <2>1. j \in 1 .. Len(t) /\ ~(j <= Len(more)) /\ j - Len(more) = i - 1
    BY <1>1, <1>2
  <2>2. i - 1 \in 1 .. Len(s) - 1 /\ (i - 1) + 1 = i
    BY <1>1
  <2>3. Tail(s)[i - 1] = s[i]
    BY <1>1, <2>2
  <2> HIDE DEF j
  <2>4. t[j] = s[i]
    BY <1>2, <2>1, <2>3
  <2> QED
    BY <1>3, <2>1, <2>4 DEF j
<1>6. \A j \in DOMAIN t : \/ j \in 1 .. Len(more)
                          \/ j - Len(more) + 1 \in 2 .. Len(s) /\ j > Len(more)
  BY <1>1, <1>2, <1>3
<1> QED
  BY <1>1, <1>2, <1>4, <1>5, <1>6

\* A step of a run keeps the order of the others, and leaves all to do but what
\* it does itself.
LEMMA RunGoesOn ==
    ASSUME GenTypes, GenOrder, steps # <<>>, NEW more \in Seq(GenSteps), Continue(more),
           UNCHANGED <<proto, known>>,
           \A j \in DOMAIN more : more[j][1] = "once" \/ (more[j][1] = "close" /\ j = 1)
    PROVE  /\ steps' \in Seq(GenSteps') /\ GenOrder' /\ (finished' => steps' = <<>>)
           /\ Head(steps) \in GenSteps
           /\ \A f : Makes(f) => Makes(f)' \/ f = Head(steps)[2]
           /\ \A op : Has(op) => Has(op)' \/ op = Head(steps)[1]
           /\ \A j \in DOMAIN more : Makes(more[j][2])'
           /\ \A f : Opened(f)' => more # <<>> /\ more[1][1] = "close" /\ more[1][2] = f
<1> DEFINE t == steps'
           k == Len(more)
<1>1. t = more \o Tail(steps) /\ (finished' => t = <<>>) /\ steps \in Seq(GenSteps)
  BY DEF Continue, GenTypes
<1>2. GenSteps' = GenSteps
  BY DEF GenSteps
<1> HIDE DEF t
<1>3. /\ t \in Seq(GenSteps)
      /\ \A j \in 1 .. k : j \in DOMAIN t /\ t[j] = more[j]
      /\ \A i \in 2 .. Len(steps) : k + i - 1 \in DOMAIN t /\ t[k + i - 1] = steps[i]
      /\ \A j \in DOMAIN t : j \in 1 .. k \/ (j - k + 1 \in 2 .. Len(steps) /\ j > k)
  BY <1>1, HeadGivesWay
<1>4. /\ k \in Nat /\ DOMAIN more = 1 .. k /\ Len(steps) \in Nat /\ DOMAIN steps = 1 .. Len(steps)
      /\ DOMAIN t = 1 .. Len(t) /\ Len(t) \in Nat
  BY <1>1, <1>3
<1>5. /\ Head(steps) = steps[1] /\ 1 \in DOMAIN steps /\ Head(steps) \in GenSteps
  BY <1>1, <1>4, HeadTailProperties, ElementOfSeq
<1>6. ASSUME NEW j \in DOMAIN t, j \notin 1 .. k
      PROVE  /\ j - k + 1 \in 2 .. Len(steps) /\ j > k /\ t[j] = steps[j - k + 1]
             /\ j - k + 1 \in DOMAIN steps /\ t[j][1] # "close"
  <2> DEFINE i == j - k + 1
  <2>1. i \in 2 .. Len(steps) /\ j > k /\ k + i - 1 = j
    BY <1>3, <1>4, <1>6
  <2>2. t[j] = steps[i]
    BY <1>3, <2>1
  <2>3. i \in DOMAIN steps /\ i # 1
    BY <1>4, <2>1
  <2>4. steps[i][1] # "close"
    BY <2>3 DEF GenOrder
  <2> QED
    BY <2>1, <2>2, <2>3, <2>4
<1>7. ASSUME NEW j \in 1 .. k PROVE t[j] = more[j] /\ (t[j][1] = "once" \/ (t[j][1] = "close" /\ j = 1))
  BY <1>3, <1>4
<1>8. GenOrder'
  <2>1. ASSUME NEW j \in DOMAIN t, t[j][1] = "close" PROVE j = 1
    BY <1>6, <1>7, <2>1
  <2>2. ASSUME NEW i \in DOMAIN t, NEW j \in DOMAIN t, <<t[i][1], t[j][1]>> \in Before
        PROVE  i < j
    <3>1. i \notin 1 .. k /\ j \notin 1 .. k
      BY <1>7, <2>2 DEF Before
    <3>2. /\ i - k + 1 \in DOMAIN steps /\ steps[i - k + 1][1] = t[i][1]
          /\ j - k + 1 \in DOMAIN steps /\ steps[j - k + 1][1] = t[j][1]
      BY <1>6, <2>2, <3>1
    <3>3. i - k + 1 < j - k + 1
      BY <2>2, <3>2 DEF GenOrder
    <3> QED
      BY <1>4, <3>3
  <2> QED
    BY <2>1, <2>2 DEF GenOrder, t
<1>9. ASSUME NEW i \in DOMAIN steps, i # 1 PROVE \E j \in DOMAIN t : t[j] = steps[i]
  <2>1. i \in 2 .. Len(steps)
    BY <1>4, <1>9
  <2> QED
    BY <1>3, <2>1
<1>10. \A f : Makes(f) => Makes(f)' \/ f = Head(steps)[2]
  <2> SUFFICES ASSUME NEW f, NEW i \in DOMAIN steps, steps[i][2] = f, f # Head(steps)[2],
                      steps[i][1] \in {"copy", "protoc", "gen_server", "once", "close"}
               PROVE  Makes(f)'
    BY DEF Makes
  <2>1. i # 1
    BY <1>5
  <2> QED
    BY <1>9, <2>1 DEF Makes, t
<1>11. \A op : Has(op) => Has(op)' \/ op = Head(steps)[1]
  <2> SUFFICES ASSUME NEW op, NEW i \in DOMAIN steps, steps[i][1] = op, op # Head(steps)[1]
               PROVE  Has(op)'
    BY DEF Has
  <2>1. i # 1
    BY <1>5
  <2> QED
    BY <1>9, <2>1 DEF Has, t
<1>12. \A j \in DOMAIN more : Makes(more[j][2])'
  BY <1>3, <1>4 DEF Makes, t
<1>13. ASSUME NEW f, Opened(f)' PROVE more # <<>> /\ more[1][1] = "close" /\ more[1][2] = f
  <2>1. t # <<>> /\ Head(t)[1] = "close" /\ Head(t)[2] = f
    BY <1>13 DEF Opened, t
  <2>2. Head(t) = t[1] /\ 1 \in DOMAIN t
    BY <1>3, <1>4, <2>1, HeadTailProperties
  <2>3. 1 \in 1 .. k
    BY <1>6, <2>1, <2>2
  <2>4. t[1] = more[1] /\ more # <<>>
    BY <1>4, <1>7, <2>3
  <2> QED
    BY <2>1, <2>2, <2>4
<1> QED
  BY <1>1, <1>2, <1>3, <1>5, <1>8, <1>10, <1>11, <1>12, <1>13 DEF t

\* A file that is written for the .proto file in one step fits it.
LEMMA WholeStep ==
    ASSUME GenInv, NEW pb \in {One("proto"), One("pb")}, steps # <<>>, Head(steps)[2] = pb,
           Head(steps)[1] \in {"copy", "protoc"}, Continue(<<>>),
           files' = [files EXCEPT ![pb] = {Content(proto)}],
           UNCHANGED <<proto, known, methods, torn>>
    PROVE  GenInv'
<1>1. /\ steps # <<>> /\ Head(steps)[1] \in {"copy", "protoc"} /\ Continue(<<>>)
      /\ files' = [files EXCEPT ![pb] = {Content(proto)}]
      /\ UNCHANGED <<proto, known, methods, torn>>
  OBVIOUS
<1>2. GenTypes /\ GenOrder /\ GenFiles /\ GenRun
  BY DEF GenInv
<1>3. <<>> \in Seq(GenSteps) /\ DOMAIN <<>> = {}
  OBVIOUS
<1>4. /\ steps' \in Seq(GenSteps') /\ GenOrder' /\ (finished' => steps' = <<>>)
      /\ Head(steps) \in GenSteps
      /\ \A f : Makes(f) => Makes(f)' \/ f = Head(steps)[2]
      /\ \A op : Has(op) => Has(op)' \/ op = Head(steps)[1]
      /\ \A f : ~Opened(f)'
  BY <1>1, <1>2, <1>3, RunGoesOn
<1>5. Head(steps)[2] = pb
  OBVIOUS
<1>6. Content(proto) \in Contents /\ Content(proto).whole
  BY <1>2 DEF Content, Contents, GenTypes
<1>7. pb \in Files /\ pb \in Always /\ pb \notin Interfaces /\ pb \notin Fixed
  BY FilesApart
<1>8. files'[pb] = {Content(proto)} /\ \A f \in Files : f # pb => files'[f] = files[f]
  BY <1>1, <1>2, <1>7 DEF GenTypes
<1>9. GenTypes'
  <2>1. files' \in [Files -> {{}} \cup {{c} : c \in Contents}]
    BY <1>1, <1>2, <1>6 DEF GenTypes
  <2> QED
    BY <1>1, <1>2, <1>4, <2>1 DEF GenTypes
<1>10. GenFiles'
  <2>1. \A f \in Files : ~Opened(f)
    BY <1>1 DEF Opened
  <2>2. \A f \in Files : f \in torn' \/ \A c \in files'[f] : c.whole
    BY <1>1, <1>2, <1>6, <1>8, <2>1 DEF GenFiles
  <2>3. \A kind \in Range(Kinds), m \in Methods : files'[FileOf(kind, m)] = files[FileOf(kind, m)]
    BY <1>7, <1>8, FilesApart
  <2> QED
    BY <1>1, <1>2, <1>4, <2>2, <2>3 DEF GenFiles
<1>11. GenRun'
  <2>1. \A f \in Always : Makes(f)' \/ files'[f] = {Content(proto)}
    BY <1>1, <1>2, <1>4, <1>5, <1>8, FilesApart DEF GenRun
  <2>2. \A f \in Fixed : Makes(f)' \/ files'[f] # {}
    BY <1>1, <1>2, <1>4, <1>5, <1>7, <1>8, FilesApart DEF GenRun
  <2>3. \A kind \in Range(Kinds), m \in proto :
           Has("each")' \/ Makes(FileOf(kind, m))' \/ files'[FileOf(kind, m)] # {}
    <3>1. proto \subseteq Methods
      BY <1>2 DEF GenTypes
    <3> QED
      BY <1>1, <1>2, <1>4, <1>5, <1>7, <1>8, <3>1, FilesApart DEF GenRun
  <2>4. proto \subseteq known /\ (Has("parse")' \/ methods = proto)
    BY <1>1, <1>2, <1>4 DEF GenRun
  <2>5. Content(proto)' = Content(proto)
    BY <1>1 DEF Content
  <2> QED
    BY <1>1, <1>4, <2>1, <2>2, <2>3, <2>4, <2>5 DEF GenRun
<1> QED
  BY <1>4, <1>9, <1>10, <1>11 DEF GenInv

\* The copy of the .proto file fits it.
LEMMA CopyStep ==
    ASSUME GenInv, CopyProto
    PROVE  GenInv'
<1>1. /\ steps # <<>> /\ Head(steps)[1] = "copy" /\ Continue(<<>>)
      /\ files' = [files EXCEPT ![One("proto")] = {Content(proto)}]
      /\ UNCHANGED <<proto, known, methods, torn>>
  BY DEF CopyProto, Step, Unmoved
<1>2. Head(steps) \in GenSteps
  BY <1>1, HeadTailProperties DEF GenInv, GenTypes
<1>3. Head(steps)[2] = One("proto")
  BY <1>1, <1>2, StepForms
<1> QED
  BY <1>1, <1>3, WholeStep

\* What is compiled from the copy fits as well.
LEMMA ProtocStep ==
    ASSUME GenInv, Protoc
    PROVE  GenInv'
<1>1. /\ steps # <<>> /\ Head(steps)[1] = "protoc" /\ Continue(<<>>)
      /\ files' = [files EXCEPT ![One("pb")] = {Content(WrittenFor(One("proto")))}]
      /\ UNCHANGED <<proto, known, methods, torn>>
  BY DEF Protoc, Step, Unmoved
<1>2. GenTypes /\ GenOrder /\ GenRun
  BY DEF GenInv
<1>3. Head(steps) \in GenSteps /\ Head(steps) = steps[1] /\ 1 \in DOMAIN steps
  BY <1>1, <1>2, HeadTailProperties DEF GenTypes
<1>4. Head(steps)[2] = One("pb")
  BY <1>1, <1>3, StepForms
<1>5. ~Makes(One("proto"))
  <2> SUFFICES ASSUME NEW i \in DOMAIN steps, steps[i][2] = One("proto"),
                      steps[i][1] \in {"copy", "protoc", "gen_server", "once", "close"}
               PROVE  FALSE
    BY DEF Makes
  <2>1. steps[i] \in GenSteps
    BY <1>2, ElementOfSeq DEF GenTypes
  <2>2. known \subseteq Methods /\ proto \subseteq known
    BY <1>1, <1>2 DEF GenRun, GenTypes
  <2>3. \A kind \in Range(Kinds), m \in known : FileOf(kind, m) # One("proto")
    BY <2>2, FilesApart
  <2>4. One("proto") \notin Servers /\ One("proto") \notin Fixed /\ One("proto") # One("pb")
    BY FilesApart DEF One
  <2>5. steps[i][1] = "copy"
    BY <2>1, <2>3, <2>4, StepForms
  <2>6. i < 1
    BY <1>1, <1>2, <1>3, <2>5 DEF GenOrder, Before
  <2>7. i \in Nat /\ 1 <= i
    <3>1. DOMAIN steps = 1 .. Len(steps) /\ Len(steps) \in Nat
      BY <1>2 DEF GenTypes
    <3> QED
      BY <3>1
  <2> QED
    BY <2>6, <2>7
<1>6. WrittenFor(One("proto")) = proto
  <2>1. files[One("proto")] = {Content(proto)}
    BY <1>1, <1>2, <1>5, FilesApart DEF GenRun
  <2>2. (CHOOSE c \in {Content(proto)} : TRUE) = Content(proto)
    OBVIOUS
  <2> QED
    BY <2>1, <2>2 DEF WrittenFor, Content
<1> QED
  BY <1>1, <1>4, <1>6, WholeStep

\* The methods are those of the file that was compiled in this run.
LEMMA ParseStep ==
    ASSUME GenInv, ParseServiceName
    PROVE  GenInv'
<1>1. /\ steps # <<>> /\ Head(steps)[1] = "parse" /\ Continue(<<>>)
      /\ methods' = WrittenFor(One("pb"))
      /\ UNCHANGED <<proto, known, files, torn>>
  BY DEF ParseServiceName, Step, Unmoved
<1>2. GenTypes /\ GenOrder /\ GenFiles /\ GenRun
  BY DEF GenInv
<1>3. <<>> \in Seq(GenSteps) /\ DOMAIN <<>> = {}
  OBVIOUS
<1>4. /\ steps' \in Seq(GenSteps') /\ GenOrder' /\ (finished' => steps' = <<>>)
      /\ Head(steps) \in GenSteps
      /\ \A f : Makes(f) => Makes(f)' \/ f = Head(steps)[2]
      /\ \A op : Has(op) => Has(op)' \/ op = Head(steps)[1]
      /\ \A f : ~Opened(f)'
  BY <1>1, <1>2, <1>3, RunGoesOn
<1>5. ASSUME NEW f, Makes(f) PROVE Makes(f)'
  <2>1. PICK i \in DOMAIN steps : /\ steps[i][1] \in {"copy", "protoc", "gen_server", "once", "close"}
                                  /\ steps[i][2] = f
    BY <1>5 DEF Makes
  <2>2. Head(steps) = steps[1] /\ Len(steps) \in Nat /\ DOMAIN steps = 1 .. Len(steps)
    BY <1>1, <1>2 DEF GenTypes
  <2>3. i # 1
    BY <1>1, <2>1, <2>2
  <2>4. i - 1 \in DOMAIN steps' /\ steps'[i - 1] = steps[i]
    <3>1. steps' = <<>> \o Tail(steps)
      BY <1>1 DEF Continue
    <3>2. i \in 2 .. Len(steps)
      BY <2>1, <2>2, <2>3
    <3>3. Len(<<>>) + i - 1 \in DOMAIN steps' /\ steps'[Len(<<>>) + i - 1] = steps[i]
      BY <1>1, <1>2, <1>3, <3>1, <3>2, HeadGivesWay DEF GenTypes
    <3>4. Len(<<>>) + i - 1 = i - 1
      BY <3>2
    <3> QED
      BY <3>3, <3>4
  <2> QED
    BY <2>1, <2>4 DEF Makes
<1>6. files[One("pb")] = {Content(proto)}
  <2>1. ~Makes(One("pb"))
    <3> SUFFICES ASSUME NEW i \in DOMAIN steps, steps[i][2] = One("pb"),
                        steps[i][1] \in {"copy", "protoc", "gen_server", "once", "close"}
                 PROVE  FALSE
      BY DEF Makes
    <3>1. steps[i] \in GenSteps
      BY <1>2, ElementOfSeq DEF GenTypes
    <3>2. steps[i][1] = "protoc"
      <4>1. proto \subseteq known /\ known \subseteq Methods
        BY <1>1, <1>2 DEF GenRun, GenTypes
      <4>2. \A kind \in Range(Kinds), m \in known : FileOf(kind, m) # One("pb")
        BY <4>1, FilesApart
      <4>3. One("pb") \notin Servers /\ One("pb") \notin Fixed /\ One("pb") # One("proto")
        BY FilesApart DEF One
      <4> QED
        BY <3>1, <4>2, <4>3, StepForms
    <3>3. Head(steps) = steps[1] /\ 1 \in DOMAIN steps /\ i \in Nat /\ 1 <= i
      <4>1. DOMAIN steps = 1 .. Len(steps) /\ Len(steps) \in Nat
        BY <1>2 DEF GenTypes
      <4>2. Head(steps) = steps[1] /\ 1 \in DOMAIN steps
        BY <1>1, <1>2, HeadTailProperties DEF GenTypes
      <4> QED
        BY <4>1, <4>2
    <3>4. i < 1
      BY <1>1, <1>2, <3>2, <3>3 DEF GenOrder, Before
    <3> QED
      BY <3>3, <3>4
  <2> QED
    BY <1>1, <1>2, <2>1, FilesApart DEF GenRun
<1>7. methods' = proto
  <2>1. (CHOOSE c \in {Content(proto)} : TRUE) = Content(proto)
    OBVIOUS
  <2>2. Content(proto).for = proto
    BY DEF Content
  <2> QED
    BY <1>1, <1>6, <2>1, <2>2 DEF WrittenFor
<1>8. GenTypes'
  BY <1>1, <1>2, <1>4, <1>7 DEF GenTypes
<1>9. GenFiles'
  <2>1. \A f \in Files : ~Opened(f)
    BY <1>1 DEF Opened
  <2> QED
    BY <1>1, <1>2, <1>4, <2>1 DEF GenFiles
<1>10. GenRun'
  <2>1. Content(proto)' = Content(proto)
    BY <1>1 DEF Content
  <2>2. \A f \in Always : Makes(f)' \/ files'[f] = {Content(proto)}
    BY <1>1, <1>2, <1>5 DEF GenRun
  <2>3. \A f \in Fixed : Makes(f)' \/ files'[f] # {}
    BY <1>1, <1>2, <1>5 DEF GenRun
  <2>4. \A kind \in Range(Kinds), m \in proto :
           Has("each")' \/ Makes(FileOf(kind, m))' \/ files'[FileOf(kind, m)] # {}
    BY <1>1, <1>2, <1>4, <1>5 DEF GenRun
  <2> QED
    BY <1>1, <1>2, <1>4, <1>7, <2>1, <2>2, <2>3, <2>4 DEF GenRun
<1> QED
  BY <1>4, <1>8, <1>9, <1>10 DEF GenInv

\* A file that is opened for writing will be closed.
LEMMA OpenStep ==
    ASSUME GenInv, steps # <<>>, NEW for \in SUBSET Methods, NEW file \in Files,
           file = File, Open(file, for),
           Head(steps)[1] \in {"gen_server", "once"}, <<"close", file, for>> \in GenSteps,
           UNCHANGED <<proto, known, methods, torn>>
    PROVE  GenInv'
<1> DEFINE close == <<"close", file, for>>
           more == <<close>>
<1>1. files' = [files EXCEPT ![file] = {Empty}] /\ Continue(more)
  BY DEF Open
<1>2. GenTypes /\ GenOrder /\ GenFiles /\ GenRun
  BY DEF GenInv
<1>3. /\ more \in Seq(GenSteps) /\ DOMAIN more = {1} /\ more[1] = close /\ more # <<>>
      /\ \A j \in DOMAIN more : j = 1 /\ more[j][1] = "close" /\ more[j][2] = file
  OBVIOUS
<1> HIDE DEF more
<1>4. /\ steps' \in Seq(GenSteps') /\ GenOrder' /\ (finished' => steps' = <<>>)
      /\ Head(steps) \in GenSteps
      /\ \A f : Makes(f) => Makes(f)' \/ f = Head(steps)[2]
      /\ \A op : Has(op) => Has(op)' \/ op = Head(steps)[1]
      /\ Makes(file)'
      /\ \A f : Opened(f)' => f = file
  BY <1>1, <1>2, <1>3, RunGoesOn
<1>5. Opened(file)'
  <2>1. steps' = more \o Tail(steps) /\ steps \in Seq(GenSteps)
    BY <1>1, <1>2 DEF Continue, GenTypes
  <2>2. 1 \in 1 .. Len(more)
    BY <1>3
  <2>3. 1 \in DOMAIN steps' /\ steps'[1] = close
    BY <1>3, <2>1, <2>2, HeadGivesWay
  <2>4. steps' # <<>> /\ Head(steps') = steps'[1]
    BY <1>4, <2>3
  <2>5. close[1] = "close" /\ close[2] = file
    OBVIOUS
  <2> QED
    BY <2>3, <2>4, <2>5 DEF Opened
<1>6. \A f : Makes(f) => Makes(f)'
  BY <1>4 DEF File
<1>7. files'[file] = {Empty} /\ \A f \in Files : f # file => files'[f] = files[f]
  BY <1>1, <1>2 DEF GenTypes
<1>8. Empty \in Contents /\ ~Empty.whole
  BY DEF Empty, Contents
<1>9. GenTypes'
  <2>1. files' \in [Files -> {{}} \cup {{c} : c \in Contents}]
    BY <1>1, <1>2, <1>8 DEF GenTypes
  <2> QED
    BY <1>2, <1>4, <2>1 DEF GenTypes
<1>10. GenFiles'
  <2>1. \A f \in Files : ~Opened(f)
    BY DEF Opened
  <2>2. \A f \in Files : Opened(f)' => files'[f] = {Empty}
    BY <1>4, <1>7
  <2>3. \A f \in Files : f \in torn' \/ Opened(f)' \/ \A c \in files'[f] : c.whole
    BY <1>2, <1>5, <1>7, <2>1 DEF GenFiles
  <2>4. \A kind \in Range(Kinds), m \in Methods : \A c \in files'[FileOf(kind, m)] :
           c.whole => \E n \in known : InterfaceName(n) = InterfaceName(m) /\ c.for = {n}
    <3> SUFFICES ASSUME NEW kind \in Range(Kinds), NEW m \in Methods,
                        NEW c \in files'[FileOf(kind, m)], c.whole
                 PROVE  \E n \in known : InterfaceName(n) = InterfaceName(m) /\ c.for = {n}
      OBVIOUS
    <3>1. FileOf(kind, m) \in Files
      BY FilesApart
    <3>2. FileOf(kind, m) # file
      BY <1>7, <1>8
    <3> QED
      BY <1>2, <1>7, <3>1, <3>2 DEF GenFiles
  <2>5. Empty' = Empty
    BY DEF Empty
  <2> QED
    BY <2>2, <2>3, <2>4, <2>5 DEF GenFiles
<1>11. GenRun'
  <2>1. Content(proto)' = Content(proto)
    BY DEF Content
  <2>2. \A f \in Always : Makes(f)' \/ files'[f] = {Content(proto)}
    BY <1>2, <1>4, <1>6, <1>7, FilesApart DEF GenRun
  <2>3. \A f \in Fixed : Makes(f)' \/ files'[f] # {}
    BY <1>2, <1>4, <1>6, <1>7, FilesApart DEF GenRun
  <2>4. \A kind \in Range(Kinds), m \in proto :
           Has("each")' \/ Makes(FileOf(kind, m))' \/ files'[FileOf(kind, m)] # {}
    <3>1. proto \subseteq Methods
      BY <1>2 DEF GenTypes
    <3>2. \A kind \in Range(Kinds), m \in proto : FileOf(kind, m) \in Files
      BY <3>1, FilesApart
    <3> QED
      BY <1>2, <1>4, <1>6, <1>7, <3>2 DEF GenRun
  <2>5. proto \subseteq known /\ (Has("parse")' \/ methods = proto)
    BY <1>2, <1>4 DEF GenRun
  <2> QED
    BY <1>4, <2>1, <2>2, <2>3, <2>4, <2>5 DEF GenRun
<1> QED
  BY <1>4, <1>9, <1>10, <1>11 DEF GenInv

\* The server's files are written for the methods of the .proto file.
LEMMA ServerStep ==
    ASSUME GenInv, GenServer
    PROVE  GenInv'
<1>1. /\ steps # <<>> /\ Head(steps)[1] = "gen_server" /\ Open(File, methods)
      /\ UNCHANGED <<proto, known, methods, torn>>
  BY DEF GenServer, Step, Unmoved
<1>2. GenTypes /\ GenOrder /\ GenFiles /\ GenRun
  BY DEF GenInv
<1>3. Head(steps) = steps[1] /\ 1 \in DOMAIN steps /\ Head(steps) \in GenSteps
      /\ DOMAIN steps = 1 .. Len(steps) /\ Len(steps) \in Nat
  BY <1>1, <1>2, ElementOfSeq DEF GenTypes
<1>4. ~Has("parse")
  <2> SUFFICES ASSUME NEW i \in DOMAIN steps, steps[i][1] = "parse" PROVE FALSE
    BY DEF Has
  <2>1. i < 1
    BY <1>1, <1>2, <1>3 DEF GenOrder, Before
  <2> QED
    BY <1>3, <2>1
<1>5. methods = proto /\ methods \in SUBSET Methods
  BY <1>1, <1>2, <1>4 DEF GenRun, GenTypes
<1>6. File \in Servers
  BY <1>1, <1>3, StepForms DEF File
<1>7. File \in Files /\ <<"close", File, methods>> \in GenSteps
  BY <1>5, <1>6, FilesApart DEF GenSteps
<1> QED
  BY <1>1, <1>5, <1>7, OpenStep

\* A file that is skipped is there, and one that is written is closed next.
LEMMA OnceStep ==
    ASSUME GenInv, GenOnce
    PROVE  GenInv'
<1> DEFINE for == IF Len(Head(steps)) = 3 THEN Head(steps)[3] ELSE {}
<1>1. /\ steps # <<>> /\ Head(steps)[1] = "once"
      /\ \/ files[File] # {} /\ Continue(<<>>) /\ UNCHANGED files
         \/ files[File] = {} /\ Open(File, for)
      /\ UNCHANGED <<proto, known, methods, torn>>
  BY DEF GenOnce, Step, Unmoved
<1>2. GenTypes /\ GenOrder /\ GenFiles /\ GenRun
  BY DEF GenInv
<1>3. Head(steps) = steps[1] /\ 1 \in DOMAIN steps /\ Head(steps) \in GenSteps
      /\ DOMAIN steps = 1 .. Len(steps) /\ Len(steps) \in Nat
  BY <1>1, <1>2, ElementOfSeq DEF GenTypes
<1>4. CASE files[File] = {} /\ Open(File, for)
  <2>1. CASE Len(Head(steps)) # 3 /\ Head(steps)[2] \in Fixed
    <3>1. File \in Fixed /\ for = {}
      BY <2>1 DEF File
    <3>2. File \in Files /\ <<"close", File, for>> \in GenSteps /\ for \in SUBSET Methods
      BY <3>1, FilesApart DEF GenSteps
    <3> QED
      BY <1>1, <1>4, <3>2, OpenStep
  <2>2. CASE Len(Head(steps)) = 3 /\ \E kind \in Range(Kinds), m \in known :
                Head(steps)[2] = FileOf(kind, m) /\ Head(steps)[3] = {m}
    <3>1. PICK kind \in Range(Kinds), m \in known : File = FileOf(kind, m) /\ for = {m}
      BY <2>2 DEF File
    <3>2. m \in Methods
      BY <1>2 DEF GenTypes
    <3>3. File \in Files /\ for \in SUBSET Methods
      BY <3>1, <3>2, FilesApart
    <3>4. <<"close", File, for>> \in GenSteps
      BY <3>1 DEF GenSteps
    <3> QED
      BY <1>1, <1>4, <3>3, <3>4, OpenStep
  <2> QED
    BY <1>1, <1>3, <2>1, <2>2, StepForms
<1>5. CASE files[File] # {} /\ Continue(<<>>) /\ UNCHANGED files
  <2>1. <<>> \in Seq(GenSteps) /\ DOMAIN <<>> = {}
    OBVIOUS
  <2>2. /\ steps' \in Seq(GenSteps') /\ GenOrder' /\ (finished' => steps' = <<>>)
        /\ \A f : Makes(f) => Makes(f)' \/ f = File
        /\ \A op : Has(op) => Has(op)' \/ op = Head(steps)[1]
        /\ \A f : ~Opened(f)'
    BY <1>1, <1>2, <1>5, <2>1, RunGoesOn DEF File
  <2>3. GenTypes'
    BY <1>1, <1>2, <1>5, <2>2 DEF GenTypes
  <2>4. GenFiles'
    <3>1. \A f \in Files : ~Opened(f)
      BY <1>1 DEF Opened
    <3> QED
      BY <1>1, <1>2, <1>5, <2>2, <3>1 DEF GenFiles
  <2>5. GenRun'
    <3>1. Content(proto)' = Content(proto)
      BY <1>1 DEF Content
    <3>2. File \notin Always
      <4>1. known \subseteq Methods
        BY <1>2 DEF GenTypes
      <4> QED
        BY <1>1, <1>3, <4>1, StepForms, FilesApart DEF File
    <3>3. \A f \in Always : Makes(f)' \/ files'[f] = {Content(proto)}
      BY <1>1, <1>2, <1>5, <2>2, <3>2 DEF GenRun
    <3>4. \A f \in Fixed : Makes(f)' \/ files'[f] # {}
      BY <1>1, <1>2, <1>5, <2>2 DEF GenRun
    <3>5. \A kind \in Range(Kinds), m \in proto :
             Has("each")' \/ Makes(FileOf(kind, m))' \/ files'[FileOf(kind, m)] # {}
      BY <1>1, <1>2, <1>5, <2>2 DEF GenRun
    <3>6. proto \subseteq known /\ (Has("parse")' \/ methods = proto)
      BY <1>1, <1>2, <2>2 DEF GenRun
    <3> QED
      BY <1>1, <2>2, <3>1, <3>3, <3>4, <3>5, <3>6 DEF GenRun
  <2> QED
    BY <2>2, <2>3, <2>4, <2>5 DEF GenInv
<1> QED
  BY <1>1, <1>4, <1>5

\* A file is closed with what it was opened for in it.
LEMMA CloseStep ==
    ASSUME GenInv, Close, NEW file, file = File
    PROVE  GenInv' /\ file \in Files /\ files[file] = {Empty} /\ (\A f \in Files : f # file => files'[f] = files[f])
<1> DEFINE for == Head(steps)[3]
           content == Content(for)
<1>1. /\ steps # <<>> /\ Head(steps)[1] = "close" /\ Head(steps)[2] = file /\ Continue(<<>>)
      /\ files' = [files EXCEPT ![file] = {content}] /\ torn' = torn \ {file}
      /\ UNCHANGED <<proto, known, methods>>
  BY DEF Close, Step, Unmoved, File
<1>2. GenTypes /\ GenOrder /\ GenFiles /\ GenRun
  BY DEF GenInv
<1>3. <<>> \in Seq(GenSteps) /\ DOMAIN <<>> = {}
  OBVIOUS
<1>4. /\ steps' \in Seq(GenSteps') /\ GenOrder' /\ (finished' => steps' = <<>>)
      /\ Head(steps) \in GenSteps
      /\ \A f : Makes(f) => Makes(f)' \/ f = Head(steps)[2]
      /\ \A op : Has(op) => Has(op)' \/ op = Head(steps)[1]
      /\ \A f : ~Opened(f)'
  BY <1>1, <1>2, <1>3, RunGoesOn
<1>5. \/ file \in Fixed /\ for = {}
      \/ file \in Servers /\ for = proto
      \/ \E kind \in Range(Kinds), m \in known : file = FileOf(kind, m) /\ for = {m}
  BY <1>1, <1>4, StepForms
<1>6. proto \subseteq Methods /\ known \subseteq Methods
  BY <1>2 DEF GenTypes
<1>7. for \in SUBSET Methods /\ file \in Files
  BY <1>5, <1>6, FilesApart
<1>8. content \in Contents /\ content.whole /\ content.for = for
  <2> HIDE DEF for
  <2> QED
    BY <1>7 DEF Content, Contents
<1> HIDE DEF content
<1>9. files'[file] = {content} /\ \A f \in Files : f # file => files'[f] = files[f]
  BY <1>1, <1>2, <1>7 DEF GenTypes
<1>10. files[file] = {Empty}
  BY <1>1, <1>2, <1>7 DEF GenFiles, Opened
<1>11. GenTypes'
  <2>1. files' \in [Files -> {{}} \cup {{c} : c \in Contents}]
    BY <1>1, <1>2, <1>8 DEF GenTypes
  <2> QED
    BY <1>1, <1>2, <1>4, <2>1 DEF GenTypes
<1>12. GenFiles'
  <2>1. \A f \in Files : f # file => ~Opened(f)
    BY <1>1 DEF Opened
  <2>2. \A f \in Files : f \in torn' \/ \A c \in files'[f] : c.whole
    BY <1>1, <1>2, <1>8, <1>9, <2>1 DEF GenFiles
  <2>3. ASSUME NEW kind \in Range(Kinds), NEW m \in Methods, NEW c \in files'[FileOf(kind, m)], c.whole
        PROVE  \E n \in known : InterfaceName(n) = InterfaceName(m) /\ c.for = {n}
    <3>1. FileOf(kind, m) \in Interfaces /\ FileOf(kind, m) \in Files
      BY FilesApart
    <3>2. CASE FileOf(kind, m) = file
      <4>1. c.for = for
        BY <1>8, <1>9, <2>3, <3>2
      <4>2. file \notin Fixed /\ file \notin Servers
        BY <3>1, <3>2, FilesApart
      <4>3. PICK k \in Range(Kinds), n \in known : file = FileOf(k, n) /\ for = {n}
        BY <1>5, <4>2
      <4>4. InterfaceName(n) = InterfaceName(m)
        BY <3>2, <4>3 DEF FileOf
      <4> QED
        BY <4>1, <4>3, <4>4
    <3>3. CASE FileOf(kind, m) # file
      BY <1>2, <1>9, <2>3, <3>1, <3>3 DEF GenFiles
    <3> QED
      BY <3>2, <3>3
  <2> QED
    BY <1>1, <1>4, <2>2, <2>3 DEF GenFiles
<1>13. GenRun'
  <2>1. Content(proto)' = Content(proto)
    BY <1>1 DEF Content
  <2>2. \A f \in Always : Makes(f)' \/ files'[f] = {Content(proto)}
    <3> SUFFICES ASSUME NEW f \in Always PROVE Makes(f)' \/ files'[f] = {Content(proto)}
      OBVIOUS
    <3>1. CASE f = file
      <4>1. for = proto
        BY <1>5, <1>6, <3>1, FilesApart
      <4> QED
        BY <1>9, <3>1, <4>1 DEF content
    <3>2. CASE f # file
      BY <1>1, <1>2, <1>4, <1>9, <3>2, FilesApart DEF GenRun
    <3> QED
      BY <3>1, <3>2
  <2>3. \A f \in Fixed : Makes(f)' \/ files'[f] # {}
    BY <1>1, <1>2, <1>4, <1>9, FilesApart DEF GenRun
  <2>4. \A kind \in Range(Kinds), m \in proto :
           Has("each")' \/ Makes(FileOf(kind, m))' \/ files'[FileOf(kind, m)] # {}
    <3>1. \A kind \in Range(Kinds), m \in proto : FileOf(kind, m) \in Files
      BY <1>6, FilesApart
    <3> QED
      BY <1>1, <1>2, <1>4, <1>9, <3>1 DEF GenRun
  <2>5. proto \subseteq known /\ (Has("parse")' \/ methods = proto)
    BY <1>1, <1>2, <1>4 DEF GenRun
  <2> QED
    BY <1>1, <1>4, <2>1, <2>2, <2>3, <2>4, <2>5 DEF GenRun
<1> QED
  BY <1>4, <1>7, <1>9, <1>10, <1>11, <1>12, <1>13 DEF GenInv

\* Every method gets its three files.
LEMMA EachStep ==
    ASSUME GenInv, EachInterface
    PROVE  GenInv'
<1> DEFINE n == Cardinality(methods)
           more == [i \in 1 .. 3 * n |->
                      LET m == SetToSeq(methods)[(i + 2) \div 3] IN
                      <<"once", <<Kinds[1 + ((i + 2) % 3)], InterfaceName(m)>>, {m}>>]
<1>1. /\ steps # <<>> /\ Head(steps)[1] = "each" /\ Continue(more)
      /\ UNCHANGED <<proto, known, files, methods, torn>>
  BY DEF EachInterface, Step, Unmoved
<1>2. GenTypes /\ GenOrder /\ GenFiles /\ GenRun
  BY DEF GenInv
<1>3. Head(steps) = steps[1] /\ 1 \in DOMAIN steps /\ Head(steps) \in GenSteps
      /\ DOMAIN steps = 1 .. Len(steps) /\ Len(steps) \in Nat
  BY <1>1, <1>2, ElementOfSeq DEF GenTypes
<1>4. ~Has("parse")
  <2> SUFFICES ASSUME NEW i \in DOMAIN steps, steps[i][1] = "parse" PROVE FALSE
    BY DEF Has
  <2>1. i < 1
    BY <1>1, <1>2, <1>3 DEF GenOrder, Before
  <2> QED
    BY <1>3, <2>1
<1>5. methods = proto /\ methods \subseteq Methods /\ methods \subseteq known
  BY <1>1, <1>2, <1>4 DEF GenRun, GenTypes
<1>6. IsFiniteSet(methods)
  BY <1>5, FS_Subset, GeneratorAssumption DEF GeneratorAssumption
<1>7. /\ n \in Nat /\ SetToSeq(methods) \in [1 .. n -> methods]
      /\ \A m \in methods : \E i \in 1 .. n : SetToSeq(methods)[i] = m
  BY <1>6, SetToSeqLists
<1> HIDE DEF n
<1>8. \A i \in 1 .. 3 * n : (i + 2) \div 3 \in 1 .. n /\ 1 + ((i + 2) % 3) \in 1 .. 3
  BY <1>7
<1>9. Range(Kinds) = {Kinds[j] : j \in 1 .. 3}
  <2>1. Kinds = <<"h", "cc", "test">> /\ DOMAIN Kinds = 1 .. 3
    BY DEF Kinds
  <2> QED
    BY <2>1 DEF Range
<1>10. ASSUME NEW i \in 1 .. 3 * n
       PROVE  /\ more[i][1] = "once"
              /\ more[i] \in {<<op, FileOf(kind, m), {m}>> :
                                op \in {"once", "close"}, kind \in Range(Kinds), m \in known}
              /\ more[i][2] = FileOf(Kinds[1 + ((i + 2) % 3)], SetToSeq(methods)[(i + 2) \div 3])
  <2> DEFINE m == SetToSeq(methods)[(i + 2) \div 3]
             kind == Kinds[1 + ((i + 2) % 3)]
  <2>1. m \in known /\ kind \in Range(Kinds)
    BY <1>5, <1>7, <1>8, <1>9
  <2>2. more[i] = <<"once", <<kind, InterfaceName(m)>>, {m}>>
    OBVIOUS
  <2> HIDE DEF m, kind, more
  <2>3. more[i] = <<"once", FileOf(kind, m), {m}>>
    BY <2>2 DEF FileOf
  <2>4. more[i][1] = "once" /\ more[i][2] = FileOf(kind, m)
    BY <2>3
  <2> QED
    BY <2>1, <2>3, <2>4 DEF m, kind
<1>11. DOMAIN more = 1 .. 3 * n /\ more \in Seq(GenSteps)
  <2>1. DOMAIN more = 1 .. 3 * n /\ 3 * n \in Nat /\ more = [i \in 1 .. 3 * n |-> more[i]]
    BY <1>7
  <2>2. \A i \in 1 .. 3 * n : more[i] \in GenSteps
    BY <1>10 DEF GenSteps
  <2> HIDE DEF more
  <2> QED
    BY <2>1, <2>2
<1> HIDE DEF more
<1>12. PICK list : list = more
  OBVIOUS
<1>13. /\ list \in Seq(GenSteps) /\ DOMAIN list = 1 .. 3 * n /\ Continue(list)
       /\ \A j \in 1 .. 3 * n : list[j][1] = "once"
       /\ \A i \in 1 .. 3 * n :
             list[i][2] = FileOf(Kinds[1 + ((i + 2) % 3)], SetToSeq(methods)[(i + 2) \div 3])
  <2>1. list \in Seq(GenSteps) /\ DOMAIN list = 1 .. 3 * n
    BY <1>11, <1>12
  <2>2. Continue(list)
    BY <1>1, <1>12
  <2>3. \A j \in 1 .. 3 * n : list[j][1] = "once"
    BY <1>10, <1>12
  <2>4. \A i \in 1 .. 3 * n :
           list[i][2] = FileOf(Kinds[1 + ((i + 2) % 3)], SetToSeq(methods)[(i + 2) \div 3])
    BY <1>10, <1>12
  <2> QED
    BY <2>1, <2>2, <2>3, <2>4
<1>14. /\ steps' \in Seq(GenSteps') /\ GenOrder' /\ (finished' => steps' = <<>>)
       /\ \A f : Makes(f) => Makes(f)' \/ f = Head(steps)[2]
       /\ \A op : Has(op) => Has(op)' \/ op = Head(steps)[1]
       /\ \A j \in DOMAIN list : Makes(list[j][2])'
       /\ \A f : ~Opened(f)'
  <2>1. list # <<>> => 1 \in DOMAIN list
    <3>1. \A q \in Seq(GenSteps) : q # <<>> => 1 \in DOMAIN q
      OBVIOUS
    <3> QED
      BY <1>13, <3>1
  <2>2. \A j \in DOMAIN list : list[j][1] = "once"
    BY <1>13
  <2> QED
    BY <1>1, <1>2, <1>13, <2>1, <2>2, RunGoesOn
<1>15. ASSUME NEW kind \in Range(Kinds), NEW m \in methods PROVE Makes(FileOf(kind, m))'
  <2>1. PICK j \in 1 .. 3 : kind = Kinds[j]
    BY <1>9
  <2>2. PICK i \in 1 .. n : SetToSeq(methods)[i] = m
    BY <1>7
  <2>3. PICK at \in 1 .. 3 * n : (at + 2) \div 3 = i /\ 1 + ((at + 2) % 3) = j
    <3> DEFINE at == 3 * (i - 1) + j
    <3>1. at \in 1 .. 3 * n /\ (at + 2) \div 3 = i /\ 1 + ((at + 2) % 3) = j
      BY <1>7
    <3> HIDE DEF at
    <3> QED
      BY <3>1
  <2>4. list[at][2] = FileOf(kind, m)
    BY <1>13, <2>1, <2>2, <2>3
  <2>5. at \in DOMAIN list
    BY <1>13
  <2>6. Makes(list[at][2])'
    BY <1>14, <2>5
  <2> QED
    BY <2>4, <2>6
<1>16. GenTypes'
  BY <1>1, <1>2, <1>14 DEF GenTypes
<1>17. GenFiles'
  <2>1. \A f \in Files : ~Opened(f)
    BY <1>1 DEF Opened
  <2> QED
    BY <1>1, <1>2, <1>14, <2>1 DEF GenFiles
<1>18. GenRun'
  <2>1. Content(proto)' = Content(proto)
    BY <1>1 DEF Content
  <2>2. Head(steps)[2] = One("interface")
    <3>1. known \subseteq Methods
      BY <1>2 DEF GenTypes
    <3> QED
      BY <1>1, <1>3 DEF GenSteps
  <2>3. One("interface") \notin Always /\ One("interface") \notin Fixed
    BY DEF One, Always, Fixed
  <2>4. \A f \in Always : Makes(f)' \/ files'[f] = {Content(proto)}
    BY <1>1, <1>2, <1>14, <2>2, <2>3 DEF GenRun
  <2>5. \A f \in Fixed : Makes(f)' \/ files'[f] # {}
    BY <1>1, <1>2, <1>14, <2>2, <2>3 DEF GenRun
  <2> QED
    BY <1>1, <1>2, <1>5, <1>14, <1>15, <2>1, <2>4, <2>5 DEF GenRun
<1> QED
  BY <1>14, <1>16, <1>17, <1>18 DEF GenInv

\* A run begins with everything to do.
LEMMA RunBegins ==
    ASSUME GenInv, Run
    PROVE  GenInv'
<1>1. /\ steps = <<>> /\ ~finished' /\ known' = known \cup proto
      /\ steps' = <<<<"copy", One("proto")>>, <<"protoc", One("pb")>>, GenMakefile, GenConfFile>> \o GenFrameworkCode
      /\ UNCHANGED <<proto, files, methods, torn>>
  BY DEF Run
<1>2. GenTypes /\ GenOrder /\ GenFiles /\ GenRun
  BY DEF GenInv
<1> DEFINE all == <<<<"copy", One("proto")>>, <<"protoc", One("pb")>>,
                    <<"once", One("makefile")>>, <<"once", One("conf")>>,
                    <<"parse", One("pb")>>, <<"once", One("business_exception.h")>>,
                    <<"gen_server", One("server.h")>>, <<"gen_server", One("server.cc")>>,
                    <<"once", One("main.cc")>>, <<"once", One("interface.h")>>,
                    <<"once", One("interface.cc")>>, <<"each", One("interface")>>>>
<1>3. steps' = all
  BY <1>1, ConcatFourEight
     DEF GenMakefile, GenConfFile, GenFrameworkCode, GenException, GenServerFile, GenMain,
         GenInterfaceBase, Once
<1>4. DOMAIN all = 1 .. 12 /\ Len(all) = 12 /\ all # <<>> /\ Head(all) = all[1]
  OBVIOUS
<1>5. 1 .. 12 = {1, 2, 3, 4, 5, 6, 7, 8, 9, 10, 11, 12}
  OBVIOUS
<1>6. /\ all[1] = <<"copy", One("proto")>> /\ all[2] = <<"protoc", One("pb")>>
      /\ all[3] = <<"once", One("makefile")>> /\ all[4] = <<"once", One("conf")>>
      /\ all[5] = <<"parse", One("pb")>> /\ all[6] = <<"once", One("business_exception.h")>>
      /\ all[7] = <<"gen_server", One("server.h")>> /\ all[8] = <<"gen_server", One("server.cc")>>
      /\ all[9] = <<"once", One("main.cc")>> /\ all[10] = <<"once", One("interface.h")>>
      /\ all[11] = <<"once", One("interface.cc")>> /\ all[12] = <<"each", One("interface")>>
  OBVIOUS
<1>7. /\ One("makefile") \in Fixed /\ One("conf") \in Fixed /\ One("business_exception.h") \in Fixed
      /\ One("main.cc") \in Fixed /\ One("interface.h") \in Fixed /\ One("interface.cc") \in Fixed
      /\ One("server.h") \in Servers /\ One("server.cc") \in Servers
  BY DEF Fixed, Servers
<1> HIDE DEF all
<1>8. all \in Seq(GenSteps')
  <2>3. \A f \in Fixed : <<"once", f>> \in GenSteps'
    BY DEF GenSteps
  <2>4. \A f \in Servers : <<"gen_server", f>> \in GenSteps'
    BY DEF GenSteps
  <2>5. all[1] \in GenSteps' /\ all[2] \in GenSteps' /\ all[5] \in GenSteps' /\ all[12] \in GenSteps'
    BY <1>6 DEF GenSteps
  <2>6. all[3] \in GenSteps' /\ all[4] \in GenSteps' /\ all[6] \in GenSteps'
    BY <1>6, <1>7, <2>3
  <2>7. all[9] \in GenSteps' /\ all[10] \in GenSteps' /\ all[11] \in GenSteps'
    BY <1>6, <1>7, <2>3
  <2>8. all[7] \in GenSteps' /\ all[8] \in GenSteps'
    BY <1>6, <1>7, <2>4
  <2>1. \A i \in 1 .. 12 : all[i] \in GenSteps'
    BY <1>5, <2>5, <2>6, <2>7, <2>8
  <2>2. all = [i \in 1 .. 12 |-> all[i]]
    <3>1. \A S : \A q \in Seq(S) : q = [i \in DOMAIN q |-> q[i]]
      OBVIOUS
    <3>2. all \in Seq({all[i] : i \in 1 .. 12})
      BY DEF all
    <3> QED
      BY <1>4, <3>1, <3>2
  <2> QED
    BY <2>1, <2>2
<1>9. GenOrder'
  <2>1. \A i \in 1 .. 12 : all[i][1] # "close"
    BY <1>5, <1>6
  <2>2. \A i \in 1 .. 12 : /\ all[i][1] = "copy" => i = 1
                           /\ all[i][1] = "protoc" => i = 2
                           /\ all[i][1] = "parse" => i = 5
                           /\ all[i][1] \in {"gen_server", "each"} => i \in {7, 8, 12}
    BY <1>5, <1>6
  <2>3. \A i, j \in 1 .. 12 : <<all[i][1], all[j][1]>> \in Before => i < j
    BY <2>2 DEF Before
  <2> QED
    BY <1>3, <1>4, <2>1, <2>3 DEF GenOrder
<1>10. \A f : ~Opened(f)'
  BY <1>3, <1>4, <1>6 DEF Opened
<1>11. GenTypes'
  <2>1. known' \in SUBSET Methods
    BY <1>1, <1>2 DEF GenTypes
  <2> QED
    BY <1>1, <1>2, <1>3, <1>8, <2>1 DEF GenTypes
<1>12. GenFiles'
  <2>1. \A f \in Files : ~Opened(f)
    BY <1>1 DEF Opened
  <2> QED
    BY <1>1, <1>2, <1>10, <2>1 DEF GenFiles
<1>13. ASSUME NEW i \in 1 .. 12, all[i][1] \in {"copy", "protoc", "gen_server", "once", "close"}
       PROVE  Makes(all[i][2])'
  <2>1. PICK f : f = all[i][2]
    OBVIOUS
  <2>2. Makes(f)'
    BY <1>3, <1>4, <1>13, <2>1 DEF Makes
  <2> QED
    BY <2>1, <2>2
<1>14. GenRun'
  <2>1. \A f \in Always : Makes(f)'
    <3>1. \A f \in Always : f = One("proto") \/ f = One("pb") \/ f = One("server.h") \/ f = One("server.cc")
      BY DEF Always
    <3>2. Makes(One("proto"))' /\ Makes(One("pb"))' /\ Makes(One("server.h"))' /\ Makes(One("server.cc"))'
      BY <1>5, <1>6, <1>13
    <3> QED
      BY <3>1, <3>2
  <2>2. \A f \in Fixed : Makes(f)'
    <3>1. \A f \in Fixed : f \in {One("makefile"), One("conf"), One("business_exception.h"),
                                  One("main.cc"), One("interface.h"), One("interface.cc")}
      BY DEF Fixed
    <3>2. /\ Makes(One("makefile"))' /\ Makes(One("conf"))' /\ Makes(One("business_exception.h"))'
          /\ Makes(One("main.cc"))' /\ Makes(One("interface.h"))' /\ Makes(One("interface.cc"))'
      BY <1>5, <1>6, <1>13
    <3> QED
      BY <3>1, <3>2
  <2>3. Has("parse")' /\ Has("each")'
    BY <1>3, <1>4, <1>6 DEF Has
  <2> QED
    BY <1>1, <2>1, <2>2, <2>3 DEF GenRun
<1> QED
  BY <1>9, <1>11, <1>12, <1>14 DEF GenInv

\* A run that is killed leaves the file it had open torn.
LEMMA KillStep ==
    ASSUME GenInv, Kill
    PROVE  GenInv'
<1>1. /\ steps # <<>> /\ steps' = <<>> /\ ~finished'
      /\ torn' = IF Step("close") THEN torn \cup {File} ELSE torn
      /\ UNCHANGED <<proto, files, methods, known>>
  BY DEF Kill
<1>2. GenTypes /\ GenOrder /\ GenFiles
  BY DEF GenInv
<1>3. \A f \in Files : Opened(f) => f \in torn'
  BY <1>1 DEF Opened, Step, File
<1>4. \A f : ~Opened(f)'
  BY <1>1 DEF Opened
<1>5. torn \subseteq torn'
  BY <1>1
<1>6. GenFiles'
  BY <1>1, <1>2, <1>3, <1>4, <1>5 DEF GenFiles
<1>7. GenTypes' /\ GenOrder'
  <2>1. <<>> \in Seq(GenSteps') /\ DOMAIN <<>> = {}
    OBVIOUS
  <2> QED
    BY <1>1, <1>2, <2>1 DEF GenTypes, GenOrder
<1>8. GenRun'
  BY <1>1 DEF GenRun
<1> QED
  BY <1>6, <1>7, <1>8 DEF GenInv

\* Between two runs the .proto file may change.
LEMMA ProtoStep ==
    ASSUME GenInv, ChangeProto
    PROVE  GenInv'
<1>1. /\ steps = <<>> /\ steps' = <<>> /\ ~finished' /\ proto' \in Protos
      /\ UNCHANGED <<files, methods, known, torn>>
  BY DEF ChangeProto
<1>2. GenTypes /\ GenOrder /\ GenFiles
  BY DEF GenInv
<1>3. proto' \in SUBSET Methods
  BY <1>1 DEF Protos
<1>4. \A f : ~Opened(f) /\ ~Opened(f)'
  BY <1>1 DEF Opened
<1>5. GenTypes' /\ GenOrder'
  <2>1. <<>> \in Seq(GenSteps') /\ DOMAIN <<>> = {}
    OBVIOUS
  <2> QED
    BY <1>1, <1>2, <1>3, <2>1 DEF GenTypes, GenOrder
<1>6. GenFiles'
  BY <1>1, <1>2, <1>4 DEF GenFiles
<1>7. GenRun'
  BY <1>1 DEF GenRun
<1> QED
  BY <1>5, <1>6, <1>7 DEF GenInv

\* An edited file stays what it was, and the others are not touched.
LEMMA EditStep ==
    ASSUME GenInv, NEW file \in Fixed \cup Interfaces, Edit(file)
    PROVE  /\ GenInv'
           /\ \A f \in Files : \A c \in files[f] : c.edited => files'[f] = files[f]
<1>1. /\ steps = <<>> /\ UNCHANGED <<proto, steps, methods, finished, torn, known>>
  BY DEF Edit
<1>2. PICK c \in files[file] : files' = [files EXCEPT ![file] = {[c EXCEPT !.edited = TRUE]}]
  BY DEF Edit
<1>3. GenTypes /\ GenOrder /\ GenFiles /\ GenRun
  BY DEF GenInv
<1> DEFINE d == [c EXCEPT !.edited = TRUE]
<1>4. file \in Files /\ file \notin Always
  BY FilesApart
<1>5. c \in Contents /\ files[file] = {c}
  BY <1>2, <1>3, <1>4 DEF GenTypes
<1>6. d \in Contents /\ d.whole = c.whole /\ d.for = c.for /\ (c.edited => d = c)
  BY <1>5 DEF Contents
<1> HIDE DEF d
<1>7. files'[file] = {d} /\ \A f \in Files : f # file => files'[f] = files[f]
  BY <1>2, <1>3, <1>4 DEF GenTypes, d
<1>8. GenTypes'
  <2>1. files' \in [Files -> {{}} \cup {{e} : e \in Contents}]
    BY <1>2, <1>3, <1>6 DEF GenTypes, d
  <2>2. GenSteps' = GenSteps
    BY <1>1 DEF GenSteps
  <2> QED
    BY <1>1, <1>3, <2>1, <2>2 DEF GenTypes
<1>9. GenOrder'
  BY <1>1, <1>3 DEF GenOrder
<1>10. \A f : ~Opened(f) /\ ~Opened(f)'
  BY <1>1 DEF Opened
<1>11. GenFiles'
  <2>1. \A f \in Files : f \in torn' \/ \A e \in files'[f] : e.whole
    BY <1>1, <1>3, <1>5, <1>6, <1>7, <1>10 DEF GenFiles
  <2>2. ASSUME NEW kind \in Range(Kinds), NEW m \in Methods, NEW e \in files'[FileOf(kind, m)], e.whole
        PROVE  \E n \in known : InterfaceName(n) = InterfaceName(m) /\ e.for = {n}
    <3>1. FileOf(kind, m) \in Files
      BY FilesApart
    <3>2. \E b \in files[FileOf(kind, m)] : b.whole /\ b.for = e.for
      BY <1>5, <1>6, <1>7, <2>2, <3>1
    <3> QED
      BY <1>3, <3>2 DEF GenFiles
  <2> QED
    BY <1>1, <1>10, <2>1, <2>2 DEF GenFiles
<1>12. GenRun'
  <2>1. \A f : Makes(f)' <=> Makes(f)
    BY <1>1 DEF Makes
  <2>2. \A op : Has(op)' <=> Has(op)
    BY <1>1 DEF Has
  <2>3. Content(proto)' = Content(proto)
    BY <1>1 DEF Content
  <2>4. \A f \in Files : (files'[f] = {}) <=> (files[f] = {})
    BY <1>5, <1>7
  <2>5. \A f \in Always : files'[f] = files[f]
    BY <1>4, <1>7, FilesApart
  <2>6. \A kind \in Range(Kinds), m \in proto : FileOf(kind, m) \in Files
    BY <1>3, FilesApart DEF GenTypes
  <2>7. \A f \in Fixed : f \in Files
    BY FilesApart
  <2> QED
    BY <1>1, <1>3, <2>1, <2>2, <2>3, <2>4, <2>5, <2>6, <2>7 DEF GenRun
<1>13. \A f \in Files : \A e \in files[f] : e.edited => files'[f] = files[f]
  BY <1>5, <1>6, <1>7
<1> QED
  BY <1>8, <1>9, <1>11, <1>12, <1>13 DEF GenInv

\* When a run has come to its end the project fits the .proto file.
LEMMA InvFitsTheProto ==
    ASSUME GenInv
    PROVE  FitsTheProto
<1>1. GenTypes /\ GenFiles /\ GenRun
  BY DEF GenInv
<1> SUFFICES ASSUME finished
             PROVE  /\ \A file \in Always : files[file] = {Content(proto)}
                    /\ \A file \in Fixed \ torn : \E c \in files[file] : c.whole
                    /\ \A m \in proto : (\A n \in known : InterfaceName(n) = InterfaceName(m) => n = m) =>
                          \A kind \in Range(Kinds) : <<kind, InterfaceName(m)>> \notin torn =>
                             \E c \in files[<<kind, InterfaceName(m)>>] : c.whole /\ c.for = {m}
  BY DEF FitsTheProto
<1>2. steps = <<>> /\ DOMAIN steps = {}
  BY <1>1 DEF GenRun
<1>3. (\A f : ~Makes(f) /\ ~Opened(f)) /\ (\A op : ~Has(op))
  BY <1>2 DEF Makes, Opened, Has
<1>4. proto \subseteq Methods
  BY <1>1 DEF GenTypes
<1>5. ASSUME NEW f \in Files, files[f] # {}, f \notin torn PROVE \E c \in files[f] : c.whole
  BY <1>1, <1>3, <1>5 DEF GenFiles
<1>6. \A file \in Always : files[file] = {Content(proto)}
  BY <1>1, <1>3 DEF GenRun
<1>7. \A file \in Fixed \ torn : \E c \in files[file] : c.whole
  BY <1>1, <1>3, <1>5, FilesApart DEF GenRun
<1>8. ASSUME NEW m \in proto, \A n \in known : InterfaceName(n) = InterfaceName(m) => n = m,
             NEW kind \in Range(Kinds), FileOf(kind, m) \notin torn
      PROVE  \E c \in files[FileOf(kind, m)] : c.whole /\ c.for = {m}
  <2>1. FileOf(kind, m) \in Files /\ files[FileOf(kind, m)] # {}
    BY <1>1, <1>3, <1>4, FilesApart DEF GenRun
  <2>2. PICK c \in files[FileOf(kind, m)] : c.whole
    BY <1>5, <1>8, <2>1
  <2>3. m \in Methods
    BY <1>4
  <2>4. PICK n \in known : InterfaceName(n) = InterfaceName(m) /\ c.for = {n}
    BY <1>1, <2>2, <2>3 DEF GenFiles
  <2> QED
    BY <1>8, <2>2, <2>4
<1> QED
  BY <1>6, <1>7, <1>8 DEF FileOf

\* A step keeps the invariant and what was edited.
LEMMA GeneratorStep ==
    ASSUME GenInv, [GeneratorNext]_generatorVars
    PROVE  GenInv' /\ EditsStay
<1>1. GenTypes /\ GenOrder /\ GenFiles /\ GenRun
  BY DEF GenInv
<1>2. \A file \in Fixed \cup Interfaces : file \in Files /\ file \notin Always
  BY FilesApart
<1>3. CASE files' = files
  <2>1. EditsStay
    BY <1>3 DEF EditsStay
  <2>2. CASE UNCHANGED generatorVars
    <3>1. GenSteps' = GenSteps /\ Content(proto)' = Content(proto) /\ Empty' = Empty
      BY <2>2 DEF generatorVars, GenSteps, Content, Empty
    <3>2. \A f : (Makes(f)' <=> Makes(f)) /\ (Has(f)' <=> Has(f)) /\ (Opened(f)' <=> Opened(f))
      BY <2>2 DEF generatorVars, Makes, Has, Opened
    <3>3. GenTypes' /\ GenOrder'
      BY <1>1, <2>2, <3>1 DEF generatorVars, GenTypes, GenOrder
    <3>4. GenFiles'
      BY <1>1, <2>2, <3>1, <3>2 DEF generatorVars, GenFiles
    <3>5. GenRun'
      BY <1>1, <2>2, <3>1, <3>2 DEF generatorVars, GenRun
    <3> QED
      BY <2>1, <3>3, <3>4, <3>5 DEF GenInv
  <2>3. CASE CopyProto \/ Protoc \/ GenServer \/ GenOnce \/ Close
    BY <2>1, <2>3, CopyStep, ProtocStep, ServerStep, OnceStep, CloseStep
  <2>4. CASE ParseServiceName \/ EachInterface \/ Run \/ Kill \/ ChangeProto
    BY <2>1, <2>4, ParseStep, EachStep, RunBegins, KillStep, ProtoStep
  <2>5. ASSUME NEW file \in Fixed \cup Interfaces, Edit(file) PROVE GenInv'
    BY <2>5, EditStep
  <2> QED
    BY <2>1, <2>2, <2>3, <2>4, <2>5 DEF GeneratorNext
<1>4. CASE CopyProto \/ Protoc
  <2>1. GenInv'
    BY <1>4, CopyStep, ProtocStep
  <2>2. PICK f \in {One("proto"), One("pb")} : \E c : files' = [files EXCEPT ![f] = {c}]
    BY <1>4 DEF CopyProto, Protoc
  <2>3. \A g \in Fixed \cup Interfaces : files'[g] = files[g]
    BY <1>1, <1>2, <2>2, FilesApart DEF GenTypes
  <2> QED
    BY <2>1, <2>3 DEF EditsStay
<1>5. CASE GenServer
  <2>1. GenInv'
    BY <1>5, ServerStep
  <2>2. steps # <<>> /\ Head(steps)[1] = "gen_server" /\ files' = [files EXCEPT ![File] = {Empty}]
    BY <1>5 DEF GenServer, Step, Open
  <2>3. Head(steps) \in GenSteps
    BY <1>1, <2>2 DEF GenTypes
  <2>4. File \in Always
    BY <2>2, <2>3, StepForms, FilesApart DEF File
  <2>5. \A f \in Fixed \cup Interfaces : files'[f] = files[f]
    BY <1>1, <1>2, <2>2, <2>4 DEF GenTypes
  <2> QED
    BY <2>1, <2>5 DEF EditsStay
<1>6. CASE GenOnce
  <2>1. GenInv'
    BY <1>6, OnceStep
  <2>2. files' = files \/ (files[File] = {} /\ files' = [files EXCEPT ![File] = {Empty}])
    BY <1>6 DEF GenOnce, Open
  <2>3. \A f \in Files : files'[f] = files[f] \/ files[f] = {}
    BY <1>1, <2>2 DEF GenTypes
  <2> QED
    BY <1>2, <2>1, <2>3 DEF EditsStay
<1>7. CASE Close
  <2>1. PICK file : file = File
    OBVIOUS
  <2>2. GenInv' /\ files[file] = {Empty} /\ (\A f \in Files : f # file => files'[f] = files[f])
    BY <1>7, <2>1, CloseStep
  <2>3. ~Empty.edited
    BY DEF Empty
  <2> QED
    BY <1>2, <2>2, <2>3 DEF EditsStay
<1>8. ASSUME NEW file \in Fixed \cup Interfaces, Edit(file) PROVE GenInv' /\ EditsStay
  BY <1>2, <1>8, EditStep DEF EditsStay
<1>9. CASE Run \/ ParseServiceName \/ EachInterface \/ Kill \/ ChangeProto
  <2>1. files' = files
    BY <1>9 DEF Run, ParseServiceName, EachInterface, Kill, ChangeProto
  <2> QED
    BY <1>3, <2>1
<1>10. CASE UNCHANGED generatorVars
  BY <1>3, <1>10 DEF generatorVars
<1> QED
  BY <1>4, <1>5, <1>6, <1>7, <1>8, <1>9, <1>10 DEF GeneratorNext

\* After every run the project fits the .proto file, and what the user edited is
\* kept (tirpc_generator.py:149-597): for every set of methods, any number of
\* runs, kills, edits and changes of the .proto file.
THEOREM GeneratorSoundHolds ==
    GeneratorInit /\ [][GeneratorNext]_generatorVars => GeneratorSound
<1>1. GeneratorInit => GenInv
  <2> SUFFICES ASSUME GeneratorInit PROVE GenInv
    OBVIOUS
  <2>1. /\ proto \in SUBSET Methods /\ files = [f \in Files |-> {}] /\ steps = <<>> /\ DOMAIN steps = {}
        /\ methods = {} /\ known = {} /\ ~finished /\ torn = {}
    BY DEF GeneratorInit, Protos
  <2>2. \A f : ~Opened(f)
    BY <2>1 DEF Opened
  <2>3. <<>> \in Seq(GenSteps)
    OBVIOUS
  <2>4. GenTypes /\ GenOrder /\ GenRun
    BY <2>1, <2>3 DEF GenTypes, GenOrder, GenRun
  <2>5. \A f \in Files : files[f] = {}
    BY <2>1
  <2>6. GenFiles
    BY <2>2, <2>5, FilesApart DEF GenFiles
  <2> QED
    BY <2>4, <2>6 DEF GenInv
<1>2. GenInv /\ [GeneratorNext]_generatorVars => GenInv' /\ EditsStay
  BY GeneratorStep
<1>3. GenInv => FitsTheProto
  BY InvFitsTheProto
<1>4. GeneratorSound <=> [][FitsTheProto' /\ EditsStay]_generatorVars
  BY DEF GeneratorSound
<1> QED
  BY <1>1, <1>2, <1>3, <1>4, PTL

----------------------------------------------------------------------------
(* Registry: the invariant.                                                *)

\* What the tree can hold, and what is in a list of children.
Nodes == Paths \cup {AddressPath(s, p) : s \in Services, p \in Processes}
Names == {Last(node) : node \in Nodes}
ChildLists == {{}} \cup {{list} : list \in SUBSET Names}
Reads == {{}} \cup {{<<path, list>>} : path \in Paths, list \in SUBSET Names}
Ops == {"create", "make", "delete", "drop", "children", "read", "store", "prune", "stop"}

RegTypes ==
    /\ nodes \subseteq Nodes /\ watches \subseteq Processes \X Paths
    /\ events \in [Processes -> Seq(Paths)]
    /\ session \in [Processes -> {"new", "waiting", "open", "closed"}]
    /\ stage \in [Processes -> {"new", "registered", "cleared", "dead"}]
    /\ todo \in [Processes -> Seq(Ops \X Nodes)]
    /\ got \in [Processes -> SUBSET Names]
    /\ watcher \in [Processes -> Reads]
    /\ cache \in [Processes -> [Paths -> ChildLists]]
    /\ served \in [Processes -> SUBSET Services]
    /\ blind \in [Processes -> SUBSET Paths]
    /\ discovers \in [Processes -> Nat]

\* What is left of each kind of call: of Init, of Register, of Discover and of
\* Clear, which deletes the addresses, then looks at each path once.
CreateOps == {"create", "make"}
Founding(t) == Len(t) = 1 /\ t[1] \in CreateOps \X {Root}
Listing(t, p, s) ==
    \/ Len(t) = 2 /\ t[1] \in CreateOps \X {ServicePath(s)} /\ t[2] = <<"create", AddressPath(s, p)>>
    \/ Len(t) = 1 /\ t[1] \in CreateOps \X {AddressPath(s, p)}
Asking(t) == Len(t) = 1 /\ t[1] \in {"children", "read", "store"} \X Paths
Addresses(p) == {AddressPath(s, p) : s \in Services}
Ending(t, p) ==
    /\ t # <<>> /\ t[Len(t)] = <<"stop", Root>>
    /\ \A i \in 1 .. Len(t) - 1 :
          /\ t[i] \in ({"delete", "drop"} \X Addresses(p))
                      \cup ({"children", "read", "store", "prune", "delete", "drop"} \X Paths)
          /\ i > 1 => t[i] \in ({"delete"} \X Addresses(p)) \cup ({"children"} \X Paths)
          /\ \A j \in 1 .. Len(t) - 1 :
                /\ t[i][2] = t[j][2] => i = j
                /\ i < j /\ t[j][2] \notin Paths => t[i][2] \notin Paths
    /\ \A s \in Services : (\E i \in 1 .. Len(t) - 1 : t[i][2] = AddressPath(s, p)) =>
          \E j \in 1 .. Len(t) - 1 : t[j][2] = ServicePath(s)

RegCalls ==
    \A p \in Processes :
        /\ \/ todo[p] = <<>> /\ session[p] # "waiting"
           \/ Founding(todo[p]) /\ stage[p] = "new" /\ session[p] \in {"waiting", "open"}
           \/ session[p] = "open" /\ stage[p] = "registered" /\ \E s \in served[p] : Listing(todo[p], p, s)
           \/ session[p] = "open" /\ Asking(todo[p]) /\ discovers[p] # 0
           \/ session[p] = "open" /\ stage[p] = "registered" /\ Ending(todo[p], p)
        /\ session[p] = "new" => stage[p] = "new"
        /\ session[p] = "closed" <=> stage[p] \in {"cleared", "dead"}
        /\ stage[p] = "new" => served[p] = {}
        /\ stage[p] = "registered" => served[p] # {} \/ Clearing(p)

\* Unless the faults allow it, nobody clears while somebody registers, and then
\* the nodes stay that are there or on their way.
RegListed ==
    "clearing" \notin faults =>
        /\ \A p, q \in Processes : ~(Clearing(p) /\ Registering(q))
        /\ \A p \in Processes :
              /\ stage[p] = "new" /\ session[p] = "open" => Founding(todo[p]) \/ Root \in nodes
              /\ \A s \in Services : Listing(todo[p], p, s) =>
                    IF Len(todo[p]) = 2 THEN Root \in nodes ELSE ServicePath(s) \in nodes
              /\ stage[p] = "registered" /\ session[p] = "open" /\ ~Clearing(p) =>
                    \A s \in served[p] : AddressPath(s, p) \in nodes \/ Listing(todo[p], p, s)

\* An address in the tree is of a process that will take it away, or that died.
Left(p, path) == \E i \in DOMAIN todo[p] : todo[p][i][2] = path /\ todo[p][i][1] # "stop"
RegOwned ==
    /\ \A node \in nodes : node = Root \/ Front(node) \in nodes
    /\ \A p \in Processes, s \in Services : AddressPath(s, p) \in nodes =>
          s \in served[p] /\ stage[p] \in {"registered", "dead"} /\ (Clearing(p) => Left(p, AddressPath(s, p)))

\* A process that has asked for nothing has nothing in its cache until it clears.
Untouched(p, path) ==
    /\ cache[p][path] = {} /\ <<p, path>> \notin watches
    /\ path \notin Range(events[p]) /\ \A read \in watcher[p] : read[1] # path
RegUntouched ==
    \A p \in Processes, path \in Paths :
        /\ discovers[p] = 0 /\ stage[p] \in {"new", "registered"}
        /\ Clearing(p) => \E i \in DOMAIN todo[p] : todo[p][i] \in {"children", "read"} \X {path}
        => Untouched(p, path)

\* The node of a service is there while someone will look whether it is empty.
Looks(p, s) ==
    /\ s \in served[p] /\ stage[p] \in {"registered", "dead"}
    /\ Clearing(p) => /\ Left(p, ServicePath(s))
                      /\ Head(todo[p]) \in {"store", "prune"} \X {ServicePath(s)} => got[p] = {}
RegLeft ==
    (\A p \in Processes : discovers[p] = 0) =>
        \A s \in Services : ServicePath(s) \in nodes => \E p \in Processes : Looks(p, s)

\* What is watched, or has been, is in the cache or will be; and unless the
\* watcher's thread still has to look, what is or will be there is up to date.

Storing(p, path) == Busy(p) /\ Head(todo[p]) = <<"store", path>>
Reading(p, path) == Busy(p) /\ Head(todo[p]) = <<"read", path>>
FreshIn(p, path) ==
    /\ <<p, path>> \in watches \/ path \in Range(events[p]) \/ (\E read \in watcher[p] : read[1] = path)
          => cache[p][path] # {} \/ Storing(p, path)
    /\ Reading(p, path) \/ Storing(p, path) => cache[p][path] = {}
    /\ Storing(p, path) => \A read \in watcher[p] : read[1] # path
    /\ path \in blind[p] \/ path \in Range(events[p]) \/
          /\ \A read \in watcher[p] :
                read[1] = path => read[2] = Children(path) /\ <<p, path>> \in watches
          /\ Storing(p, path) => got[p] = Children(path) /\ <<p, path>> \in watches
          /\ cache[p][path] # {} /\ (\A read \in watcher[p] : read[1] # path) =>
                cache[p][path] = {Children(path)} /\ <<p, path>> \in watches
RegFresh ==
    "preempt" \notin faults =>
        \A p \in Processes, path \in Paths : session[p] # "closed" => FreshIn(p, path)

\* Nothing is claimed once a session has expired.
RegInv ==
    "expired" \notin faults =>
        RegTypes /\ RegCalls /\ RegListed /\ RegOwned /\ RegUntouched /\ RegLeft /\ RegFresh

----------------------------------------------------------------------------
(* Paths and sequences.                                                    *)

\* The paths of the tree differ, and a path's parent is one level up.
LEMMA PathFacts ==
    /\ Root \in Paths /\ \A s \in Services : ServicePath(s) \in Paths /\ ServicePath(s) # Root
    /\ \A path \in Paths : path = Root \/ \E s \in Services : path = ServicePath(s)
    /\ \A s, t : ServicePath(s) = ServicePath(t) => s = t
    /\ \A s, t, p, q : AddressPath(s, p) = AddressPath(t, q) => s = t /\ p = q
    /\ \A s, p : AddressPath(s, p) \notin Paths
    /\ \A s : Len(ServicePath(s)) = 2 /\ Front(ServicePath(s)) = Root
    /\ \A s, p : Len(AddressPath(s, p)) = 3 /\ Front(AddressPath(s, p)) = ServicePath(s)
    /\ Len(Root) = 1 /\ Front(Root) \notin Paths /\ \A s, p : Front(Root) # AddressPath(s, p)
<1>1. Len(Root) = 1 /\ \A s, p : Len(ServicePath(s)) = 2 /\ Len(AddressPath(s, p)) = 3
  BY DEF Root, ServicePath, AddressPath
<1>2. ASSUME NEW s PROVE Front(ServicePath(s)) = Root
  <2>1. PICK path : path = ServicePath(s)
    OBVIOUS
  <2>2. path \in Seq({"tirpc", s}) /\ Len(path) = 2 /\ path[1] = "tirpc"
    BY <2>1 DEF ServicePath
  <2>3. SubSeq(path, 1, 1) = [i \in 1 .. 1 |-> path[i]]
    BY <2>2
  <2>4. Root = [i \in 1 .. 1 |-> "tirpc"]
    BY DEF Root
  <2>5. SubSeq(path, 1, 1) = Root
    BY <2>2, <2>3, <2>4
  <2> QED
    BY <2>1, <2>2, <2>5 DEF Front
<1>3. ASSUME NEW s, NEW p PROVE Front(AddressPath(s, p)) = ServicePath(s)
  <2>1. PICK path : path = AddressPath(s, p)
    OBVIOUS
  <2>2. path \in Seq({"tirpc", s, p}) /\ Len(path) = 3 /\ path[1] = "tirpc" /\ path[2] = s
    BY <2>1 DEF AddressPath
  <2>3. SubSeq(path, 1, 2) = [i \in 1 .. 2 |-> path[i]]
    BY <2>2
  <2>4. ServicePath(s) = [i \in 1 .. 2 |-> IF i = 1 THEN "tirpc" ELSE s]
    BY DEF ServicePath
  <2>5. SubSeq(path, 1, 2) = ServicePath(s)
    BY <2>2, <2>3, <2>4
  <2> QED
    BY <2>1, <2>2, <2>5 DEF Front
<1>4. Front(Root) \notin Paths /\ \A s, p : Front(Root) # AddressPath(s, p)
  <2>1. Len(Front(Root)) = 0
    <3>1. PICK path : path = Root
      OBVIOUS
    <3>2. path \in Seq({"tirpc"}) /\ Len(path) = 1
      BY <3>1 DEF Root
    <3>3. Len(SubSeq(path, 1, 0)) = 0
      BY <3>2
    <3> QED
      BY <3>1, <3>2, <3>3 DEF Front
  <2> QED
    BY <1>1, <2>1 DEF Paths
<1>5. /\ \A s, t : ServicePath(s) = ServicePath(t) => s = t
      /\ \A s, t, p, q : AddressPath(s, p) = AddressPath(t, q) => s = t /\ p = q
  BY DEF ServicePath, AddressPath
<1>6. \A s, p : AddressPath(s, p) \notin Paths
  BY <1>1 DEF Paths
<1> QED
  BY <1>1, <1>2, <1>3, <1>4, <1>5, <1>6 DEF Paths

\* What becomes of a call's list when its first step goes on or is done.
LEMMA ListFacts ==
    ASSUME NEW S, NEW t \in Seq(S), t # <<>>, NEW x \in S
    PROVE  /\ Len(t) \in Nat \ {0} /\ DOMAIN t = 1 .. Len(t) /\ Head(t) = t[1] /\ Last(t) = t[Len(t)]
           /\ \A i \in 1 .. Len(t) : t[i] \in S
           /\ LET u == [t EXCEPT ![1] = x] IN
              /\ u \in Seq(S) /\ Len(u) = Len(t) /\ u # <<>> /\ Head(u) = x /\ u[1] = x
              /\ \A i \in 2 .. Len(t) : u[i] = t[i]
              /\ Last(u) = (IF Len(t) = 1 THEN x ELSE Last(t))
           /\ LET v == Tail(t) IN
              /\ v \in Seq(S) /\ Len(v) = Len(t) - 1 /\ (v = <<>> <=> Len(t) = 1)
              /\ \A i \in 1 .. Len(t) - 1 : v[i] = t[i + 1]
              /\ Len(t) # 1 => Last(v) = Last(t) /\ Head(v) = t[2]
<1>1. /\ Len(t) \in Nat \ {0} /\ DOMAIN t = 1 .. Len(t) /\ Head(t) = t[1]
      /\ \A i \in 1 .. Len(t) : t[i] \in S
  OBVIOUS
<1>2. Last(t) = t[Len(t)]
  BY DEF Last
<1>3. PICK u : u = [t EXCEPT ![1] = x]
  OBVIOUS
<1>4. /\ u \in Seq(S) /\ Len(u) = Len(t) /\ u # <<>> /\ Head(u) = x /\ u[1] = x
      /\ \A i \in 2 .. Len(t) : u[i] = t[i]
  BY <1>1, <1>3
<1>5. Last(u) = u[Len(u)]
  BY <1>4 DEF Last
<1>6. Last(u) = (IF Len(t) = 1 THEN x ELSE Last(t))
  BY <1>1, <1>2, <1>4, <1>5
<1>7. PICK v : v = Tail(t)
  OBVIOUS
<1>8. /\ v \in Seq(S) /\ Len(v) = Len(t) - 1 /\ (v = <<>> <=> Len(t) = 1)
      /\ \A i \in 1 .. Len(t) - 1 : v[i] = t[i + 1]
  BY <1>1, <1>7
<1>9. ASSUME Len(t) # 1 PROVE Last(v) = Last(t) /\ Head(v) = t[2]
  <2>1. v # <<>> /\ Len(v) \in 1 .. Len(t) - 1 /\ 1 \in 1 .. Len(t) - 1
    BY <1>1, <1>8, <1>9
  <2>2. Last(v) = v[Len(v)] /\ Head(v) = v[1]
    BY <1>8, <2>1 DEF Last
  <2> QED
    BY <1>1, <1>2, <1>8, <2>1, <2>2
<1> QED
  BY <1>1, <1>2, <1>3, <1>4, <1>6, <1>7, <1>8, <1>9

\* What is left of Clear after a step of it.
VisitOps == {"children", "read", "store", "prune", "delete", "drop"}
\* What is left of Clear is still a list of Clear after a step.
LEMMA EndingGoesOn ==
    ASSUME NEW p, NEW t \in Seq(Ops \X Nodes), Ending(t, p), Len(t) # 1, NEW x \in Ops \X Nodes,
           x \in ({"delete", "drop"} \X Addresses(p)) \cup (VisitOps \X Paths), x[2] = t[1][2]
    PROVE  Ending([t EXCEPT ![1] = x], p) /\ Ending(Tail(t), p)
<1> DEFINE u == [t EXCEPT ![1] = x]
           v == Tail(t)
<1>1. t # <<>> /\ t[Len(t)] = <<"stop", Root>>
  BY DEF Ending
<1>2. Len(t) \in Nat \ {0}
  BY <1>1, ListFacts
<1>3. Len(u) = Len(t) /\ u # <<>> /\ u[1] = x /\ \A i \in 2 .. Len(t) : u[i] = t[i]
  BY <1>1, ListFacts
<1>4. Len(v) = Len(t) - 1 /\ (v = <<>> <=> Len(t) = 1) /\ \A i \in 1 .. Len(t) - 1 : v[i] = t[i + 1]
  BY <1>1, ListFacts
<1> HIDE DEF u, v
<1>5. Ending(u, p)
  <2>1. u[Len(u)] = <<"stop", Root>>
    BY <1>1, <1>2, <1>3
  <2>2. \A i \in 1 .. Len(t) - 1 : u[i][2] = t[i][2]
    BY <1>2, <1>3
  <2>3. \A i \in 1 .. Len(t) - 1 :
           u[i] \in ({"delete", "drop"} \X Addresses(p))
                       \cup ({"children", "read", "store", "prune", "delete", "drop"} \X Paths)
    BY <1>2, <1>3 DEF Ending, VisitOps
  <2>4. \A i \in 1 .. Len(t) - 1 :
           i > 1 => u[i] \in ({"delete"} \X Addresses(p)) \cup ({"children"} \X Paths)
    BY <1>2, <1>3 DEF Ending
  <2>5. \A i, j \in 1 .. Len(t) - 1 :
           /\ u[i][2] = u[j][2] => i = j
           /\ i < j /\ u[j][2] \notin Paths => u[i][2] \notin Paths
    BY <2>2 DEF Ending
  <2>6. \A s \in Services : (\E i \in 1 .. Len(t) - 1 : u[i][2] = AddressPath(s, p)) =>
           \E j \in 1 .. Len(t) - 1 : u[j][2] = ServicePath(s)
    <3> SUFFICES ASSUME NEW s \in Services, NEW i \in 1 .. Len(t) - 1, u[i][2] = AddressPath(s, p)
                 PROVE  \E j \in 1 .. Len(t) - 1 : u[j][2] = ServicePath(s)
      OBVIOUS
    <3>1. t[i][2] = AddressPath(s, p)
      BY <2>2
    <3>2. PICK j \in 1 .. Len(t) - 1 : t[j][2] = ServicePath(s)
      BY <3>1 DEF Ending
    <3> QED
      BY <2>2, <3>2
  <2> QED
    BY <1>3, <2>1, <2>3, <2>4, <2>5, <2>6 DEF Ending
<1>6. Ending(v, p)
  <2>1. v[Len(v)] = <<"stop", Root>> /\ v # <<>>
    BY <1>1, <1>2, <1>4
  <2>2. \A i \in 1 .. Len(v) - 1 : i + 1 \in 1 .. Len(t) - 1 /\ i + 1 > 1 /\ v[i] = t[i + 1]
    BY <1>2, <1>4
  <2>3. \A i \in 1 .. Len(v) - 1 : v[i] \in ({"delete"} \X Addresses(p)) \cup ({"children"} \X Paths)
    <3>1. \A i \in 1 .. Len(t) - 1 : i > 1 => t[i] \in ({"delete"} \X Addresses(p)) \cup ({"children"} \X Paths)
      BY DEF Ending
    <3> QED
      BY <2>2, <3>1
  <2>4. \A i, j \in 1 .. Len(v) - 1 :
           /\ v[i][2] = v[j][2] => i = j
           /\ i < j /\ v[j][2] \notin Paths => v[i][2] \notin Paths
    <3> TAKE i, j \in 1 .. Len(v) - 1
    <3>1. \A k, l \in 1 .. Len(t) - 1 :
             /\ t[k][2] = t[l][2] => k = l
             /\ k < l /\ t[l][2] \notin Paths => t[k][2] \notin Paths
      BY DEF Ending
    <3>2. i + 1 \in 1 .. Len(t) - 1 /\ j + 1 \in 1 .. Len(t) - 1 /\ v[i] = t[i + 1] /\ v[j] = t[j + 1]
      BY <2>2
    <3> QED
      BY <3>1, <3>2
  <2>5. ASSUME NEW s \in Services, NEW i \in 1 .. Len(v) - 1, v[i][2] = AddressPath(s, p)
        PROVE  \E j \in 1 .. Len(v) - 1 : v[j][2] = ServicePath(s)
    <3>1. t[i + 1][2] = AddressPath(s, p) /\ i + 1 \in 1 .. Len(t) - 1
      BY <2>2, <2>5
    <3>2. PICK k \in 1 .. Len(t) - 1 : t[k][2] = ServicePath(s)
      BY <3>1 DEF Ending
    <3>3. 1 \in 1 .. Len(t) - 1 /\ 1 < i + 1
      BY <3>1
    <3>4. t[1][2] \notin Paths
      <4>1. t[i + 1][2] \notin Paths
        BY <3>1, PathFacts
      <4>2. \A l, m \in 1 .. Len(t) - 1 : l < m /\ t[m][2] \notin Paths => t[l][2] \notin Paths
        BY DEF Ending
      <4> QED
        BY <3>1, <3>3, <4>1, <4>2
    <3>5. k # 1
      BY <3>2, <3>4, PathFacts
    <3>6. k - 1 \in 1 .. Len(v) - 1 /\ (k - 1) + 1 = k
      BY <1>2, <1>4, <3>5
    <3>7. v[k - 1] = t[k]
      BY <2>2, <3>6
    <3> QED
      BY <3>2, <3>6, <3>7
  <2> QED
    BY <2>1, <2>3, <2>4, <2>5 DEF Ending
<1> QED
  BY <1>5, <1>6 DEF u, v

\* The kinds of call differ in their steps.
LEMMA CallKinds ==
    ASSUME RegTypes, RegCalls, NEW p \in Processes, Busy(p)
    PROVE  /\ todo[p] \in Seq(Ops \X Nodes) /\ todo[p] # <<>> /\ Len(todo[p]) \in Nat \ {0}
           /\ Head(todo[p]) = todo[p][1] /\ Path(p) = todo[p][1][2] /\ Last(todo[p]) = todo[p][Len(todo[p])]
           /\ todo[p][1] = <<todo[p][1][1], Path(p)>> /\ todo[p][1] \in Ops \X Nodes
           /\ \/ Founding(todo[p]) /\ stage[p] = "new" /\ session[p] \in {"waiting", "open"} /\ Registering(p)
                   /\ ~Clearing(p) /\ Path(p) = Root /\ todo[p][1][1] \in CreateOps
              \/ /\ session[p] = "open" /\ stage[p] = "registered" /\ Registering(p) /\ ~Clearing(p)
                 /\ \E s \in served[p] : /\ Listing(todo[p], p, s) /\ todo[p][1][1] \in CreateOps
                                         /\ Path(p) = IF Len(todo[p]) = 2 THEN ServicePath(s) ELSE AddressPath(s, p)
              \/ /\ session[p] = "open" /\ Asking(todo[p]) /\ discovers[p] # 0 /\ ~Clearing(p)
                 /\ todo[p][1][1] \in {"children", "read", "store"} /\ Path(p) \in Paths
                 /\ (Registering(p) <=> stage[p] = "new")
              \/ /\ session[p] = "open" /\ stage[p] = "registered" /\ Ending(todo[p], p)
                 /\ Clearing(p) /\ ~Registering(p)
                 /\ IF Len(todo[p]) = 1 THEN todo[p][1] = <<"stop", Root>>
                    ELSE todo[p][1] \in ({"delete", "drop"} \X Addresses(p)) \cup (VisitOps \X Paths)
<1>1. /\ todo[p] \in Seq(Ops \X Nodes) /\ todo[p] # <<>>
  BY DEF RegTypes, Busy
<1>2. /\ Len(todo[p]) \in Nat \ {0} /\ Head(todo[p]) = todo[p][1] /\ Path(p) = todo[p][1][2]
      /\ Last(todo[p]) = todo[p][Len(todo[p])] /\ todo[p][1] \in Ops \X Nodes
  BY <1>1, ListFacts DEF Path
<1>3. todo[p][1] = <<todo[p][1][1], todo[p][1][2]>>
  BY <1>2
<1>4. CASE Founding(todo[p]) /\ stage[p] = "new" /\ session[p] \in {"waiting", "open"}
  BY <1>1, <1>2, <1>3, <1>4 DEF Founding, CreateOps, Registering, Clearing
<1>5. CASE session[p] = "open" /\ stage[p] = "registered" /\ \E s \in served[p] : Listing(todo[p], p, s)
  <2>1. PICK s \in served[p] : Listing(todo[p], p, s)
    BY <1>5
  <2>2. todo[p][1][1] \in CreateOps /\ todo[p][Len(todo[p])][1] \in CreateOps
        /\ Path(p) = IF Len(todo[p]) = 2 THEN ServicePath(s) ELSE AddressPath(s, p)
    BY <1>2, <2>1 DEF Listing, CreateOps
  <2>3. Registering(p) /\ ~Clearing(p)
    BY <1>2, <2>2 DEF Registering, Clearing, CreateOps, Busy
  <2> QED
    BY <1>1, <1>2, <1>3, <1>5, <2>1, <2>2, <2>3
<1>6. CASE session[p] = "open" /\ Asking(todo[p]) /\ discovers[p] # 0
  <2>1. todo[p][1][1] \in {"children", "read", "store"} /\ Path(p) \in Paths /\ Len(todo[p]) = 1
    BY <1>2, <1>6 DEF Asking
  <2>2. ~Clearing(p) /\ (Registering(p) <=> stage[p] = "new")
    BY <1>2, <1>6, <2>1 DEF Registering, Clearing
  <2> QED
    BY <1>1, <1>2, <1>3, <1>6, <2>1, <2>2
<1>7. CASE session[p] = "open" /\ stage[p] = "registered" /\ Ending(todo[p], p)
  <2>1. todo[p][Len(todo[p])] = <<"stop", Root>>
    BY <1>7 DEF Ending
  <2>2. Clearing(p) /\ ~Registering(p)
    BY <1>2, <1>7, <2>1 DEF Registering, Clearing, Busy
  <2>3. Len(todo[p]) # 1 => 1 \in 1 .. Len(todo[p]) - 1
    <3>1. \A k \in Nat \ {0} : k # 1 => 1 \in 1 .. k - 1
      OBVIOUS
    <3> QED
      BY <1>2, <3>1
  <2>4. IF Len(todo[p]) = 1 THEN todo[p][1] = <<"stop", Root>>
        ELSE todo[p][1] \in ({"delete", "drop"} \X Addresses(p)) \cup (VisitOps \X Paths)
    BY <1>7, <2>1, <2>3 DEF Ending, VisitOps
  <2> QED
    BY <1>1, <1>2, <1>3, <1>7, <2>2, <2>4
<1>8. todo[p] # <<>>
  BY <1>1
<1> QED
  BY <1>4, <1>5, <1>6, <1>7, <1>8 DEF RegCalls

\* The steps a call's first step goes on to.
Follows(p, op) ==
    LET now == todo[p][1][1] IN
    \/ <<now, op>> \in {<<"create", "make">>, <<"children", "read">>, <<"read", "store">>,
                        <<"delete", "drop">>, <<"prune", "delete">>}
    \/ Clearing(p) /\ now \in {"children", "store"} /\ op = "prune"

\* A call that goes on stays what it is.
LEMMA CallBecomes ==
    ASSUME RegTypes, RegCalls, NEW p \in Processes, Busy(p), NEW op, Becomes(p, op), Follows(p, op),
           UNCHANGED <<session, stage, served, discovers>>
    PROVE  /\ todo' \in [Processes -> Seq(Ops \X Nodes)] /\ RegCalls'
           /\ \A q \in Processes :
                 /\ (Clearing(q)' <=> Clearing(q)) /\ (Registering(q)' <=> Registering(q))
                 /\ (Founding(todo[q])' <=> Founding(todo[q])) /\ Len(todo'[q]) = Len(todo[q])
                 /\ (\A s : Listing(todo[q], q, s)' <=> Listing(todo[q], q, s))
                 /\ (\A path : Left(q, path)' <=> Left(q, path))
                 /\ q # p => todo'[q] = todo[q]
           /\ todo'[p] # <<>> /\ Head(todo'[p]) = <<op, Path(p)>> /\ todo'[p][1] = <<op, Path(p)>>
           /\ DOMAIN todo'[p] = DOMAIN todo[p] /\ \A i \in DOMAIN todo[p] : i # 1 => todo'[p][i] = todo[p][i]
<1> DEFINE t == todo[p]
           x == <<op, Path(p)>>
           u == [t EXCEPT ![1] = x]
<1>1. /\ t \in Seq(Ops \X Nodes) /\ t # <<>> /\ Len(t) \in Nat \ {0}
      /\ Path(p) = t[1][2] /\ t[1] \in Ops \X Nodes /\ t[1] = <<t[1][1], Path(p)>>
  BY CallKinds
<1>2. x \in Ops \X Nodes
  BY <1>1 DEF Follows, Ops
<1>3. /\ u \in Seq(Ops \X Nodes) /\ Len(u) = Len(t) /\ u # <<>> /\ Head(u) = x /\ u[1] = x
      /\ \A i \in 2 .. Len(t) : u[i] = t[i]
  BY <1>1, <1>2, ListFacts
<1>4. Last(u) = (IF Len(t) = 1 THEN x ELSE Last(t)) /\ Last(t) = t[Len(t)]
  <2>1. Last(t) = t[Len(t)]
    BY CallKinds
  <2>2. Last(u) = u[Len(t)]
    BY <1>3 DEF Last
  <2> HIDE DEF t, u
  <2>3. CASE Len(t) = 1
    BY <1>3, <2>1, <2>2, <2>3
  <2>4. CASE Len(t) # 1
    <3>2. \A k \in Nat \ {0} : k # 1 => k \in 2 .. k
      OBVIOUS
    <3>1. Len(t) \in 2 .. Len(t)
      BY <1>1, <2>4, <3>2
    <3> QED
      BY <1>3, <2>1, <2>2, <2>4, <3>1
  <2> QED
    BY <2>3, <2>4, <2>1
<1>5. todo' = [todo EXCEPT ![p] = u]
  BY DEF Becomes
<1>6. DOMAIN t = 1 .. Len(t) /\ DOMAIN u = 1 .. Len(t)
  BY <1>1, <1>3
<1> HIDE DEF u
<1>7. todo' \in [Processes -> Seq(Ops \X Nodes)] /\ todo'[p] = u /\ \A q \in Processes : q # p => todo'[q] = todo[q]
  BY <1>3, <1>5 DEF RegTypes
<1>8. \A i \in 1 .. Len(t) : i # 1 => i \in 2 .. Len(t)
  BY <1>1
<1>9. \A i \in 1 .. Len(t) : u[i][2] = t[i][2]
  BY <1>1, <1>3, <1>8
<1>10. op \notin {"stop", "create"} /\ t[1][1] # "stop"
  BY DEF Follows
<1>11. t[1][1] \in CreateOps <=> op \in CreateOps
  BY DEF Follows, CreateOps
<1>12. (Last(u)[1] = "stop" <=> Last(t)[1] = "stop") /\ (Last(u)[1] \in {"create", "make"} <=> Last(t)[1] \in {"create", "make"})
  BY <1>1, <1>4, <1>10, <1>11 DEF CreateOps
<1>13. (Clearing(p)' <=> Clearing(p)) /\ (Registering(p)' <=> Registering(p))
  BY <1>1, <1>3, <1>7, <1>12 DEF Clearing, Registering, Busy
<1>14. (Founding(u) <=> Founding(t)) /\ \A s : Listing(u, p, s) <=> Listing(t, p, s)
  BY <1>1, <1>3, <1>11 DEF Founding, Listing, CreateOps
<1>15. \A path : Left(p, path)' <=> Left(p, path)
  <2>1. \A i \in 1 .. Len(t) : u[i][2] = t[i][2] /\ (u[i][1] = "stop" <=> t[i][1] = "stop")
    BY <1>3, <1>8, <1>9, <1>10
  <2> QED
    BY <1>6, <1>7, <2>1 DEF Left
<1>16. ASSUME NEW q \in Processes, q # p
       PROVE  /\ (Clearing(q)' <=> Clearing(q)) /\ (Registering(q)' <=> Registering(q))
              /\ \A path : Left(q, path)' <=> Left(q, path)
  BY <1>7, <1>16 DEF Clearing, Registering, Busy, Left
<1>17. CASE ~Clearing(p) /\ Path(p) \in Paths /\ t[1][1] \in {"children", "read", "store"}
  <2>1. op \in {"read", "store"}
    BY <1>17 DEF Follows
  <2>2. Asking(t) => Asking(u)
    BY <1>1, <1>3, <1>17, <2>1 DEF Asking
  <2>3. RegCalls'
    BY <1>1, <1>3, <1>7, <1>13, <1>14, <1>16, <1>17, <2>2, CallKinds DEF RegCalls, CreateOps
  <2> QED
    BY <1>3, <1>6, <1>7, <1>8, <1>13, <1>14, <1>15, <1>16, <2>3
<1>18. CASE Clearing(p)
  <2>1. Len(t) # 1 /\ Ending(t, p) /\ t[1] \in ({"delete", "drop"} \X Addresses(p)) \cup (VisitOps \X Paths)
    BY <1>10, <1>18, CallKinds
  <2>2. x \in ({"delete", "drop"} \X Addresses(p)) \cup (VisitOps \X Paths)
    BY <1>1, <2>1 DEF Follows, VisitOps
  <2>3. Ending(u, p)
    BY <1>1, <1>2, <2>1, <2>2, EndingGoesOn DEF u
  <2>4. RegCalls'
    BY <1>3, <1>7, <1>13, <1>16, <1>18, <2>3, CallKinds DEF RegCalls
  <2> QED
    BY <1>3, <1>6, <1>7, <1>8, <1>13, <1>14, <1>15, <1>16, <2>4
<1>19. CASE ~Clearing(p) /\ t[1][1] \in CreateOps
  <2>2. \/ Founding(t) /\ stage[p] = "new" /\ session[p] \in {"waiting", "open"}
        \/ session[p] = "open" /\ stage[p] = "registered" /\ \E s \in served[p] : Listing(t, p, s)
    BY <1>19, CallKinds DEF CreateOps
  <2>3. \/ Founding(u) /\ stage[p] = "new" /\ session[p] \in {"waiting", "open"}
        \/ session[p] = "open" /\ stage[p] = "registered" /\ \E s \in served[p] : Listing(u, p, s)
    BY <1>14, <2>2
  <2>1. RegCalls'
    BY <1>7, <1>13, <1>16, <2>3 DEF RegCalls
  <2> QED
    BY <1>3, <1>6, <1>7, <1>8, <1>13, <1>14, <1>15, <1>16, <2>1
<1> QED
  BY <1>17, <1>18, <1>19, CallKinds

\* A call whose first step is done goes on with the next, or has come to its end.
LEMMA CallDone ==
    ASSUME RegTypes, RegCalls, NEW p \in Processes, Busy(p), Done(p), todo[p][1][1] # "stop",
           session[p] = "open", UNCHANGED <<session, stage, served, discovers>>
    PROVE  /\ todo' \in [Processes -> Seq(Ops \X Nodes)] /\ RegCalls'
           /\ \A q \in Processes :
                 /\ (Clearing(q)' <=> Clearing(q)) /\ (Registering(q)' => Registering(q))
                 /\ (Founding(todo[q])' => Founding(todo[q]))
                 /\ (\A s : Listing(todo[q], q, s)' =>
                        Listing(todo[q], q, s) /\ (q = p => Len(todo[p]) = 2 /\ Len(todo'[p]) = 1))
                 /\ (\A path : Left(q, path)' => Left(q, path))
                 /\ (\A path : Left(q, path) => Left(q, path)' \/ (q = p /\ path = Path(p)))
                 /\ q # p => todo'[q] = todo[q]
           /\ \A s : Listing(todo[p], p, s) /\ Len(todo[p]) = 2 => Listing(todo[p], p, s)'
           /\ todo'[p] # <<>> => /\ Head(todo'[p]) = todo'[p][1]
                                 /\ todo'[p][1][1] \in {"create", "delete", "children", "stop"}
           /\ Len(todo[p]) = 1 => todo'[p] = <<>>
           /\ \A i \in DOMAIN todo'[p] : i + 1 \in DOMAIN todo[p] /\ todo'[p][i] = todo[p][i + 1]
<1> DEFINE t == todo[p]
           v == Tail(t)
<1>1. /\ t \in Seq(Ops \X Nodes) /\ t # <<>> /\ Len(t) \in Nat \ {0}
      /\ Path(p) = t[1][2] /\ t[1] \in Ops \X Nodes /\ t[1] = <<t[1][1], Path(p)>>
      /\ Last(t) = t[Len(t)] /\ DOMAIN t = 1 .. Len(t)
  BY CallKinds
<1>2. /\ v \in Seq(Ops \X Nodes) /\ Len(v) = Len(t) - 1 /\ (v = <<>> <=> Len(t) = 1)
      /\ \A i \in 1 .. Len(t) - 1 : v[i] = t[i + 1]
      /\ Len(t) # 1 => Last(v) = Last(t) /\ Head(v) = t[2]
  BY <1>1, ListFacts
<1>3. todo' = [todo EXCEPT ![p] = v]
  BY DEF Done
<1>4. DOMAIN v = 1 .. Len(t) - 1
  BY <1>2
<1> HIDE DEF v
<1>5. todo' \in [Processes -> Seq(Ops \X Nodes)] /\ todo'[p] = v /\ \A q \in Processes : q # p => todo'[q] = todo[q]
  BY <1>2, <1>3 DEF RegTypes
<1>6. PICK n \in Nat \ {0} : n = Len(t)
  BY <1>1
<1>7. \A i \in 1 .. n - 1 : i + 1 \in 1 .. n /\ i + 1 \in 2 .. n
  BY <1>6
<1>8. \A i \in 1 .. n : i = 1 \/ (i - 1 \in 1 .. n - 1 /\ (i - 1) + 1 = i)
  BY <1>6
<1>9. \A i \in 1 .. n - 1 : v[i] = t[i + 1]
  BY <1>2, <1>6
<1>10. DOMAIN t = 1 .. n /\ DOMAIN v = 1 .. n - 1
  BY <1>1, <1>4, <1>6
<1>11. \A i \in DOMAIN todo'[p] : i + 1 \in DOMAIN todo[p] /\ todo'[p][i] = todo[p][i + 1]
  BY <1>5, <1>7, <1>9, <1>10
<1>12. ASSUME NEW path, Left(p, path)' PROVE Left(p, path)
  <2>1. PICK i \in 1 .. n - 1 : v[i][2] = path /\ v[i][1] # "stop"
    BY <1>5, <1>10, <1>12 DEF Left
  <2>2. i + 1 \in 1 .. n /\ t[i + 1][2] = path /\ t[i + 1][1] # "stop"
    BY <1>7, <1>9, <2>1
  <2> QED
    BY <1>10, <2>2 DEF Left
<1>13. ASSUME NEW path, Left(p, path), path # Path(p) PROVE Left(p, path)'
  <2>1. PICK i \in 1 .. n : t[i][2] = path /\ t[i][1] # "stop"
    BY <1>10, <1>13 DEF Left
  <2>2. i # 1
    BY <1>1, <1>13, <2>1
  <2>3. i - 1 \in 1 .. n - 1 /\ v[i - 1] = t[i]
    BY <1>8, <1>9, <2>2
  <2> QED
    BY <1>5, <1>10, <2>1, <2>3 DEF Left
<1>14. ASSUME NEW q \in Processes, q # p
       PROVE  /\ (Clearing(q)' <=> Clearing(q)) /\ (Registering(q)' <=> Registering(q))
              /\ \A path : Left(q, path)' <=> Left(q, path)
  BY <1>5, <1>14 DEF Clearing, Registering, Busy, Left
<1>15. n = 1 => v = <<>>
  BY <1>2, <1>6
<1>16. ASSUME n # 1
       PROVE  v # <<>> /\ Last(v) = Last(t) /\ Head(v) = t[2] /\ v[1] = t[2] /\ Len(v) = n - 1
  <2>1. \A k \in Nat \ {0} : k # 1 => 1 \in 1 .. k - 1
    OBVIOUS
  <2>2. 1 \in 1 .. n - 1
    BY <1>6, <1>16, <2>1
  <2>3. v[1] = t[1 + 1]
    BY <1>9, <2>2
  <2> QED
    BY <1>2, <1>6, <1>16, <2>3
<1>17. CASE n = 1
  <2>1. t[1] = Last(t) /\ todo'[p] = <<>> /\ DOMAIN v = {}
    BY <1>1, <1>5, <1>6, <1>10, <1>15, <1>17
  <2>2. (Clearing(p)' <=> Clearing(p)) /\ (Registering(p)' => Registering(p))
    BY <1>5, <2>1 DEF Clearing, Registering, Busy
  <2>3. Len(v) = 0
    BY <1>2, <1>6, <1>17
  <2>4. ~Founding(v) /\ \A s : ~Listing(v, p, s)
    BY <2>3 DEF Founding, Listing
  <2>5. \A s : ~(Listing(t, p, s) /\ Len(t) = 2)
    BY <1>6, <1>17
  <2>6. RegCalls'
    BY <1>5, <1>14, <2>1, <2>2 DEF RegCalls
  <2> QED
    BY <1>5, <1>11, <1>12, <1>13, <1>14, <2>1, <2>2, <2>4, <2>5, <2>6
<1>18. CASE n # 1
  <2>1. (Clearing(p)' <=> Clearing(p)) /\ (Registering(p)' <=> Registering(p))
    BY <1>1, <1>5, <1>16, <1>18 DEF Clearing, Registering, Busy
  <2>2. CASE Clearing(p)
    <3>1. Ending(t, p) /\ stage[p] = "registered" /\ t[1] \in ({"delete", "drop"} \X Addresses(p)) \cup (VisitOps \X Paths)
      BY <1>6, <1>18, <2>2, CallKinds
    <3>2. Ending(v, p)
      BY <1>1, <1>6, <1>18, <3>1, EndingGoesOn DEF v
    <3>3. RegCalls'
      BY <1>5, <1>14, <2>1, <3>1, <3>2 DEF RegCalls
    <3>4. v[1][1] \in {"create", "delete", "children", "stop"}
      <4>1. CASE n = 2
        BY <1>6, <1>16, <3>1, <4>1 DEF Ending
      <4>2. CASE n # 2
        <5>3. \A k \in Nat \ {0} : k # 1 /\ k # 2 => 2 \in 1 .. k - 1 /\ 2 > 1
          OBVIOUS
        <5>1. 2 \in 1 .. n - 1 /\ 2 > 1
          BY <1>6, <1>18, <4>2, <5>3
        <5>2. t[2] \in ({"delete"} \X Addresses(p)) \cup ({"children"} \X Paths)
          BY <1>6, <3>1, <5>1 DEF Ending
        <5> QED
          BY <1>16, <1>18, <5>2
      <4> QED
        BY <4>1, <4>2
    <3>5. ~Founding(v) /\ ~Founding(t) /\ \A s : ~Listing(v, p, s) /\ ~Listing(t, p, s)
      <4>1. Last(t)[1] = "stop" /\ Last(v)[1] = "stop" /\ Last(v) = v[Len(v)]
        BY <1>16, <1>18, <2>2 DEF Clearing, Last
      <4>2. Founding(v) => Last(v)[1] \in CreateOps
        BY <4>1 DEF Founding
      <4>3. \A s : Listing(v, p, s) => Last(v)[1] \in CreateOps
        BY <4>1 DEF Listing, CreateOps
      <4>4. Founding(t) => Last(t)[1] \in CreateOps
        BY <1>1 DEF Founding
      <4>5. \A s : Listing(t, p, s) => Last(t)[1] \in CreateOps
        BY <1>1 DEF Listing, CreateOps
      <4> QED
        BY <4>1, <4>2, <4>3, <4>4, <4>5 DEF CreateOps
    <3> QED
      BY <1>5, <1>6, <1>11, <1>12, <1>13, <1>14, <1>16, <1>18, <2>1, <3>3, <3>4, <3>5
  <2>3. CASE ~Clearing(p)
    <3>1. PICK s \in served[p] : Listing(t, p, s)
      BY <1>6, <1>18, <2>3, CallKinds DEF Founding, Asking
    <3>2. n = 2 /\ t[2] = <<"create", AddressPath(s, p)>> /\ t[1][2] = ServicePath(s)
      BY <1>6, <1>18, <3>1 DEF Listing
    <3>3. Len(v) = 1 /\ v[1] = <<"create", AddressPath(s, p)>>
      BY <1>16, <3>2
    <3>4. Listing(v, p, s)
      BY <3>3 DEF Listing, CreateOps
    <3>5. \A r : (Listing(v, p, r) <=> r = s) /\ (Listing(t, p, r) <=> r = s)
      BY <1>6, <3>2, <3>3, <3>4, <3>1, PathFacts DEF Listing
    <3>6. ~Founding(v)
      BY <3>3, PathFacts DEF Founding
    <3>7. stage[p] = "registered"
      BY <2>3, <3>1, <1>6, <1>18, CallKinds DEF Founding, Asking
    <3>8. RegCalls'
      BY <1>5, <1>14, <2>1, <3>1, <3>4, <3>7 DEF RegCalls
    <3> QED
      BY <1>5, <1>6, <1>11, <1>12, <1>13, <1>14, <1>16, <1>18, <2>1, <3>2, <3>3, <3>5, <3>6, <3>8
  <2> QED
    BY <2>2, <2>3
<1> QED
  BY <1>17, <1>18

----------------------------------------------------------------------------
(* The tree and who is told of it.                                         *)

\* There are finitely many paths.
LEMMA FinitePaths == IsFiniteSet(Paths)
<1>1. IsFiniteSet({ServicePath(s) : s \in Services})
  <2>1. IsFiniteSet(Services)
    BY RegistryAssumption DEF RegistryAssumption
  <2>2. PICK T : T = {ServicePath(s) : s \in Services}
    OBVIOUS
  <2>3. [s \in Services |-> ServicePath(s)] \in Surjection(Services, T)
    BY <2>2 DEF Surjection
  <2> QED
    BY <2>1, <2>2, <2>3, FS_Surjection
<1>2. Paths = {ServicePath(s) : s \in Services} \cup {Root}
  BY DEF Paths
<1> QED
  BY <1>1, <1>2, FS_AddElement

\* What is in a sequence with one more element.
LEMMA RangeAppend ==
    ASSUME NEW S, NEW r \in Seq(S), NEW x \in S
    PROVE  Append(r, x) \in Seq(S) /\ Range(Append(r, x)) = Range(r) \cup {x}
<1> DEFINE u == Append(r, x)
<1>1. PICK n \in Nat : n = Len(r)
  OBVIOUS
<1>2. u \in Seq(S) /\ DOMAIN u = 1 .. n + 1 /\ DOMAIN r = 1 .. n
  BY <1>1
<1>3. u[n + 1] = x /\ \A i \in 1 .. n : u[i] = r[i] /\ i \in 1 .. n + 1
  BY <1>1
<1>4. \A i \in 1 .. n + 1 : i \in 1 .. n \/ i = n + 1
  OBVIOUS
<1> HIDE DEF u
<1>5. n + 1 \in 1 .. n + 1
  OBVIOUS
<1> QED
  BY <1>2, <1>3, <1>4, <1>5 DEF Range, u

\* The children of a path are the nodes whose parent it is.
LEMMA UnderFacts ==
    ASSUME NEW N \in SUBSET Nodes
    PROVE  /\ \A path \in Paths : {node \in N : Len(node) = Len(path) + 1 /\ Front(node) = path}
                                    = {node \in N : Front(node) = path}
           /\ \A s, p : \A node \in N : Len(node) # Len(AddressPath(s, p)) + 1
<1>1. ASSUME NEW node \in N
      PROVE  \/ node = Root
             \/ \E s \in Services : node = ServicePath(s)
             \/ \E s \in Services, p \in Processes : node = AddressPath(s, p)
  BY <1>1 DEF Nodes, Paths
<1>2. ASSUME NEW path \in Paths, NEW node \in N, Front(node) = path PROVE Len(node) = Len(path) + 1
  <2>1. CASE node = Root
    BY <1>2, <2>1, PathFacts
  <2>2. CASE \E s \in Services : node = ServicePath(s)
    <3>1. PICK s \in Services : node = ServicePath(s)
      BY <2>2
    <3>2. path = Root
      BY <1>2, <3>1, PathFacts
    <3>3. Len(node) = 2 /\ Len(path) = 1
      BY <3>1, <3>2, PathFacts
    <3> QED
      BY <3>3
  <2>3. CASE \E s \in Services, q \in Processes : node = AddressPath(s, q)
    <3>1. PICK s \in Services, q \in Processes : node = AddressPath(s, q)
      BY <2>3
    <3>2. path = ServicePath(s)
      BY <1>2, <3>1, PathFacts
    <3>3. Len(node) = 3 /\ Len(path) = 2
      BY <3>1, <3>2, PathFacts
    <3> QED
      BY <3>3
  <2> QED
    BY <1>1, <2>1, <2>2, <2>3
<1>3. \A s, p : \A node \in N : Len(node) # Len(AddressPath(s, p)) + 1
  <2>1. \A node \in N : Len(node) \in {1, 2, 3}
    BY <1>1, PathFacts
  <2>2. \A s, p : Len(AddressPath(s, p)) = 3
    BY PathFacts
  <2>3. \A k, l : k \in {1, 2, 3} /\ l = 3 => k # l + 1
    OBVIOUS
  <2> QED
    BY ONLY <2>1, <2>2, <2>3
<1> QED
  BY <1>2, <1>3

\* Watches on the parent become events; those on a deleted node are lost.
LEMMA FireFacts ==
    ASSUME RegTypes, NEW node, NEW gone \in BOOLEAN, Fire(node, gone)
    PROVE  /\ watches' \subseteq watches /\ events' \in [Processes -> Seq(Paths)]
           /\ blind' \in [Processes -> SUBSET Paths]
           /\ \A q \in Processes, path \in Paths :
                 /\ <<q, path>> \in watches' <=>
                       <<q, path>> \in watches /\ path # Front(node) /\ ~(gone /\ path = node)
                 /\ path \in Range(events'[q]) <=>
                       path \in Range(events[q]) \/ (<<q, path>> \in watches /\ path = Front(node))
                 /\ <<q, path>> \in watches /\ gone /\ path = node => path \in blind'[q]
                 /\ blind[q] \subseteq blind'[q]
<1> DEFINE told == {w \in watches : w[2] = Front(node)}
           over == {w \in watches : gone /\ w[2] = node}
<1>1. /\ watches' = watches \ (told \cup over)
      /\ events' = [p \in Processes |-> IF <<p, Front(node)>> \in told
                                         THEN Append(events[p], Front(node)) ELSE events[p]]
      /\ blind' = [p \in Processes |-> IF <<p, node>> \in over THEN blind[p] \cup {node} ELSE blind[p]]
  BY DEF Fire
<1>2. watches \subseteq Processes \X Paths /\ events \in [Processes -> Seq(Paths)]
      /\ blind \in [Processes -> SUBSET Paths]
  BY DEF RegTypes
<1>3. \A q \in Processes : \A path :
         /\ <<q, path>> \in told <=> <<q, path>> \in watches /\ path = Front(node)
         /\ <<q, path>> \in over <=> <<q, path>> \in watches /\ gone /\ path = node
  OBVIOUS
<1>4. watches' \subseteq watches /\ \A q \in Processes, path \in Paths :
         <<q, path>> \in watches' <=> <<q, path>> \in watches /\ path # Front(node) /\ ~(gone /\ path = node)
  BY <1>1, <1>3
<1> HIDE DEF told, over
<1>5. ASSUME NEW q \in Processes
      PROVE  /\ events'[q] \in Seq(Paths)
             /\ \A path \in Paths : path \in Range(events'[q]) <=>
                   path \in Range(events[q]) \/ (<<q, path>> \in watches /\ path = Front(node))
  <2>1. CASE <<q, Front(node)>> \in told
    <3>1. <<q, Front(node)>> \in watches /\ Front(node) \in Paths
      BY <1>2, <1>3, <2>1
    <3>2. PICK x \in Paths : x = Front(node)
      BY <3>1
    <3>3. events'[q] = Append(events[q], x) /\ events[q] \in Seq(Paths)
      BY <1>1, <1>2, <2>1, <3>2
    <3>4. Range(Append(events[q], x)) = Range(events[q]) \cup {x} /\ Append(events[q], x) \in Seq(Paths)
      BY <3>2, <3>3, RangeAppend
    <3> QED
      BY <3>1, <3>2, <3>3, <3>4
  <2>2. CASE <<q, Front(node)>> \notin told
    <3>1. events'[q] = events[q] /\ events[q] \in Seq(Paths) /\ <<q, Front(node)>> \notin watches
      BY <1>1, <1>2, <1>3, <2>2
    <3> QED
      BY <3>1
  <2> QED
    BY <2>1, <2>2
<1>6. events' \in [Processes -> Seq(Paths)]
  BY <1>1, <1>5
<1>7. /\ blind' \in [Processes -> SUBSET Paths] /\ \A q \in Processes : blind[q] \subseteq blind'[q]
      /\ \A q \in Processes, path \in Paths :
            <<q, path>> \in watches /\ gone /\ path = node => path \in blind'[q]
  BY <1>1, <1>2, <1>3
<1> QED
  BY <1>4, <1>5, <1>6, <1>7

\* After a node is made or deleted: who watches a path is told when its children
\* have changed.
LEMMA TreeStep ==
    ASSUME RegTypes, NEW node \in Nodes, Creates(node) \/ Deletes(node) \/ Treeless
    PROVE  /\ nodes' \subseteq Nodes /\ watches' \subseteq Processes \X Paths
           /\ events' \in [Processes -> Seq(Paths)] /\ blind' \in [Processes -> SUBSET Paths]
           /\ \A q \in Processes, path \in Paths :
                 /\ <<q, path>> \in watches' => <<q, path>> \in watches /\ Children(path)' = Children(path)
                 /\ path \in Range(events[q]) => path \in Range(events'[q])
                 /\ path \in Range(events'[q]) => path \in Range(events[q]) \/ <<q, path>> \in watches
                 /\ <<q, path>> \in watches /\ <<q, path>> \notin watches' =>
                       path \in Range(events'[q]) \/ path \in blind'[q]
                 /\ blind[q] \subseteq blind'[q]
<1>1. CASE UNCHANGED <<nodes, watches, events, blind>>
  BY <1>1 DEF RegTypes, Children, Under
<1>2. CASE nodes' = nodes \cup {node} /\ Fire(node, FALSE)
  <2>1. nodes \subseteq Nodes /\ nodes' \subseteq Nodes /\ watches \subseteq Processes \X Paths
    BY <1>2 DEF RegTypes
  <2>2. \A path \in Paths : path # Front(node) => Under(path)' = Under(path)
    <3>1. \A path \in Paths : Under(path) = {n \in nodes : Front(n) = path}
      BY <2>1, UnderFacts DEF Under
    <3>2. \A path \in Paths : Under(path)' = {n \in nodes' : Front(n) = path}
      BY <2>1, UnderFacts DEF Under
    <3> QED
      BY <1>2, <3>1, <3>2
  <2>3. \A path \in Paths : path # Front(node) => Children(path)' = Children(path)
    BY <2>2 DEF Children
  <2>4. FALSE \in BOOLEAN
    OBVIOUS
  <2> QED
    BY <1>2, <2>1, <2>3, <2>4, FireFacts
<1>3. CASE nodes' = nodes \ {node} /\ Fire(node, TRUE)
  <2>1. nodes \subseteq Nodes /\ nodes' \subseteq Nodes /\ watches \subseteq Processes \X Paths
    BY <1>3 DEF RegTypes
  <2>2. \A path \in Paths : path # Front(node) => Under(path)' = Under(path)
    <3>1. \A path \in Paths : Under(path) = {n \in nodes : Front(n) = path}
      BY <2>1, UnderFacts DEF Under
    <3>2. \A path \in Paths : Under(path)' = {n \in nodes' : Front(n) = path}
      BY <2>1, UnderFacts DEF Under
    <3> QED
      BY <1>3, <3>1, <3>2
  <2>3. \A path \in Paths : path # Front(node) => Children(path)' = Children(path)
    BY <2>2 DEF Children
  <2>4. TRUE \in BOOLEAN
    OBVIOUS
  <2> QED
    BY <1>3, <2>1, <2>3, <2>4, FireFacts
<1> QED
  BY <1>1, <1>2, <1>3 DEF Creates, Deletes, Treeless

----------------------------------------------------------------------------
(* What keeps the parts of the invariant.                                  *)

\* A step that stores nothing keeps the caches fresh, whatever it does to the
\* tree, as long as who watches is told.
LEMMA FreshKept ==
    ASSUME RegTypes, RegFresh, "preempt" \notin faults' => "preempt" \notin faults,
           \A p \in Processes : session'[p] # "closed" =>
               /\ session[p] # "closed" /\ watcher'[p] = watcher[p] /\ cache'[p] = cache[p]
               /\ blind[p] \subseteq blind'[p]
               /\ \A path \in Paths :
                     /\ <<p, path>> \in watches' => <<p, path>> \in watches /\ Children(path)' = Children(path)
                     /\ path \in Range(events[p]) => path \in Range(events'[p])
                     /\ path \in Range(events'[p]) => path \in Range(events[p]) \/ <<p, path>> \in watches
                     /\ <<p, path>> \in watches /\ <<p, path>> \notin watches' =>
                           path \in Range(events'[p]) \/ path \in blind'[p]
                     /\ (Storing(p, path)' <=> Storing(p, path)) /\ (Storing(p, path)' => got'[p] = got[p])
                     /\ Reading(p, path)' => Reading(p, path) \/ cache[p][path] = {}
    PROVE  RegFresh'
<1> SUFFICES ASSUME "preempt" \notin faults', NEW p \in Processes, NEW path \in Paths, session'[p] # "closed"
             PROVE  FreshIn(p, path)'
  BY DEF RegFresh
<1>1. /\ session[p] # "closed" /\ watcher'[p] = watcher[p] /\ cache'[p] = cache[p] /\ blind[p] \subseteq blind'[p]
      /\ <<p, path>> \in watches' => <<p, path>> \in watches /\ Children(path)' = Children(path)
      /\ path \in Range(events[p]) => path \in Range(events'[p])
      /\ path \in Range(events'[p]) => path \in Range(events[p]) \/ <<p, path>> \in watches
      /\ <<p, path>> \in watches /\ <<p, path>> \notin watches' =>
            path \in Range(events'[p]) \/ path \in blind'[p]
      /\ (Storing(p, path)' <=> Storing(p, path)) /\ (Storing(p, path)' => got'[p] = got[p])
      /\ Reading(p, path)' => Reading(p, path) \/ cache[p][path] = {}
  OBVIOUS
<1>2. FreshIn(p, path)
  BY <1>1 DEF RegFresh
<1>3. path \in blind'[p] \/ path \in Range(events'[p]) \/
            /\ \A read \in watcher'[p] :
                  read[1] = path => read[2] = Children(path)' /\ <<p, path>> \in watches'
            /\ Storing(p, path)' => got'[p] = Children(path)' /\ <<p, path>> \in watches'
            /\ cache'[p][path] # {} /\ (\A read \in watcher'[p] : read[1] # path) =>
                  cache'[p][path] = {Children(path)'} /\ <<p, path>> \in watches'
  BY <1>1, <1>2 DEF FreshIn
<1>4. <<p, path>> \in watches' \/ path \in Range(events'[p]) \/ (\E read \in watcher'[p] : read[1] = path)
            => cache'[p][path] # {} \/ Storing(p, path)'
  BY <1>1, <1>2 DEF FreshIn
<1>5. Reading(p, path)' \/ Storing(p, path)' => cache'[p][path] = {}
  BY <1>1, <1>2 DEF FreshIn
<1>6. Storing(p, path)' => \A read \in watcher'[p] : read[1] # path
  BY <1>1, <1>2 DEF FreshIn
<1> QED
  BY <1>3, <1>4, <1>5, <1>6 DEF FreshIn

\* And what was not touched stays so.
Unasked(p, path) ==
    /\ discovers[p] = 0 /\ stage[p] \in {"new", "registered"}
    /\ Clearing(p) => \E i \in DOMAIN todo[p] : todo[p][i] \in {"children", "read"} \X {path}
\* A path nobody has asked for stays untouched.
LEMMA UntouchedKept ==
    ASSUME RegUntouched,
           \A p \in Processes, path \in Paths : Unasked(p, path)' =>
               /\ Unasked(p, path) /\ cache'[p][path] = cache[p][path]
               /\ <<p, path>> \in watches' => <<p, path>> \in watches
               /\ path \in Range(events'[p]) => path \in Range(events[p]) \/ <<p, path>> \in watches
               /\ \A read \in watcher'[p] : read[1] = path => read \in watcher[p]
    PROVE  RegUntouched'
<1> SUFFICES ASSUME NEW p \in Processes, NEW path \in Paths, Unasked(p, path)'
             PROVE  Untouched(p, path)'
  BY DEF RegUntouched, Unasked
<1>1. Untouched(p, path)
  BY DEF RegUntouched, Unasked
<1> QED
  BY <1>1 DEF Untouched

----------------------------------------------------------------------------
(* The steps of a call, but stop.                                          *)

Moves(p) ==
    /\ Busy(p) /\ session[p] = "open" /\ UNCHANGED <<session, stage, served, discovers>>
    /\ (\E op : Becomes(p, op) /\ Follows(p, op)) \/ (Done(p) /\ todo[p][1][1] # "stop")

\* A step goes on or is done.
LEMMA NotBoth ==
    ASSUME RegTypes, RegCalls, NEW p \in Processes, Busy(p), NEW op, Becomes(p, op)
    PROVE  ~Done(p) /\ todo'[p] = [todo[p] EXCEPT ![1] = <<op, Path(p)>>]
<1>1. todo[p] \in Seq(Ops \X Nodes) /\ todo[p] # <<>> /\ Len(todo[p]) \in Nat \ {0}
  BY CallKinds
<1>2. todo \in [Processes -> Seq(Ops \X Nodes)]
  BY DEF RegTypes
<1>3. todo'[p] = [todo[p] EXCEPT ![1] = <<op, Path(p)>>]
  BY <1>2 DEF Becomes
<1>4. DOMAIN todo'[p] = 1 .. Len(todo[p])
  BY <1>1, <1>3
<1>5. ASSUME Done(p) PROVE FALSE
  <2>1. todo'[p] = Tail(todo[p])
    BY <1>2, <1>5 DEF Done
  <2>2. DOMAIN Tail(todo[p]) = 1 .. Len(todo[p]) - 1
    BY <1>1
  <2>3. \A k \in Nat \ {0} : 1 .. k # 1 .. k - 1
    OBVIOUS
  <2> QED
    BY <1>1, <1>4, <2>1, <2>2, <2>3
<1> QED
  BY <1>3, <1>5

\* A step keeps what a process is doing, and ends nothing but its own item.
LEMMA MoveFacts ==
    ASSUME RegTypes, RegCalls, NEW p \in Processes, Moves(p)
    PROVE  /\ todo' \in [Processes -> Seq(Ops \X Nodes)] /\ RegCalls'
           /\ \A q \in Processes :
                 /\ (Clearing(q)' <=> Clearing(q)) /\ (Registering(q)' => Registering(q))
                 /\ (\A s : Listing(todo[q], q, s)' => Listing(todo[q], q, s))
                 /\ (\A path : Left(q, path)' => Left(q, path))
                 /\ (\A path : Left(q, path) => Left(q, path)' \/ (q = p /\ path = Path(p) /\ Done(p)))
                 /\ q # p => todo'[q] = todo[q]
           /\ Done(p) \/ ((Founding(todo[p])' <=> Founding(todo[p])) /\ Len(todo'[p]) = Len(todo[p])
                             /\ \A s : Listing(todo[p], p, s)' <=> Listing(todo[p], p, s))
           /\ Done(p) => /\ \A s : Listing(todo[p], p, s) /\ Len(todo[p]) = 2 => Listing(todo[p], p, s)'
                         /\ \A s : Listing(todo[p], p, s)' => Len(todo[p]) = 2 /\ Len(todo'[p]) = 1
           /\ \A path : path # Path(p) /\ Busy(p)' => Head(todo'[p]) \notin {"store", "prune"} \X {path}
<1>1. CASE \E op : Becomes(p, op) /\ Follows(p, op)
  <2>1. PICK op : Becomes(p, op) /\ Follows(p, op)
    BY <1>1
  <2>2. Busy(p) /\ UNCHANGED <<session, stage, served, discovers>>
    BY DEF Moves
  <2>3. /\ todo' \in [Processes -> Seq(Ops \X Nodes)] /\ RegCalls'
        /\ \A q \in Processes :
              /\ (Clearing(q)' <=> Clearing(q)) /\ (Registering(q)' <=> Registering(q))
              /\ (Founding(todo[q])' <=> Founding(todo[q])) /\ Len(todo'[q]) = Len(todo[q])
              /\ (\A s : Listing(todo[q], q, s)' <=> Listing(todo[q], q, s))
              /\ (\A path : Left(q, path)' <=> Left(q, path))
              /\ q # p => todo'[q] = todo[q]
        /\ Head(todo'[p]) = <<op, Path(p)>>
    BY <2>1, <2>2, CallBecomes
  <2>4. CASE ~Done(p)
    BY <2>3, <2>4
  <2>5. CASE Done(p)
    BY <2>1, <2>2, <2>5, NotBoth
  <2> QED
    BY <2>4, <2>5
<1>2. CASE Done(p) /\ todo[p][1][1] # "stop"
  <2>1. Busy(p) /\ session[p] = "open" /\ UNCHANGED <<session, stage, served, discovers>>
    BY DEF Moves
  <2>2. /\ todo' \in [Processes -> Seq(Ops \X Nodes)] /\ RegCalls'
        /\ \A q \in Processes :
              /\ (Clearing(q)' <=> Clearing(q)) /\ (Registering(q)' => Registering(q))
              /\ (\A s : Listing(todo[q], q, s)' =>
                     Listing(todo[q], q, s) /\ (q = p => Len(todo[p]) = 2 /\ Len(todo'[p]) = 1))
              /\ (\A path : Left(q, path)' => Left(q, path))
              /\ (\A path : Left(q, path) => Left(q, path)' \/ (q = p /\ path = Path(p)))
              /\ q # p => todo'[q] = todo[q]
        /\ \A s : Listing(todo[p], p, s) /\ Len(todo[p]) = 2 => Listing(todo[p], p, s)'
        /\ todo'[p] # <<>> => Head(todo'[p])[1] \in {"create", "delete", "children", "stop"}
    BY <1>2, <2>1, CallDone
  <2>3. \A path : Busy(p)' => Head(todo'[p]) \notin {"store", "prune"} \X {path}
    BY <2>2 DEF Busy
  <2> QED
    BY <1>2, <2>2, <2>3
<1> QED
  BY <1>1, <1>2 DEF Moves

\* Who lists an address registers.
LEMMA ListingRegisters ==
    ASSUME RegTypes, NEW p \in Processes, NEW s, Listing(todo[p], p, s)
    PROVE  Registering(p) /\ ~Clearing(p)
<1>1. todo[p] \in Seq(Ops \X Nodes) /\ todo[p] # <<>>
  BY DEF RegTypes, Listing
<1>2. Last(todo[p]) = todo[p][Len(todo[p])]
  BY <1>1, ListFacts
<1>3. Last(todo[p])[1] \in {"create", "make"}
  BY <1>2 DEF Listing, CreateOps
<1> QED
  BY <1>1, <1>3 DEF Registering, Clearing, Busy

\* An address in the tree has an owner that will look at its service's node.
LEMMA OwnerLooks ==
    ASSUME RegTypes, RegCalls, RegOwned, NEW p \in Processes, NEW s \in Services, AddressPath(s, p) \in nodes
    PROVE  Looks(p, s) /\ (Clearing(p) => Path(p) \notin Paths)
<1>1. s \in served[p] /\ stage[p] \in {"registered", "dead"} /\ (Clearing(p) => Left(p, AddressPath(s, p)))
  BY DEF RegOwned
<1>2. ASSUME Clearing(p)
      PROVE  /\ Path(p) \notin Paths /\ Left(p, ServicePath(s))
             /\ Head(todo[p]) \notin {"store", "prune"} \X {ServicePath(s)}
  <2>1. /\ todo[p] \in Seq(Ops \X Nodes) /\ todo[p] # <<>> /\ Len(todo[p]) \in Nat \ {0}
        /\ Head(todo[p]) = todo[p][1] /\ Path(p) = todo[p][1][2] /\ Ending(todo[p], p)
        /\ DOMAIN todo[p] = 1 .. Len(todo[p])
    BY <1>2, CallKinds, ListFacts DEF Clearing
  <2>2. PICK i \in 1 .. Len(todo[p]) : todo[p][i][2] = AddressPath(s, p) /\ todo[p][i][1] # "stop"
    BY <1>1, <1>2, <2>1 DEF Left
  <2>3. PICK n \in Nat \ {0} : n = Len(todo[p])
    BY <2>1
  <2>4. i # n
    BY <2>1, <2>2, <2>3 DEF Ending
  <2>5. i \in 1 .. n - 1 /\ 1 \in 1 .. n - 1 /\ (i = 1 \/ 1 < i) /\ 1 .. n - 1 \subseteq 1 .. n
    BY <2>2, <2>3, <2>4
  <2>6. Path(p) \notin Paths
    BY <2>1, <2>2, <2>3, <2>5, PathFacts DEF Ending
  <2>7. PICK j \in 1 .. n - 1 : todo[p][j][2] = ServicePath(s)
    BY <2>1, <2>2, <2>3, <2>5 DEF Ending
  <2>8. todo[p][j][1] # "stop"
    <3>1. todo[p][j] \in ({"delete", "drop"} \X Addresses(p))
                      \cup ({"children", "read", "store", "prune", "delete", "drop"} \X Paths)
      BY <2>1, <2>3, <2>7 DEF Ending
    <3> QED
      BY <3>1
  <2>9. Left(p, ServicePath(s))
    BY <2>1, <2>3, <2>5, <2>7, <2>8 DEF Left
  <2> QED
    BY <2>1, <2>6, <2>9, PathFacts
<1> QED
  BY <1>1, <1>2 DEF Looks

\* Who registers finds or makes its path; nobody takes another's address.
LEMMA MoveListed ==
    ASSUME RegTypes, RegCalls, RegListed, NEW p \in Processes, Moves(p), UNCHANGED faults,
           \A node \in nodes : node \in nodes' \/ (Clearing(p) /\ node \in Paths \cup Addresses(p)),
           "clearing" \notin faults /\ todo[p][1][1] \in CreateOps /\ Done(p) => Path(p) \in nodes'
    PROVE  RegListed'
<1> SUFFICES ASSUME "clearing" \notin faults
             PROVE  RegListed'
  BY DEF RegListed
<1>1. Busy(p) /\ session[p] = "open" /\ UNCHANGED <<session, stage, served, discovers>>
  BY DEF Moves
<1>2. /\ \A q \in Processes :
              /\ (Clearing(q)' <=> Clearing(q)) /\ (Registering(q)' => Registering(q))
              /\ (\A s : Listing(todo[q], q, s)' => Listing(todo[q], q, s))
              /\ q # p => todo'[q] = todo[q]
      /\ Done(p) \/ ((Founding(todo[p])' <=> Founding(todo[p])) /\ Len(todo'[p]) = Len(todo[p])
                        /\ \A s : Listing(todo[p], p, s)' <=> Listing(todo[p], p, s))
      /\ Done(p) => /\ \A s : Listing(todo[p], p, s) /\ Len(todo[p]) = 2 => Listing(todo[p], p, s)'
                    /\ \A s : Listing(todo[p], p, s)' => Len(todo[p]) = 2 /\ Len(todo'[p]) = 1
  BY MoveFacts
<1>3. \A q, r \in Processes : ~(Clearing(q) /\ Registering(r))
  BY DEF RegListed
<1>4. \A q \in Processes : Registering(q) => nodes \subseteq nodes'
  BY <1>3
<1>5. Founding(todo[p]) => todo[p][1][1] \in CreateOps /\ Path(p) = Root
  <2>1. Path(p) = todo[p][1][2]
    BY <1>1, CallKinds
  <2> QED
    BY <2>1 DEF Founding, CreateOps
<1>6. \A s : Listing(todo[p], p, s) =>
         /\ todo[p][1][1] \in CreateOps
         /\ Path(p) = IF Len(todo[p]) = 2 THEN ServicePath(s) ELSE AddressPath(s, p)
  <2>1. Path(p) = todo[p][1][2]
    BY <1>1, CallKinds
  <2> QED
    BY <2>1 DEF Listing, CreateOps
<1>7. ASSUME NEW q \in Processes, stage[q] = "new" /\ session[q] = "open"
      PROVE  Founding(todo'[q]) \/ Root \in nodes'
  <2>1. nodes \subseteq nodes'
    BY <1>4, <1>7 DEF Registering
  <2>2. Founding(todo[q]) \/ Root \in nodes
    BY <1>7 DEF RegListed
  <2>3. CASE Root \in nodes
    BY <2>1, <2>3
  <2>4. CASE q # p
    BY <1>2, <2>1, <2>2, <2>4
  <2>5. CASE q = p /\ Founding(todo[p]) /\ Done(p)
    BY <1>5, <2>5
  <2>6. CASE q = p /\ ~Done(p)
    BY <1>2, <2>1, <2>2, <2>6
  <2> QED
    BY <2>2, <2>3, <2>4, <2>5, <2>6
<1>8. ASSUME NEW q \in Processes, NEW s \in Services, Listing(todo'[q], q, s)
      PROVE  IF Len(todo'[q]) = 2 THEN Root \in nodes' ELSE ServicePath(s) \in nodes'
  <2>1. Listing(todo[q], q, s)
    BY <1>2, <1>8
  <2>2. nodes \subseteq nodes'
    BY <1>4, <2>1, ListingRegisters
  <2>3. IF Len(todo[q]) = 2 THEN Root \in nodes ELSE ServicePath(s) \in nodes
    BY <2>1 DEF RegListed
  <2>4. CASE q # p
    BY <1>2, <2>2, <2>3, <2>4
  <2>5. CASE q = p /\ ~Done(p)
    BY <1>2, <2>2, <2>3, <2>5
  <2>6. CASE q = p /\ Done(p)
    <3>1. Len(todo[p]) = 2 /\ Len(todo'[p]) = 1
      BY <1>2, <1>8, <2>6
    <3>2. ServicePath(s) \in nodes'
      BY <1>6, <2>1, <2>6, <3>1
    <3> QED
      BY <2>6, <3>1, <3>2
  <2> QED
    BY <2>4, <2>5, <2>6
<1>9. ASSUME NEW q \in Processes, stage[q] = "registered" /\ session[q] = "open" /\ ~Clearing(q),
             NEW s \in served[q]
      PROVE  AddressPath(s, q) \in nodes' \/ Listing(todo'[q], q, s)
  <2>1. AddressPath(s, q) \in nodes \/ Listing(todo[q], q, s)
    BY <1>9 DEF RegListed
  <2>2. CASE AddressPath(s, q) \in nodes
    <3>1. AddressPath(s, q) \notin Paths
      BY PathFacts
    <3>2. Clearing(p) => q # p
      BY <1>9
    <3>3. AddressPath(s, q) \in Addresses(p) => q = p
      BY PathFacts DEF Addresses
    <3> QED
      BY <2>2, <3>1, <3>2, <3>3
  <2>3. CASE Listing(todo[q], q, s) /\ q # p
    BY <1>2, <2>3
  <2>4. CASE Listing(todo[q], q, s) /\ q = p /\ ~Done(p)
    BY <1>2, <2>4
  <2>5. CASE Listing(todo[q], q, s) /\ q = p /\ Done(p) /\ Len(todo[p]) = 2
    BY <1>2, <2>5
  <2>6. CASE Listing(todo[q], q, s) /\ q = p /\ Done(p) /\ Len(todo[p]) # 2
    BY <1>6, <2>6
  <2> QED
    BY <2>1, <2>2, <2>3, <2>4, <2>5, <2>6
<1>10. \A q, r \in Processes : ~(Clearing(q)' /\ Registering(r)')
  BY <1>2, <1>3
<1> QED
  BY <1>1, <1>2, <1>7, <1>8, <1>9, <1>10 DEF RegListed

\* An address that is made has its owner, and leaves a list when it is gone.
LEMMA MoveOwned ==
    ASSUME RegTypes, RegCalls, RegOwned, NEW p \in Processes, Moves(p),
           \A node \in nodes' : node \in nodes \/ node = Root \/ Front(node) \in nodes,
           \A node \in nodes : Front(node) \in nodes /\ node \in nodes' => Front(node) \in nodes',
           nodes \subseteq nodes' \/ nodes' \subseteq nodes,
           \A q \in Processes, s \in Services : AddressPath(s, q) \in nodes' =>
               AddressPath(s, q) \in nodes
               \/ (q = p /\ s \in served[p] /\ stage[p] = "registered" /\ ~Clearing(p)),
           Clearing(p) /\ Done(p) /\ Path(p) \notin Paths => Path(p) \notin nodes'
    PROVE  RegOwned'
<1>1. UNCHANGED <<stage, served>>
  BY DEF Moves
<1>2. \A q \in Processes :
         /\ (Clearing(q)' <=> Clearing(q))
         /\ (\A path : Left(q, path) => Left(q, path)' \/ (q = p /\ path = Path(p) /\ Done(p)))
  BY MoveFacts
<1>3. ASSUME NEW node \in nodes' PROVE node = Root \/ Front(node) \in nodes'
  <2>1. node = Root \/ Front(node) \in nodes
    BY <1>3 DEF RegOwned
  <2> QED
    BY <1>3, <2>1
<1>4. ASSUME NEW q \in Processes, NEW s \in Services, AddressPath(s, q) \in nodes'
      PROVE  s \in served[q] /\ stage[q] \in {"registered", "dead"} /\ (Clearing(q)' => Left(q, AddressPath(s, q))')
  <2>1. CASE q = p /\ s \in served[p] /\ stage[p] = "registered" /\ ~Clearing(p)
    BY <1>2, <2>1
  <2>2. CASE AddressPath(s, q) \in nodes
    <3>1. s \in served[q] /\ stage[q] \in {"registered", "dead"} /\ (Clearing(q) => Left(q, AddressPath(s, q)))
      BY <2>2 DEF RegOwned
    <3>2. ~(Clearing(p) /\ q = p /\ AddressPath(s, q) = Path(p) /\ Done(p))
      BY <1>4, PathFacts
    <3> QED
      BY <1>2, <3>1, <3>2
  <2> QED
    BY <1>4, <2>1, <2>2
<1> QED
  BY <1>1, <1>3, <1>4 DEF RegOwned

\* Who looks at a service's node goes on to, or leaves it to another.
LEMMA MoveLeft ==
    ASSUME RegTypes, RegCalls, RegLeft, NEW p \in Processes, Moves(p),
           \A q \in Processes : q # p => got'[q] = got[q],
           \A s \in Services : ServicePath(s) \in nodes' =>
               ServicePath(s) \in nodes \/ (s \in served[p] /\ stage[p] = "registered" /\ ~Clearing(p)),
           \A s \in Services :
               /\ \A q \in Processes : discovers[q] = 0
               /\ ServicePath(s) \in nodes /\ ServicePath(s) \in nodes'
               /\ Clearing(p) /\ Looks(p, s) /\ Path(p) = ServicePath(s)
               => Looks(p, s)' \/ \E q \in Processes : q # p /\ Looks(q, s)
    PROVE  RegLeft'
<1> SUFFICES ASSUME \A q \in Processes : discovers'[q] = 0, NEW s \in Services, ServicePath(s) \in nodes'
             PROVE  \E q \in Processes : Looks(q, s)'
  BY DEF RegLeft
<1>1. Busy(p) /\ UNCHANGED <<session, stage, served, discovers>>
  BY DEF Moves
<1>2. /\ \A q \in Processes :
            /\ (Clearing(q)' <=> Clearing(q))
            /\ (\A path : Left(q, path) => Left(q, path)' \/ (q = p /\ path = Path(p) /\ Done(p)))
            /\ q # p => todo'[q] = todo[q]
      /\ \A path : path # Path(p) /\ Busy(p)' => Head(todo'[p]) \notin {"store", "prune"} \X {path}
  BY MoveFacts
<1>3. ASSUME NEW q \in Processes, q # p, Looks(q, s) PROVE Looks(q, s)'
  BY <1>1, <1>2, <1>3 DEF Looks
<1>4. ASSUME Looks(p, s), ~Clearing(p) PROVE Looks(p, s)'
  BY <1>1, <1>2, <1>4 DEF Looks
<1>5. ASSUME Looks(p, s), Clearing(p), Path(p) # ServicePath(s) PROVE Looks(p, s)'
  <2>1. Left(p, ServicePath(s))'
    BY <1>2, <1>5 DEF Looks
  <2>2. Clearing(p)' => Busy(p)'
    BY DEF Clearing
  <2> QED
    BY <1>1, <1>2, <1>5, <2>1, <2>2 DEF Looks
<1>6. CASE ServicePath(s) \in nodes
  <2>1. PICK q \in Processes : Looks(q, s)
    BY <1>1, <1>6 DEF RegLeft
  <2>2. CASE q = p /\ Clearing(p) /\ Path(p) = ServicePath(s)
    BY <1>1, <1>3, <1>6, <2>1, <2>2
  <2> QED
    BY <1>3, <1>4, <1>5, <2>1, <2>2
<1>7. CASE s \in served[p] /\ stage[p] = "registered" /\ ~Clearing(p)
  BY <1>1, <1>2, <1>7 DEF Looks
<1> QED
  BY <1>6, <1>7

\* A step leads to reading from asking, and to storing from reading.
LEMMA MoveHead ==
    ASSUME RegTypes, RegCalls, NEW p \in Processes, Moves(p)
    PROVE  /\ \A path : Reading(p, path)' => todo[p][1] = <<"children", path>> /\ ~Done(p)
           /\ \A path : Storing(p, path)' => todo[p][1] = <<"read", path>> /\ ~Done(p)
           /\ \A q \in Processes : \A path : q # p =>
                 (Reading(q, path)' <=> Reading(q, path)) /\ (Storing(q, path)' <=> Storing(q, path))
           /\ \A q \in Processes : \A path : Unasked(q, path)' => Unasked(q, path)
<1>1. Busy(p) /\ UNCHANGED <<session, stage, served, discovers>>
  BY DEF Moves
<1>2. /\ todo[p][1] = <<todo[p][1][1], Path(p)>> /\ Head(todo[p]) = todo[p][1] /\ todo[p] # <<>>
      /\ todo[p] \in Seq(Ops \X Nodes)
  BY <1>1, CallKinds
<1>3. CASE \E op : Becomes(p, op) /\ Follows(p, op)
  <2>1. PICK op : Becomes(p, op) /\ Follows(p, op)
    BY <1>3
  <2>2. /\ \A q \in Processes : (Clearing(q)' <=> Clearing(q)) /\ (q # p => todo'[q] = todo[q])
        /\ todo'[p] # <<>> /\ Head(todo'[p]) = <<op, Path(p)>> /\ todo'[p][1] = <<op, Path(p)>>
        /\ DOMAIN todo'[p] = DOMAIN todo[p] /\ \A i \in DOMAIN todo[p] : i # 1 => todo'[p][i] = todo[p][i]
    BY <1>1, <2>1, CallBecomes
  <2>3. Head(todo'[p]) # Head(todo[p])
    BY <1>2, <2>1, <2>2 DEF Follows
  <2>4. ASSUME Done(p) PROVE Head(todo'[p])[1] \in {"create", "delete", "children", "stop"}
    <3>1. session[p] = "open" /\ todo[p][1][1] # "stop"
      BY <2>1 DEF Moves, Follows
    <3> QED
      BY <1>1, <2>2, <2>4, <3>1, CallDone
  <2>5. \A path : Reading(p, path)' => todo[p][1] = <<"children", path>> /\ ~Done(p)
    BY <1>2, <2>1, <2>2, <2>4 DEF Reading, Follows
  <2>6. \A path : Storing(p, path)' => todo[p][1] = <<"read", path>> /\ ~Done(p)
    BY <1>2, <2>1, <2>2, <2>4 DEF Storing, Follows
  <2>7. ASSUME NEW path, NEW i \in DOMAIN todo'[p], todo'[p][i] \in {"children", "read"} \X {path}
        PROVE  i \in DOMAIN todo[p] /\ todo[p][i] \in {"children", "read"} \X {path}
    <3>1. CASE i = 1
      BY <1>2, <2>1, <2>2, <2>7, <3>1 DEF Follows
    <3> QED
      BY <2>2, <2>7, <3>1
  <2>8. \A q \in Processes : \A path : Unasked(q, path)' => Unasked(q, path)
    BY <1>1, <2>2, <2>7 DEF Unasked
  <2>9. \A q \in Processes : \A path : q # p =>
           (Reading(q, path)' <=> Reading(q, path)) /\ (Storing(q, path)' <=> Storing(q, path))
    BY <2>2 DEF Reading, Storing, Busy
  <2> QED
    BY <2>5, <2>6, <2>8, <2>9
<1>4. CASE Done(p) /\ todo[p][1][1] # "stop"
  <2>1. session[p] = "open"
    BY DEF Moves
  <2>2. /\ \A q \in Processes : (Clearing(q)' <=> Clearing(q)) /\ (q # p => todo'[q] = todo[q])
        /\ todo'[p] # <<>> => Head(todo'[p])[1] \in {"create", "delete", "children", "stop"}
        /\ \A i \in DOMAIN todo'[p] : i + 1 \in DOMAIN todo[p] /\ todo'[p][i] = todo[p][i + 1]
    BY <1>1, <1>4, <2>1, CallDone
  <2>3. \A path : ~Reading(p, path)' /\ ~Storing(p, path)'
    BY <2>2 DEF Reading, Storing, Busy
  <2>4. \A q \in Processes : \A path : q # p =>
           (Reading(q, path)' <=> Reading(q, path)) /\ (Storing(q, path)' <=> Storing(q, path))
    BY <2>2 DEF Reading, Storing, Busy
  <2>5. ASSUME NEW path, NEW i \in DOMAIN todo'[p], todo'[p][i] \in {"children", "read"} \X {path}
        PROVE  \E j \in DOMAIN todo[p] : todo[p][j] \in {"children", "read"} \X {path}
    <3>1. i + 1 \in DOMAIN todo[p] /\ todo[p][i + 1] = todo'[p][i]
      BY <2>2, <2>5
    <3> QED
      BY <2>5, <3>1
  <2>6. \A q \in Processes : \A path : Unasked(q, path)' => Unasked(q, path)
    BY <1>1, <2>2, <2>5 DEF Unasked
  <2> QED
    BY <2>3, <2>4, <2>6
<1> QED
  BY <1>3, <1>4 DEF Moves

----------------------------------------------------------------------------
(* Every action keeps the invariant.                                       *)

RegParts == RegTypes /\ RegCalls /\ RegListed /\ RegOwned /\ RegUntouched /\ RegLeft /\ RegFresh

\* A call that returns has done what it was for: no session has expired.
LEMMA ReplyOk ==
    ASSUME RegTypes, NEW p \in Processes, NEW r \in Reply(p)
    PROVE  r = "ok" /\ session[p] = "open"
<1>1. session[p] \in {"new", "waiting", "open", "closed"}
  BY DEF RegTypes
<1> QED
  BY <1>1 DEF Reply

\* A step of a call that neither reads nor stores leaves the caches to the watches.
LEMMA MoveQuietly ==
    ASSUME RegParts, NEW p \in Processes, Moves(p), UNCHANGED <<faults, watcher, cache, got>>,
           todo[p][1][1] \notin {"children", "read", "store"},
           NEW node \in Nodes, Creates(node) \/ Deletes(node) \/ Treeless
    PROVE  RegTypes' /\ RegCalls' /\ RegUntouched' /\ RegFresh'
<1>1. RegTypes /\ RegCalls /\ RegUntouched /\ RegFresh /\ Busy(p) /\ UNCHANGED <<session, stage, served, discovers>>
  BY DEF RegParts, Moves
<1>2. /\ nodes' \subseteq Nodes /\ watches' \subseteq Processes \X Paths
      /\ events' \in [Processes -> Seq(Paths)] /\ blind' \in [Processes -> SUBSET Paths]
      /\ \A q \in Processes, path \in Paths :
            /\ <<q, path>> \in watches' => <<q, path>> \in watches /\ Children(path)' = Children(path)
            /\ path \in Range(events[q]) => path \in Range(events'[q])
            /\ path \in Range(events'[q]) => path \in Range(events[q]) \/ <<q, path>> \in watches
            /\ <<q, path>> \in watches /\ <<q, path>> \notin watches' =>
                  path \in Range(events'[q]) \/ path \in blind'[q]
            /\ blind[q] \subseteq blind'[q]
  BY <1>1, TreeStep
<1>3. todo' \in [Processes -> Seq(Ops \X Nodes)] /\ RegCalls'
  BY <1>1, MoveFacts
<1>10. /\ faults' = faults /\ watcher' = watcher /\ cache' = cache /\ got' = got
       /\ session' = session /\ stage' = stage /\ served' = served /\ discovers' = discovers
  BY <1>1
<1>4. RegTypes'
  BY <1>1, <1>2, <1>3, <1>10 DEF RegTypes
<1>5. \A path : ~Reading(p, path)' /\ ~Storing(p, path)' /\ ~Storing(p, path)
  <2>1. Head(todo[p]) = todo[p][1]
    BY <1>1, CallKinds
  <2>2. \A path : (Reading(p, path)' => todo[p][1] = <<"children", path>>)
                  /\ (Storing(p, path)' => todo[p][1] = <<"read", path>>)
    BY <1>1, MoveHead
  <2> QED
    BY <2>1, <2>2 DEF Storing
<1>6. \A q \in Processes, path \in Paths :
         (Storing(q, path)' <=> Storing(q, path)) /\ (Reading(q, path)' => Reading(q, path))
  BY <1>1, <1>5, MoveHead
<1>7. RegFresh'
  <2>1. \A q \in Processes : session'[q] # "closed" =>
           /\ session[q] # "closed" /\ watcher'[q] = watcher[q] /\ cache'[q] = cache[q]
           /\ blind[q] \subseteq blind'[q]
           /\ \A path \in Paths :
                 /\ <<q, path>> \in watches' => <<q, path>> \in watches /\ Children(path)' = Children(path)
                 /\ path \in Range(events[q]) => path \in Range(events'[q])
                 /\ path \in Range(events'[q]) => path \in Range(events[q]) \/ <<q, path>> \in watches
                 /\ <<q, path>> \in watches /\ <<q, path>> \notin watches' =>
                       path \in Range(events'[q]) \/ path \in blind'[q]
                 /\ (Storing(q, path)' <=> Storing(q, path)) /\ (Storing(q, path)' => got'[q] = got[q])
                 /\ Reading(q, path)' => Reading(q, path) \/ cache[q][path] = {}
    <3> SUFFICES ASSUME NEW q \in Processes, session'[q] # "closed"
                 PROVE
           /\ session[q] # "closed" /\ watcher'[q] = watcher[q] /\ cache'[q] = cache[q]
           /\ blind[q] \subseteq blind'[q]
           /\ \A path \in Paths :
                 /\ <<q, path>> \in watches' => <<q, path>> \in watches /\ Children(path)' = Children(path)
                 /\ path \in Range(events[q]) => path \in Range(events'[q])
                 /\ path \in Range(events'[q]) => path \in Range(events[q]) \/ <<q, path>> \in watches
                 /\ <<q, path>> \in watches /\ <<q, path>> \notin watches' =>
                       path \in Range(events'[q]) \/ path \in blind'[q]
                 /\ (Storing(q, path)' <=> Storing(q, path)) /\ (Storing(q, path)' => got'[q] = got[q])
                 /\ Reading(q, path)' => Reading(q, path) \/ cache[q][path] = {}
      OBVIOUS
    <3>1. session[q] # "closed" /\ watcher'[q] = watcher[q] /\ cache'[q] = cache[q] /\ got'[q] = got[q]
      BY <1>10
    <3>2. blind[q] \subseteq blind'[q]
      BY <1>2, PathFacts
    <3> QED
      BY <1>2, <1>6, <3>1, <3>2
  <2> QED
    BY <1>1, <1>10, <2>1, FreshKept
<1>8. \A q \in Processes : \A path : Unasked(q, path)' => Unasked(q, path)
  BY <1>1, MoveHead
<1>9. RegUntouched'
  BY <1>1, <1>2, <1>8, UntouchedKept
<1> QED
  BY <1>3, <1>4, <1>7, <1>9

\* Who goes on looking at a service's node looks at it still.
LEMMA LooksOn ==
    ASSUME RegTypes, RegCalls, NEW p \in Processes, NEW s \in Services, Moves(p), Looks(p, s), Clearing(p),
           NEW op, Becomes(p, op), Follows(p, op), op \in {"store", "prune"} => got'[p] = {}
    PROVE  Looks(p, s)'
<1>1. Busy(p) /\ UNCHANGED <<session, stage, served, discovers>>
  BY DEF Moves
<1>2. Head(todo'[p]) = <<op, Path(p)>> /\ (Left(p, ServicePath(s))' <=> Left(p, ServicePath(s)))
  BY <1>1, CallBecomes
<1> QED
  BY <1>1, <1>2 DEF Looks

\* Looking for a node changes no node.
LEMMA KeepsLookForCreate ==
    ASSUME RegParts, NEW p \in Processes, LookForCreate(p)
    PROVE  RegParts'
<1>1. RegTypes /\ RegCalls /\ RegListed /\ RegOwned /\ RegLeft /\ Busy(p) /\ UNCHANGED <<faults, watcher, cache, got, nodes>>
  BY DEF RegParts, LookForCreate, Next1, Rest, Treeless
<1>2. PICK r \in Reply(p) : IF r = "ok" /\ Path(p) \notin nodes THEN Becomes(p, "make") ELSE Done(p)
  BY DEF LookForCreate
<1>3. r = "ok" /\ session[p] = "open" /\ UNCHANGED <<session, stage, served, discovers>>
  BY <1>1, <1>2, ReplyOk DEF LookForCreate, Rest
<1>4. todo[p][1][1] = "create" /\ Path(p) \in Nodes
  BY <1>1, CallKinds DEF LookForCreate, Next1
<1>5. ~Clearing(p)
  BY <1>1, <1>4, CallKinds DEF VisitOps
<1>6. Moves(p)
  BY <1>1, <1>2, <1>3, <1>4 DEF Moves, Follows
<1>7. Done(p) => Path(p) \in nodes'
  BY <1>1, <1>2, <1>3, NotBoth
<1>8. RegTypes' /\ RegCalls' /\ RegUntouched' /\ RegFresh'
  BY <1>1, <1>4, <1>6, MoveQuietly DEF LookForCreate
<1>9. RegListed'
  BY <1>1, <1>6, <1>7, MoveListed
<1>10. RegOwned'
  BY <1>1, <1>5, <1>6, MoveOwned DEF RegOwned
<1>11. RegLeft'
  BY <1>1, <1>5, <1>6, MoveLeft
<1> QED
  BY <1>8, <1>9, <1>10, <1>11 DEF RegParts

\* Looking for a node to delete goes on unless the node is gone.
LEMMA KeepsLookForDelete ==
    ASSUME RegParts, NEW p \in Processes, LookForDelete(p)
    PROVE  RegParts'
<1>1. RegTypes /\ RegCalls /\ RegListed /\ RegOwned /\ RegLeft /\ Busy(p) /\ UNCHANGED <<faults, watcher, cache, got, nodes>>
  BY DEF RegParts, LookForDelete, Next1, Rest, Treeless
<1>2. PICK r \in Reply(p) : IF r = "ok" /\ Path(p) \notin nodes THEN Done(p) ELSE Becomes(p, "drop")
  BY DEF LookForDelete
<1>3. r = "ok" /\ session[p] = "open" /\ UNCHANGED <<session, stage, served, discovers>>
  BY <1>1, <1>2, ReplyOk DEF LookForDelete, Rest
<1>4. todo[p][1][1] = "delete" /\ Path(p) \in Nodes
  BY <1>1, CallKinds DEF LookForDelete, Next1
<1>6. Moves(p)
  BY <1>1, <1>2, <1>3, <1>4 DEF Moves, Follows
<1>7. Done(p) => Path(p) \notin nodes'
  BY <1>1, <1>2, <1>3, NotBoth
<1>8. RegTypes' /\ RegCalls' /\ RegUntouched' /\ RegFresh'
  BY <1>1, <1>4, <1>6, MoveQuietly DEF LookForDelete
<1>9. RegListed'
  BY <1>1, <1>4, <1>6, MoveListed DEF CreateOps
<1>10. RegOwned'
  BY <1>1, <1>6, <1>7, MoveOwned DEF RegOwned
<1>11. ASSUME NEW s \in Services, Path(p) = ServicePath(s), ServicePath(s) \in nodes, Clearing(p), Looks(p, s)
       PROVE  Looks(p, s)'
  <2>1. Becomes(p, "drop") /\ Follows(p, "drop")
    BY <1>2, <1>4, <1>11 DEF Follows
  <2> QED
    BY <1>1, <1>6, <1>11, <2>1, LooksOn
<1>12. RegLeft'
  BY <1>1, <1>6, <1>11, MoveLeft
<1> QED
  BY <1>8, <1>9, <1>10, <1>12 DEF RegParts

\* Who finds a service's node not empty leaves it to the owner of a child.
LEMMA ChildOwner ==
    ASSUME RegTypes, RegCalls, RegOwned, NEW p \in Processes, Clearing(p),
           NEW s \in Services, Path(p) = ServicePath(s), Under(ServicePath(s)) # {}
    PROVE  \E q \in Processes : q # p /\ Looks(q, s)
<1>1. nodes \subseteq Nodes /\ ServicePath(s) \in Paths
  BY PathFacts DEF RegTypes
<1>2. PICK node \in nodes : Front(node) = ServicePath(s)
  BY DEF Under
<1>3. PICK q \in Processes : node = AddressPath(s, q)
  <2>1. node # Root
    BY <1>1, <1>2, PathFacts
  <2>2. \A t \in Services : node # ServicePath(t)
    BY <1>2, PathFacts
  <2>3. PICK t \in Services, q \in Processes : node = AddressPath(t, q)
    BY <1>1, <2>1, <2>2 DEF Nodes, Paths
  <2>4. t = s
    BY <1>2, <2>3, PathFacts
  <2> QED
    BY <2>3, <2>4
<1>4. Looks(q, s) /\ (Clearing(q) => Path(q) \notin Paths)
  BY <1>2, <1>3, OwnerLooks
<1> QED
  BY <1>1, <1>4

\* Make makes its path if the parent is there, and the parent is there.
LEMMA KeepsMake ==
    ASSUME RegParts, NEW p \in Processes, Make(p)
    PROVE  RegParts'
<1>1. RegTypes /\ RegCalls /\ RegListed /\ RegOwned /\ RegLeft /\ Busy(p) /\ UNCHANGED <<faults, watcher, cache, got>>
  BY DEF RegParts, Make, Next1, Rest
<1>2. PICK r \in Reply(p) : IF r = "ok" THEN Creates(Path(p)) ELSE Treeless
  BY DEF Make
<1>3. r = "ok" /\ session[p] = "open" /\ UNCHANGED <<session, stage, served, discovers>>
  BY <1>1, <1>2, ReplyOk DEF Make, Rest
<1>4. todo[p][1][1] = "make" /\ Path(p) \in Nodes /\ Done(p) /\ Creates(Path(p))
  BY <1>1, <1>2, <1>3, CallKinds DEF Make, Next1
<1>5. \/ Path(p) = Root /\ ~Clearing(p)
      \/ /\ stage[p] = "registered" /\ ~Clearing(p)
         /\ \E s \in served[p] : /\ Listing(todo[p], p, s)
                                 /\ Path(p) = IF Len(todo[p]) = 2 THEN ServicePath(s) ELSE AddressPath(s, p)
  BY <1>1, <1>4, CallKinds DEF VisitOps
<1>6. Moves(p)
  BY <1>1, <1>3, <1>4 DEF Moves
<1>7. \/ nodes' = nodes /\ (Path(p) \in nodes \/ ~(Path(p) = Root \/ Front(Path(p)) \in nodes))
      \/ nodes' = nodes \cup {Path(p)} /\ (Path(p) = Root \/ Front(Path(p)) \in nodes)
  BY <1>4 DEF Creates
<1>8. RegTypes' /\ RegCalls' /\ RegUntouched' /\ RegFresh'
  BY <1>1, <1>4, <1>6, MoveQuietly
<1>9. ASSUME "clearing" \notin faults PROVE Path(p) \in nodes'
  <2>1. CASE Path(p) = Root
    BY <1>7, <2>1
  <2>2. CASE Path(p) # Root
    <3>1. PICK s \in served[p] : /\ Listing(todo[p], p, s)
                                 /\ Path(p) = IF Len(todo[p]) = 2 THEN ServicePath(s) ELSE AddressPath(s, p)
      BY <1>5, <2>2
    <3>2. s \in Services
      BY <1>1 DEF RegTypes
    <3>3. IF Len(todo[p]) = 2 THEN Root \in nodes ELSE ServicePath(s) \in nodes
      BY <1>1, <1>9, <3>1, <3>2 DEF RegListed
    <3>4. Front(Path(p)) \in nodes
      BY <3>1, <3>3, PathFacts
    <3> QED
      BY <1>7, <3>4
  <2> QED
    BY <2>1, <2>2
<1>10. RegListed'
  BY <1>1, <1>4, <1>6, <1>7, <1>9, MoveListed
<1>11. \A q \in Processes, s \in Services : AddressPath(s, q) \in nodes' =>
          AddressPath(s, q) \in nodes
          \/ (q = p /\ s \in served[p] /\ stage[p] = "registered" /\ ~Clearing(p))
  <2> SUFFICES ASSUME NEW q \in Processes, NEW s \in Services, AddressPath(s, q) = Path(p)
               PROVE  q = p /\ s \in served[p] /\ stage[p] = "registered" /\ ~Clearing(p)
    BY <1>7
  <2>1. Path(p) # Root
    BY PathFacts
  <2>2. PICK t \in served[p] : Path(p) = ServicePath(t) \/ Path(p) = AddressPath(t, p)
    BY <1>5, <2>1
  <2>3. t \in Services
    BY <1>1 DEF RegTypes
  <2>4. Path(p) = AddressPath(t, p)
    BY <2>2, <2>3, PathFacts
  <2>5. s = t /\ q = p
    BY <2>4, PathFacts
  <2> QED
    BY <1>5, <2>1, <2>5
<1>12. RegOwned'
  BY <1>1, <1>5, <1>6, <1>7, <1>11, MoveOwned DEF RegOwned
<1>13. \A s \in Services : ServicePath(s) \in nodes' =>
          ServicePath(s) \in nodes \/ (s \in served[p] /\ stage[p] = "registered" /\ ~Clearing(p))
  <2> SUFFICES ASSUME NEW s \in Services, ServicePath(s) = Path(p)
               PROVE  s \in served[p] /\ stage[p] = "registered" /\ ~Clearing(p)
    BY <1>7
  <2>1. Path(p) # Root
    BY PathFacts
  <2>2. PICK t \in served[p] : Path(p) = ServicePath(t) \/ Path(p) = AddressPath(t, p)
    BY <1>5, <2>1
  <2>3. Path(p) = ServicePath(t)
    BY <2>2, PathFacts
  <2>4. s = t
    BY <2>3, PathFacts
  <2> QED
    BY <1>5, <2>1, <2>4
<1>14. RegLeft'
  BY <1>1, <1>5, <1>6, <1>13, MoveLeft
<1> QED
  BY <1>8, <1>10, <1>12, <1>14 DEF RegParts

\* Drop takes its node away, or finds a child that another will take away.
LEMMA KeepsDrop ==
    ASSUME RegParts, NEW p \in Processes, Drop(p)
    PROVE  RegParts'
<1>1. RegTypes /\ RegCalls /\ RegListed /\ RegOwned /\ RegLeft /\ Busy(p) /\ UNCHANGED <<faults, watcher, cache, got>>
  BY DEF RegParts, Drop, Next1, Rest
<1>2. PICK r \in Reply(p) : IF r = "ok" THEN Deletes(Path(p)) ELSE Treeless
  BY DEF Drop
<1>3. r = "ok" /\ session[p] = "open" /\ UNCHANGED <<session, stage, served, discovers>>
  BY <1>1, <1>2, ReplyOk DEF Drop, Rest
<1>4. todo[p][1][1] = "drop" /\ Path(p) \in Nodes /\ Done(p) /\ Deletes(Path(p))
  BY <1>1, <1>2, <1>3, CallKinds DEF Drop, Next1
<1>5. Clearing(p) /\ Path(p) \in Paths \cup Addresses(p)
  BY <1>1, <1>4, CallKinds DEF CreateOps
<1>6. Moves(p)
  BY <1>1, <1>3, <1>4 DEF Moves
<1>7. \/ nodes' = nodes /\ (Path(p) \notin nodes \/ Under(Path(p)) # {})
      \/ nodes' = nodes \ {Path(p)} /\ Under(Path(p)) = {}
  BY <1>4 DEF Deletes
<1>8. RegTypes' /\ RegCalls' /\ RegUntouched' /\ RegFresh'
  BY <1>1, <1>4, <1>6, MoveQuietly
<1>9. RegListed'
  BY <1>1, <1>4, <1>5, <1>6, <1>7, MoveListed DEF CreateOps
<1>10. nodes \subseteq Nodes
  BY <1>1 DEF RegTypes
<1>11. \A path \in Paths : Under(path) = {node \in nodes : Front(node) = path}
  BY <1>10, UnderFacts DEF Under
<1>12. \A s : Under(AddressPath(s, p)) = {}
  BY <1>10, UnderFacts DEF Under
<1>13. Path(p) \notin Paths => Path(p) \notin nodes'
  BY <1>5, <1>7, <1>12 DEF Addresses
<1>14. ASSUME NEW node \in nodes, Front(node) \in nodes, node \in nodes'
       PROVE  Front(node) \in nodes'
  <2>1. CASE Path(p) \in Paths
    BY <1>7, <1>11, <1>14, <2>1
  <2>2. CASE Path(p) \notin Paths
    <3>1. Front(node) \in Paths
      <4>1. CASE node \in Paths
        <5>1. Front(node) \in Nodes
          BY <1>10, <1>14
        <5>2. node = Root \/ Front(node) = Root
          BY <4>1, PathFacts
        <5>3. node # Root
          BY <5>1, PathFacts DEF Nodes
        <5> QED
          BY <5>2, <5>3, PathFacts
      <4>2. CASE node \notin Paths
        <5>1. PICK s \in Services, q \in Processes : node = AddressPath(s, q)
          BY <1>10, <4>2 DEF Nodes
        <5> QED
          BY <5>1, PathFacts
      <4> QED
        BY <4>1, <4>2
    <3> QED
      BY <1>7, <1>14, <2>2, <3>1
  <2> QED
    BY <2>1, <2>2
<1>15. RegOwned'
  BY <1>1, <1>6, <1>7, <1>13, <1>14, MoveOwned DEF RegOwned
<1>16. ASSUME NEW s \in Services, ServicePath(s) \in nodes, ServicePath(s) \in nodes', Path(p) = ServicePath(s)
       PROVE  \E q \in Processes : q # p /\ Looks(q, s)
  <2>1. Under(ServicePath(s)) # {}
    BY <1>7, <1>16
  <2> QED
    BY <1>1, <1>5, <1>16, <2>1, ChildOwner
<1>17. RegLeft'
  BY <1>1, <1>6, <1>7, <1>16, MoveLeft
<1> QED
  BY <1>8, <1>9, <1>15, <1>17 DEF RegParts

\* Prune deletes what it has found empty; what was not empty is looked at again.
LEMMA KeepsPrune ==
    ASSUME RegParts, NEW p \in Processes, Prune(p)
    PROVE  RegParts'
<1>1. RegTypes /\ RegCalls /\ RegListed /\ RegOwned /\ RegLeft /\ Busy(p) /\ Treeless
      /\ UNCHANGED <<faults, watcher, cache, got, nodes>> /\ UNCHANGED <<session, stage, served, discovers>>
  BY DEF RegParts, Prune, Next1, Rest, Treeless
<1>2. IF got[p] = {} THEN Becomes(p, "delete") ELSE Done(p)
  BY DEF Prune
<1>4. todo[p][1][1] = "prune" /\ Path(p) \in Nodes /\ todo[p][1] = <<"prune", Path(p)>> /\ Head(todo[p]) = todo[p][1]
  BY <1>1, CallKinds DEF Prune, Next1
<1>5. Clearing(p) /\ session[p] = "open" /\ Path(p) \in Paths
  <2>1. Len(todo[p]) # 1 /\ Clearing(p) /\ session[p] = "open"
        /\ todo[p][1] \in ({"delete", "drop"} \X Addresses(p)) \cup (VisitOps \X Paths)
    BY <1>1, <1>4, CallKinds DEF CreateOps
  <2> QED
    BY <1>4, <2>1
<1>6. Moves(p)
  BY <1>1, <1>2, <1>4, <1>5 DEF Moves, Follows
<1>8. RegTypes' /\ RegCalls' /\ RegUntouched' /\ RegFresh'
  BY <1>1, <1>4, <1>6, MoveQuietly
<1>9. RegListed'
  BY <1>1, <1>4, <1>6, MoveListed DEF CreateOps
<1>10. RegOwned'
  BY <1>1, <1>5, <1>6, MoveOwned DEF RegOwned
<1>11. ASSUME NEW s \in Services, Path(p) = ServicePath(s), Looks(p, s)
       PROVE  Looks(p, s)'
  <2>1. got[p] = {}
    BY <1>4, <1>5, <1>11 DEF Looks
  <2>2. Becomes(p, "delete") /\ Follows(p, "delete")
    BY <1>2, <1>4, <2>1 DEF Follows
  <2> QED
    BY <1>1, <1>5, <1>6, <1>11, <2>2, LooksOn
<1>12. RegLeft'
  BY <1>1, <1>6, <1>11, MoveLeft
<1> QED
  BY <1>8, <1>9, <1>10, <1>12 DEF RegParts

\* What is cached is what was stored; Clear, that has asked for nothing before,
\* finds nothing cached.
LEMMA KeepsGetChildrenNodes ==
    ASSUME RegParts, NEW p \in Processes, GetChildrenNodes(p)
    PROVE  RegParts'
<1>1. RegTypes /\ RegCalls /\ RegListed /\ RegOwned /\ RegUntouched /\ RegLeft /\ RegFresh /\ Busy(p)
      /\ Treeless /\ UNCHANGED <<session, stage, served, discovers>>
  BY DEF RegParts, GetChildrenNodes, Next1, Rest
<1>2. /\ faults' = faults /\ watcher' = watcher /\ cache' = cache /\ nodes' = nodes /\ watches' = watches
      /\ events' = events /\ blind' = blind
      /\ session' = session /\ stage' = stage /\ served' = served /\ discovers' = discovers
  BY DEF GetChildrenNodes, Rest, Treeless
<1>3. IF cache[p][Path(p)] # {}
      THEN got' = [got EXCEPT ![p] = UNION cache[p][Path(p)]] /\ Answer(p)
      ELSE Becomes(p, "read") /\ UNCHANGED got
  BY DEF GetChildrenNodes
<1>4. todo[p][1][1] = "children" /\ todo[p][1] = <<"children", Path(p)>> /\ Head(todo[p]) = todo[p][1]
      /\ 1 \in DOMAIN todo[p]
  BY <1>1, CallKinds DEF GetChildrenNodes, Next1
<1>5. session[p] = "open" /\ Path(p) \in Paths /\ (Clearing(p) => stage[p] = "registered")
  <2>1. \/ session[p] = "open" /\ Asking(todo[p]) /\ ~Clearing(p) /\ Path(p) \in Paths
        \/ /\ session[p] = "open" /\ stage[p] = "registered"
           /\ todo[p][1] \in ({"delete", "drop"} \X Addresses(p)) \cup (VisitOps \X Paths)
    BY <1>1, <1>4, CallKinds DEF CreateOps
  <2> QED
    BY <1>4, <2>1
<1>6. Moves(p)
  BY <1>1, <1>3, <1>4, <1>5 DEF Moves, Follows, Answer
<1>7. got' \in [Processes -> SUBSET Names] /\ \A q \in Processes : q # p => got'[q] = got[q]
  <2>1. got \in [Processes -> SUBSET Names] /\ cache[p][Path(p)] \in ChildLists
    BY <1>1, <1>5 DEF RegTypes
  <2>2. UNION cache[p][Path(p)] \subseteq Names
    BY <2>1 DEF ChildLists
  <2> QED
    BY <1>3, <2>1, <2>2
<1>8. todo' \in [Processes -> Seq(Ops \X Nodes)] /\ RegCalls'
  BY <1>1, <1>6, MoveFacts
<1>9. RegTypes'
  BY <1>1, <1>2, <1>7, <1>8 DEF RegTypes
<1>10. RegListed'
  BY <1>1, <1>2, <1>4, <1>6, MoveListed DEF CreateOps
<1>11. RegOwned'
  BY <1>1, <1>2, <1>5, <1>6, MoveOwned DEF RegOwned
<1>12. ASSUME NEW s \in Services, \A q \in Processes : discovers[q] = 0, Clearing(p), Looks(p, s),
              Path(p) = ServicePath(s)
       PROVE  Looks(p, s)'
  <2>1. todo[p][1] \in {"children", "read"} \X {Path(p)}
    BY <1>4
  <2>2. Untouched(p, Path(p))
    BY <1>1, <1>4, <1>5, <1>12, <2>1 DEF RegUntouched
  <2>3. Becomes(p, "read") /\ Follows(p, "read")
    BY <1>3, <1>4, <2>2 DEF Untouched, Follows
  <2> QED
    BY <1>1, <1>6, <1>12, <2>3, LooksOn
<1>13. RegLeft'
  BY <1>1, <1>2, <1>6, <1>7, <1>12, MoveLeft
<1>14. \A q \in Processes : \A path : Unasked(q, path)' => Unasked(q, path)
  BY <1>1, <1>6, MoveHead
<1>15. RegUntouched'
  BY <1>1, <1>2, <1>14, UntouchedKept
<1>16. \A path : ~Storing(p, path) /\ ~Storing(p, path)' /\ (Reading(p, path)' => cache[p][path] = {})
  <2>1. \A path : (Reading(p, path)' => todo[p][1] = <<"children", path>> /\ ~Done(p))
                  /\ (Storing(p, path)' => todo[p][1] = <<"read", path>>)
    BY <1>1, <1>6, MoveHead
  <2>2. ASSUME cache[p][Path(p)] # {} PROVE \A path : ~Reading(p, path)'
    <3>1. Answer(p)
      BY <1>3, <2>2
    <3>2. CASE Clearing(p)
      <4>1. Becomes(p, "prune") /\ Follows(p, "prune")
        BY <1>4, <3>1, <3>2 DEF Answer, Follows
      <4>2. Head(todo'[p]) = <<"prune", Path(p)>>
        BY <1>1, <4>1, CallBecomes
      <4> QED
        BY <4>2 DEF Reading
    <3>3. CASE ~Clearing(p)
      BY <2>1, <3>1, <3>3 DEF Answer
    <3> QED
      BY <3>2, <3>3
  <2> QED
    BY <1>4, <2>1, <2>2 DEF Storing
<1>17. \A q \in Processes, path \in Paths :
          /\ (Storing(q, path)' <=> Storing(q, path)) /\ (Storing(q, path)' => got'[q] = got[q])
          /\ Reading(q, path)' => Reading(q, path) \/ cache[q][path] = {}
  BY <1>1, <1>6, <1>7, <1>16, MoveHead
<1>18. RegFresh'
  <2> SUFFICES ASSUME "preempt" \notin faults, NEW q \in Processes, NEW path \in Paths, session[q] # "closed"
               PROVE  FreshIn(q, path)'
    BY <1>2 DEF RegFresh
  <2>1. FreshIn(q, path)
    BY <1>1 DEF RegFresh
  <2>2. Children(path)' = Children(path)
    BY <1>2 DEF Children, Under
  <2> QED
    BY <1>2, <1>17, <2>1, <2>2 DEF FreshIn
<1> QED
  BY <1>8, <1>9, <1>10, <1>11, <1>13, <1>15, <1>18 DEF RegParts

\* A path is asked for once in a call.
LEMMA AskedOnce ==
    ASSUME RegTypes, RegCalls, NEW p \in Processes, Moves(p), todo[p][1][1] \in {"read", "store"},
           Clearing(p) => \E op \in {"store", "prune"} : Becomes(p, op) /\ Follows(p, op),
           NEW path, Unasked(p, path)'
    PROVE  path # Path(p)
<1>1. Busy(p) /\ session[p] = "open" /\ UNCHANGED <<session, stage, served, discovers>>
  BY DEF Moves
<1>2. CASE ~Clearing(p)
  <2>1. discovers[p] # 0
    BY <1>1, <1>2, CallKinds DEF CreateOps
  <2> QED
    BY <1>1, <2>1 DEF Unasked
<1>3. CASE Clearing(p)
  <2>1. PICK op \in {"store", "prune"} : Becomes(p, op) /\ Follows(p, op)
    BY <1>3
  <2>2. /\ Clearing(p)' /\ todo'[p][1] = <<op, Path(p)>>
        /\ DOMAIN todo'[p] = DOMAIN todo[p] /\ \A i \in DOMAIN todo[p] : i # 1 => todo'[p][i] = todo[p][i]
    BY <1>1, <1>3, <2>1, CallBecomes
  <2>3. PICK i \in DOMAIN todo'[p] : todo'[p][i] \in {"children", "read"} \X {path}
    BY <2>2 DEF Unasked
  <2>4. i # 1
    BY <2>1, <2>2, <2>3
  <2>5. i \in DOMAIN todo[p] /\ todo[p][i] \in {"children", "read"} \X {path}
    BY <2>2, <2>3, <2>4
  <2>6. /\ todo[p] \in Seq(Ops \X Nodes) /\ todo[p] # <<>> /\ Len(todo[p]) \in Nat \ {0}
        /\ Path(p) = todo[p][1][2] /\ Ending(todo[p], p) /\ DOMAIN todo[p] = 1 .. Len(todo[p])
    BY <1>1, <1>3, CallKinds, ListFacts
  <2>7. PICK n \in Nat \ {0} : n = Len(todo[p])
    BY <2>6
  <2>8. i # n
    BY <2>5, <2>6, <2>7 DEF Ending
  <2>9. i \in 1 .. n - 1 /\ 1 \in 1 .. n - 1
    BY <2>5, <2>6, <2>7, <2>8
  <2>10. todo[p][i][2] = todo[p][1][2] => i = 1
    BY <2>6, <2>7, <2>9 DEF Ending
  <2> QED
    BY <2>4, <2>5, <2>6, <2>10
<1> QED
  BY <1>2, <1>3

\* What is read is the list that is watched.
LEMMA KeepsReadChildren ==
    ASSUME RegParts, NEW p \in Processes, ReadChildren(p)
    PROVE  RegParts'
<1>1. RegTypes /\ RegCalls /\ RegListed /\ RegOwned /\ RegUntouched /\ RegLeft /\ RegFresh /\ Busy(p)
      /\ UNCHANGED <<session, stage, served, discovers>>
  BY DEF RegParts, ReadChildren, Next1, Rest
<1>2. PICK r \in Reply(p) : /\ GetChildren(p, Path(p), r)
                            /\ got' = [got EXCEPT ![p] = Listed(Path(p), r)]
  BY DEF ReadChildren
<1>3. r = "ok" /\ session[p] = "open"
  BY <1>1, <1>2, ReplyOk
<1>4. /\ faults' = faults /\ watcher' = watcher /\ cache' = cache /\ nodes' = nodes /\ events' = events
      /\ session' = session /\ stage' = stage /\ served' = served /\ discovers' = discovers
  BY <1>2 DEF ReadChildren, Rest, GetChildren
<1>5. /\ watches' = (IF Path(p) \in nodes THEN watches \cup {<<p, Path(p)>>} ELSE watches)
      /\ blind' = (IF Path(p) \notin nodes THEN [blind EXCEPT ![p] = @ \cup {Path(p)}] ELSE blind)
      /\ got' = [got EXCEPT ![p] = Children(Path(p))]
  BY <1>2, <1>3 DEF GetChildren, Listed
<1>6. todo[p][1][1] = "read" /\ todo[p][1] = <<"read", Path(p)>> /\ Head(todo[p]) = todo[p][1]
  BY <1>1, CallKinds DEF ReadChildren, Next1
<1>7. Path(p) \in Paths
  <2>1. \/ Path(p) \in Paths
        \/ todo[p][1] \in ({"delete", "drop"} \X Addresses(p)) \cup (VisitOps \X Paths)
    BY <1>1, <1>6, CallKinds DEF CreateOps
  <2> QED
    BY <1>6, <2>1
<1>8. Becomes(p, "store") /\ Follows(p, "store")
  BY <1>6 DEF ReadChildren, Follows
<1>9. Moves(p)
  BY <1>1, <1>3, <1>8 DEF Moves
<1>10. ~Done(p)
  BY <1>1, <1>8, NotBoth
<1>11. todo' \in [Processes -> Seq(Ops \X Nodes)] /\ RegCalls' /\ Busy(p)' /\ Head(todo'[p]) = <<"store", Path(p)>>
  BY <1>1, <1>8, CallBecomes DEF Busy
<1>12. RegTypes'
  <2>1. Children(Path(p)) \subseteq Names
    <3>1. nodes \subseteq Nodes
      BY <1>1 DEF RegTypes
    <3> QED
      BY <3>1 DEF Children, Under, Names
  <2>2. got' \in [Processes -> SUBSET Names] /\ watches' \subseteq Processes \X Paths
        /\ blind' \in [Processes -> SUBSET Paths]
    BY <1>1, <1>5, <1>7, <2>1 DEF RegTypes
  <2> QED
    BY <1>1, <1>4, <1>11, <2>2 DEF RegTypes
<1>13. RegListed'
  BY <1>1, <1>4, <1>6, <1>9, MoveListed DEF CreateOps
<1>14. RegOwned'
  BY <1>1, <1>4, <1>9, <1>10, MoveOwned DEF RegOwned
<1>15. got'[p] = Children(Path(p)) /\ \A q \in Processes : q # p => got'[q] = got[q]
  BY <1>1, <1>5 DEF RegTypes
<1>16. ASSUME NEW s \in Services, Clearing(p), Looks(p, s), Path(p) = ServicePath(s)
       PROVE  Looks(p, s)' \/ \E q \in Processes : q # p /\ Looks(q, s)
  <2>1. CASE Under(ServicePath(s)) = {}
    <3>1. got'[p] = {}
      BY <1>15, <1>16, <2>1 DEF Children
    <3> QED
      BY <1>1, <1>8, <1>9, <1>16, <3>1, LooksOn
  <2>2. CASE Under(ServicePath(s)) # {}
    BY <1>1, <1>16, <2>2, ChildOwner
  <2> QED
    BY <2>1, <2>2
<1>17. RegLeft'
  BY <1>1, <1>4, <1>9, <1>15, <1>16, MoveLeft
<1>18. \A q \in Processes : \A path : <<q, path>> \in watches' /\ <<q, path>> \notin watches => q = p /\ path = Path(p)
  BY <1>5
<1>19. RegUntouched'
  <2>1. \A q \in Processes, path \in Paths : Unasked(q, path)' => Unasked(q, path)
    BY <1>1, <1>9, MoveHead
  <2>2. \A path \in Paths : Unasked(p, path)' => path # Path(p)
    BY <1>1, <1>6, <1>8, <1>9, AskedOnce
  <2> QED
    BY <1>1, <1>4, <1>18, <2>1, <2>2, UntouchedKept
<1>20. RegFresh'
  <2> SUFFICES ASSUME "preempt" \notin faults, NEW q \in Processes, NEW path \in Paths, session[q] # "closed"
               PROVE  FreshIn(q, path)'
    BY <1>4 DEF RegFresh
  <2>1. FreshIn(q, path)
    BY <1>1 DEF RegFresh
  <2>2. Children(path)' = Children(path)
    BY <1>4 DEF Children, Under
  <2>3. \A other : (Reading(p, other)' => todo[p][1] = <<"children", other>>)
                   /\ (Storing(p, other)' => todo[p][1] = <<"read", other>>)
    BY <1>1, <1>9, MoveHead
  <2>4. ~Reading(p, path)' /\ ~Storing(p, path) /\ (Storing(p, path)' => path = Path(p))
    BY <1>6, <2>3 DEF Storing
  <2>5. blind[q] \subseteq blind'[q]
    BY <1>1, <1>5 DEF RegTypes
  <2>6. CASE q # p
    <3>1. (Reading(q, path)' <=> Reading(q, path)) /\ (Storing(q, path)' <=> Storing(q, path))
      BY <1>1, <1>9, <2>6, MoveHead
    <3>2. <<q, path>> \in watches' <=> <<q, path>> \in watches
      BY <1>5, <2>6
    <3> QED
      BY <1>4, <1>15, <2>1, <2>2, <2>5, <2>6, <3>1, <3>2 DEF FreshIn
  <2>7. CASE q = p /\ path # Path(p)
    <3>1. <<p, path>> \in watches' <=> <<p, path>> \in watches
      BY <1>5, <2>7
    <3>2. ~Storing(p, path)'
      BY <2>4, <2>7
    <3> QED
      BY <1>4, <2>1, <2>2, <2>4, <2>5, <2>7, <3>1, <3>2 DEF FreshIn
  <2>8. CASE q = p /\ path = Path(p)
    <3>1. Reading(p, path) /\ Storing(p, path)'
      BY <1>1, <1>6, <1>11, <2>8 DEF Reading, Storing
    <3>2. cache[p][path] = {} /\ \A read \in watcher[p] : read[1] # path
      BY <2>1, <2>4, <2>8, <3>1 DEF FreshIn
    <3>3. path \notin nodes => path \in blind'[p]
      BY <1>1, <1>5, <2>8 DEF RegTypes
    <3>4. path \in nodes => <<p, path>> \in watches' /\ got'[p] = Children(path)'
      BY <1>5, <1>15, <2>2, <2>8
    <3> QED
      BY <1>4, <2>4, <2>8, <3>1, <3>2, <3>3, <3>4 DEF FreshIn
  <2> QED
    BY <2>6, <2>7, <2>8
<1> QED
  BY <1>11, <1>12, <1>13, <1>14, <1>17, <1>19, <1>20 DEF RegParts

\* What is stored is what was read, and who clears looks at it.
LEMMA KeepsStore ==
    ASSUME RegParts, NEW p \in Processes, Store(p)
    PROVE  RegParts'
<1>1. RegTypes /\ RegCalls /\ RegListed /\ RegOwned /\ RegUntouched /\ RegLeft /\ RegFresh /\ Busy(p)
      /\ UNCHANGED <<session, stage, served, discovers>>
  BY DEF RegParts, Store, Next1, Rest
<1>2. /\ faults' = faults /\ watcher' = watcher /\ nodes' = nodes /\ watches' = watches
      /\ events' = events /\ blind' = blind /\ got' = got
      /\ session' = session /\ stage' = stage /\ served' = served /\ discovers' = discovers
  BY DEF Store, Rest, Treeless
<1>3. cache' = [cache EXCEPT ![p][Path(p)] = {got[p]}] /\ Answer(p)
  BY DEF Store
<1>4. todo[p][1][1] = "store" /\ todo[p][1] = <<"store", Path(p)>> /\ Head(todo[p]) = todo[p][1]
  BY <1>1, CallKinds DEF Store, Next1
<1>5. session[p] = "open" /\ Path(p) \in Paths
  <2>1. \/ session[p] = "open" /\ Path(p) \in Paths
        \/ /\ session[p] = "open"
           /\ todo[p][1] \in ({"delete", "drop"} \X Addresses(p)) \cup (VisitOps \X Paths)
    BY <1>1, <1>4, CallKinds DEF CreateOps
  <2> QED
    BY <1>4, <2>1
<1>6. Moves(p) /\ (Clearing(p) => Becomes(p, "prune") /\ Follows(p, "prune"))
  BY <1>1, <1>3, <1>4, <1>5 DEF Moves, Follows, Answer
<1>7. todo' \in [Processes -> Seq(Ops \X Nodes)] /\ RegCalls'
  BY <1>1, <1>6, MoveFacts
<1>8. /\ cache' \in [Processes -> [Paths -> ChildLists]] /\ cache'[p][Path(p)] = {got[p]}
      /\ \A q \in Processes, path \in Paths : q # p \/ path # Path(p) => cache'[q][path] = cache[q][path]
  <2>1. cache \in [Processes -> [Paths -> ChildLists]] /\ {got[p]} \in ChildLists
    BY <1>1 DEF RegTypes, ChildLists
  <2> QED
    BY <1>3, <1>5, <2>1
<1>9. RegTypes'
  BY <1>1, <1>2, <1>7, <1>8 DEF RegTypes
<1>10. RegListed'
  BY <1>1, <1>2, <1>4, <1>6, MoveListed DEF CreateOps
<1>11. RegOwned'
  BY <1>1, <1>2, <1>5, <1>6, MoveOwned DEF RegOwned
<1>12. ASSUME NEW s \in Services, Clearing(p), Looks(p, s), Path(p) = ServicePath(s)
       PROVE  Looks(p, s)'
  <2>1. got'[p] = {}
    BY <1>2, <1>4, <1>12 DEF Looks
  <2> QED
    BY <1>1, <1>6, <1>12, <2>1, LooksOn
<1>13. RegLeft'
  BY <1>1, <1>2, <1>6, <1>12, MoveLeft
<1>14. RegUntouched'
  <2>1. \A q \in Processes, path \in Paths : Unasked(q, path)' => Unasked(q, path)
    BY <1>1, <1>6, MoveHead
  <2>2. \A path \in Paths : Unasked(p, path)' => path # Path(p)
    BY <1>1, <1>4, <1>6, AskedOnce
  <2> QED
    BY <1>1, <1>2, <1>8, <2>1, <2>2, UntouchedKept
<1>15. RegFresh'
  <2> SUFFICES ASSUME "preempt" \notin faults, NEW q \in Processes, NEW path \in Paths, session[q] # "closed"
               PROVE  FreshIn(q, path)'
    BY <1>2 DEF RegFresh
  <2>1. FreshIn(q, path)
    BY <1>1 DEF RegFresh
  <2>2. Children(path)' = Children(path)
    BY <1>2 DEF Children, Under
  <2>3. \A other : (Reading(p, other)' => todo[p][1] = <<"children", other>>)
                   /\ (Storing(p, other)' => todo[p][1] = <<"read", other>>)
    BY <1>1, <1>6, MoveHead
  <2>4. ~Reading(p, path)' /\ ~Storing(p, path)' /\ (Storing(p, path) <=> path = Path(p))
    BY <1>1, <1>4, <2>3 DEF Storing
  <2>5. CASE q # p
    <3>1. (Reading(q, path)' <=> Reading(q, path)) /\ (Storing(q, path)' <=> Storing(q, path))
      BY <1>1, <1>6, <2>5, MoveHead
    <3> QED
      BY <1>2, <1>8, <2>1, <2>2, <2>5, <3>1 DEF FreshIn
  <2>6. CASE q = p /\ path # Path(p)
    BY <1>2, <1>8, <2>1, <2>2, <2>4, <2>6 DEF FreshIn
  <2>7. CASE q = p /\ path = Path(p)
    BY <1>2, <1>8, <2>1, <2>2, <2>4, <2>7 DEF FreshIn
  <2> QED
    BY <2>5, <2>6, <2>7
<1> QED
  BY <1>7, <1>9, <1>10, <1>11, <1>13, <1>14, <1>15 DEF RegParts

\* What concerns neither the calls nor the tree keeps what is said of them.
LEMMA CallsKept ==
    ASSUME RegTypes, RegCalls, RegListed, RegOwned, RegLeft,
           UNCHANGED <<faults, nodes, todo, got, stage, served, discovers>>,
           \A q \in Processes : session'[q] = session[q] \/ (session[q] = "waiting" /\ session'[q] = "open")
    PROVE  RegCalls' /\ RegListed' /\ RegOwned' /\ RegLeft'
<1>1. /\ faults' = faults /\ nodes' = nodes /\ todo' = todo /\ got' = got /\ stage' = stage
      /\ served' = served /\ discovers' = discovers
  OBVIOUS
<1>2. RegCalls'
  BY <1>1 DEF RegCalls, Founding, CreateOps, Clearing, Busy
<1>3. \A q \in Processes : (Clearing(q)' <=> Clearing(q)) /\ (Registering(q)' <=> Registering(q))
  BY <1>1 DEF Clearing, Registering, Busy
<1>4. \A q \in Processes : session[q] = "waiting" => Founding(todo[q]) /\ stage[q] = "new"
  BY DEF RegCalls
<1>5. RegListed'
  BY <1>1, <1>3, <1>4 DEF RegListed
<1>6. \A q \in Processes : \A path : Left(q, path)' <=> Left(q, path)
  BY <1>1 DEF Left
<1>7. RegOwned'
  BY <1>1, <1>3, <1>6 DEF RegOwned
<1>8. \A q \in Processes : \A s : Looks(q, s)' <=> Looks(q, s)
  BY <1>1, <1>3, <1>6 DEF Looks
<1>9. RegLeft'
  BY <1>1, <1>8 DEF RegLeft
<1> QED
  BY <1>2, <1>5, <1>7, <1>9

\* The watcher's thread reads what an event names, and watches it again.
LEMMA KeepsServiceWatcher ==
    ASSUME RegParts, NEW p \in Processes, ServiceWatcher(p)
    PROVE  RegParts'
<1>1. RegTypes /\ RegCalls /\ RegListed /\ RegOwned /\ RegUntouched /\ RegLeft /\ RegFresh
  BY DEF RegParts
<1>2. PICK r \in Reply(p) : ReadAgain(p, r)
  BY DEF ServiceWatcher
<1>3. r = "ok" /\ session[p] = "open"
  BY <1>1, <1>2, ReplyOk
<1>4. /\ faults' = faults /\ session' = session /\ todo' = todo /\ got' = got /\ cache' = cache
      /\ stage' = stage /\ served' = served /\ discovers' = discovers
      /\ watcher[p] = {} /\ events[p] # <<>> /\ MayRun(p) /\ events' = [events EXCEPT ![p] = Tail(@)]
  BY DEF ServiceWatcher
<1>5. PICK path0 \in Paths : path0 = Head(events[p])
  BY <1>1, <1>4 DEF RegTypes
<1>6. /\ watcher' = [watcher EXCEPT ![p] = {<<path0, Children(path0)>>}]
      /\ watches' = (IF path0 \in nodes THEN watches \cup {<<p, path0>>} ELSE watches)
      /\ blind' = (IF path0 \notin nodes THEN [blind EXCEPT ![p] = @ \cup {path0}] ELSE blind)
      /\ nodes' = nodes
  BY <1>2, <1>3, <1>5 DEF ReadAgain, Listed
<1>7. /\ Tail(events[p]) \in Seq(Paths) /\ path0 \in Range(events[p])
      /\ \A path : path # path0 => (path \in Range(Tail(events[p])) <=> path \in Range(events[p]))
      /\ Range(Tail(events[p])) \subseteq Range(events[p])
  <2>1. PICK t \in Seq(Paths) : t = events[p] /\ t # <<>>
    BY <1>1, <1>4 DEF RegTypes
  <2>2. PICK n \in Nat \ {0} : n = Len(t)
    BY <2>1
  <2>3. /\ Tail(t) \in Seq(Paths) /\ DOMAIN t = 1 .. n /\ DOMAIN Tail(t) = 1 .. n - 1 /\ t[1] = Head(t)
        /\ \A i \in 1 .. n - 1 : Tail(t)[i] = t[i + 1]
    BY <2>1, <2>2
  <2>4. \A i \in 1 .. n - 1 : i + 1 \in 1 .. n
    BY <2>2
  <2>5. \A i \in 1 .. n : i = 1 \/ (i - 1 \in 1 .. n - 1 /\ (i - 1) + 1 = i)
    BY <2>2
  <2>6. 1 \in 1 .. n
    BY <2>2
  <2>7. \A path \in Range(Tail(t)) : path \in Range(t)
    BY <2>3, <2>4 DEF Range
  <2>8. ASSUME NEW path \in Range(t), path # path0 PROVE path \in Range(Tail(t))
    <3>1. PICK i \in 1 .. n : t[i] = path
      BY <2>3 DEF Range
    <3>2. i # 1
      BY <1>5, <2>1, <2>3, <2>8, <3>1
    <3>3. i - 1 \in 1 .. n - 1 /\ Tail(t)[i - 1] = path
      BY <2>3, <2>5, <3>1, <3>2
    <3> QED
      BY <2>3, <3>3 DEF Range
  <2>9. path0 \in Range(t)
    BY <1>5, <2>1, <2>3, <2>6 DEF Range
  <2> QED
    BY <2>1, <2>3, <2>7, <2>8, <2>9
<1>8. /\ events' \in [Processes -> Seq(Paths)] /\ events'[p] = Tail(events[p])
      /\ \A q \in Processes : q # p => events'[q] = events[q]
  BY <1>1, <1>4, <1>7 DEF RegTypes
<1>9. /\ watcher' \in [Processes -> Reads] /\ watcher'[p] = {<<path0, Children(path0)>>}
      /\ \A q \in Processes : q # p => watcher'[q] = watcher[q]
  <2>1. Children(path0) \subseteq Names
    <3>1. nodes \subseteq Nodes
      BY <1>1 DEF RegTypes
    <3> QED
      BY <3>1 DEF Children, Under, Names
  <2>2. {<<path0, Children(path0)>>} \in Reads
    BY <1>5, <2>1 DEF Reads
  <2> QED
    BY <1>1, <1>6, <2>2 DEF RegTypes
<1>10. watches' \subseteq Processes \X Paths /\ blind' \in [Processes -> SUBSET Paths]
       /\ \A q \in Processes : blind[q] \subseteq blind'[q]
  BY <1>1, <1>5, <1>6 DEF RegTypes
<1>11. RegTypes'
  BY <1>1, <1>4, <1>6, <1>8, <1>9, <1>10 DEF RegTypes
<1>12. RegCalls' /\ RegListed' /\ RegOwned' /\ RegLeft'
  BY <1>1, <1>4, <1>6, CallsKept
<1>13. \A q \in Processes : \A path : Unasked(q, path)' <=> Unasked(q, path)
  BY <1>4 DEF Unasked, Clearing, Busy
<1>14. ~Unasked(p, path0)
  BY <1>1, <1>5, <1>7 DEF RegUntouched, Unasked, Untouched
<1>15. \A q \in Processes : \A path : q # p \/ path # path0 => (<<q, path>> \in watches' <=> <<q, path>> \in watches)
  BY <1>6
<1>16. RegUntouched'
  <2>1. \A q \in Processes, path \in Paths : Unasked(q, path)' => q # p \/ path # path0
    BY <1>13, <1>14
  <2>2. \A path : path # path0 => \A read \in watcher'[p] : read[1] # path
    BY <1>9
  <2>3. ASSUME NEW q \in Processes, NEW path \in Paths, Unasked(q, path)'
        PROVE  /\ Unasked(q, path) /\ cache'[q][path] = cache[q][path]
               /\ <<q, path>> \in watches' => <<q, path>> \in watches
               /\ path \in Range(events'[q]) => path \in Range(events[q]) \/ <<q, path>> \in watches
               /\ \A read \in watcher'[q] : read[1] = path => read \in watcher[q]
    BY <1>4, <1>7, <1>8, <1>9, <1>13, <1>15, <2>1, <2>2, <2>3
  <2> QED
    BY <1>1, <2>3, UntouchedKept
<1>17. RegFresh'
  <2> SUFFICES ASSUME "preempt" \notin faults, NEW q \in Processes, NEW path \in Paths, session[q] # "closed"
               PROVE  FreshIn(q, path)'
    BY <1>4 DEF RegFresh
  <2>1. FreshIn(q, path)
    BY <1>1 DEF RegFresh
  <2>2. Children(path)' = Children(path)
    BY <1>6 DEF Children, Under
  <2>3. (Reading(q, path)' <=> Reading(q, path)) /\ (Storing(q, path)' <=> Storing(q, path))
    BY <1>4 DEF Reading, Storing, Busy
  <2>4. CASE q # p
    BY <1>4, <1>8, <1>9, <1>10, <1>15, <2>1, <2>2, <2>3, <2>4 DEF FreshIn
  <2>5. CASE q = p /\ path # path0
    <3>1. \A read \in watcher'[p] : read[1] # path
      BY <1>9, <2>5
    <3>2. path \in Range(events'[p]) <=> path \in Range(events[p])
      BY <1>7, <1>8, <2>5
    <3> QED
      BY <1>4, <1>10, <1>15, <2>1, <2>2, <2>3, <2>5, <3>1, <3>2 DEF FreshIn
  <2>6. CASE q = p /\ path = path0
    <3>1. ~Storing(p, path)
      BY <1>4 DEF MayRun, Next1, Storing
    <3>2. cache[p][path] # {} /\ ~Reading(p, path)
      BY <1>7, <2>1, <2>6, <3>1 DEF FreshIn
    <3>3. path \notin nodes => path \in blind'[p]
      BY <1>1, <1>5, <1>6, <2>6 DEF RegTypes
    <3>4. path \in nodes => <<p, path>> \in watches'
      BY <1>6, <2>6
    <3>5. <<path, Children(path)>> \in watcher'[p] /\ \A read \in watcher'[p] : read[2] = Children(path)'
      BY <1>9, <2>2, <2>6
    <3> QED
      BY <1>4, <2>3, <2>6, <3>1, <3>2, <3>3, <3>4, <3>5 DEF FreshIn
  <2> QED
    BY <2>4, <2>5, <2>6
<1> QED
  BY <1>11, <1>12, <1>16, <1>17 DEF RegParts

\* What the watcher's thread has read it stores, and nobody stores over it.
LEMMA KeepsStoreAgain ==
    ASSUME RegParts, NEW p \in Processes, StoreAgain(p)
    PROVE  RegParts'
<1>1. RegTypes /\ RegCalls /\ RegListed /\ RegOwned /\ RegUntouched /\ RegLeft /\ RegFresh
  BY DEF RegParts
<1>2. /\ faults' = faults /\ session' = session /\ todo' = todo /\ got' = got /\ nodes' = nodes
      /\ watches' = watches /\ events' = events /\ blind' = blind
      /\ stage' = stage /\ served' = served /\ discovers' = discovers
      /\ MayRun(p) /\ watcher' = [watcher EXCEPT ![p] = {}]
  BY DEF StoreAgain, Treeless
<1>3. PICK path0 \in Paths, list \in SUBSET Names : watcher[p] = {<<path0, list>>}
  <2>1. watcher[p] \in Reads /\ watcher[p] # {}
    BY <1>1 DEF RegTypes, StoreAgain
  <2> QED
    BY <2>1 DEF Reads
<1>4. cache' = [cache EXCEPT ![p][path0] = {list}]
  <2>1. PICK read \in watcher[p] : cache' = [cache EXCEPT ![p][read[1]] = {read[2]}]
    BY DEF StoreAgain
  <2>2. read[1] = path0 /\ read[2] = list
    BY <1>3, <2>1
  <2> QED
    BY <2>1, <2>2
<1>5. /\ cache' \in [Processes -> [Paths -> ChildLists]] /\ cache'[p][path0] = {list}
      /\ \A q \in Processes, path \in Paths : q # p \/ path # path0 => cache'[q][path] = cache[q][path]
  <2>1. cache \in [Processes -> [Paths -> ChildLists]] /\ {list} \in ChildLists
    BY <1>1 DEF RegTypes, ChildLists
  <2> QED
    BY <1>4, <2>1
<1>6. /\ watcher' \in [Processes -> Reads] /\ watcher'[p] = {}
      /\ \A q \in Processes : q # p => watcher'[q] = watcher[q]
  <2>1. {} \in Reads
    BY DEF Reads
  <2> QED
    BY <1>1, <1>2, <2>1 DEF RegTypes
<1>7. RegTypes'
  BY <1>1, <1>2, <1>5, <1>6 DEF RegTypes
<1>8. RegCalls' /\ RegListed' /\ RegOwned' /\ RegLeft'
  BY <1>1, <1>2, CallsKept
<1>9. \A q \in Processes : \A path : Unasked(q, path)' <=> Unasked(q, path)
  BY <1>2 DEF Unasked, Clearing, Busy
<1>10. ~Unasked(p, path0)
  <2>1. <<path0, list>> \in watcher[p] /\ <<path0, list>>[1] = path0
    BY <1>3
  <2>2. ~Untouched(p, path0)
    BY <2>1 DEF Untouched
  <2> QED
    BY <1>1, <2>2 DEF RegUntouched, Unasked
<1>11. RegUntouched'
  <2>1. ASSUME NEW q \in Processes, NEW path \in Paths, Unasked(q, path)'
        PROVE  /\ Unasked(q, path) /\ cache'[q][path] = cache[q][path]
               /\ <<q, path>> \in watches' => <<q, path>> \in watches
               /\ path \in Range(events'[q]) => path \in Range(events[q]) \/ <<q, path>> \in watches
               /\ \A read \in watcher'[q] : read[1] = path => read \in watcher[q]
    BY <1>2, <1>5, <1>6, <1>9, <1>10, <2>1
  <2> QED
    BY <1>1, <2>1, UntouchedKept
<1>12. RegFresh'
  <2> SUFFICES ASSUME "preempt" \notin faults, NEW q \in Processes, NEW path \in Paths, session[q] # "closed"
               PROVE  FreshIn(q, path)'
    BY <1>2 DEF RegFresh
  <2>1. FreshIn(q, path)
    BY <1>1 DEF RegFresh
  <2>2. Children(path)' = Children(path)
    BY <1>2 DEF Children, Under
  <2>3. (Reading(q, path)' <=> Reading(q, path)) /\ (Storing(q, path)' <=> Storing(q, path))
    BY <1>2 DEF Reading, Storing, Busy
  <2>4. CASE q # p
    BY <1>2, <1>5, <1>6, <2>1, <2>2, <2>3, <2>4 DEF FreshIn
  <2>5. CASE q = p /\ path # path0
    <3>1. \A read \in watcher[p] : read[1] # path
      BY <1>3, <2>5
    <3> QED
      BY <1>2, <1>5, <1>6, <2>1, <2>2, <2>3, <2>5, <3>1 DEF FreshIn
  <2>6. CASE q = p /\ path = path0
    <3>1. ~Storing(p, path)
      BY <1>2 DEF MayRun, Next1, Storing
    <3>2. <<path, list>> \in watcher[p] /\ <<path, list>>[1] = path /\ <<path, list>>[2] = list
      BY <1>3, <2>6
    <3>3. cache[p][path] # {}
      BY <2>1, <2>6, <3>1, <3>2 DEF FreshIn
    <3>4. ~Reading(p, path)
      BY <2>1, <2>6, <3>3 DEF FreshIn
    <3>5. path \in blind[p] \/ path \in Range(events[p]) \/ (list = Children(path) /\ <<p, path>> \in watches)
      BY <2>1, <2>6, <3>2 DEF FreshIn
    <3> QED
      BY <1>2, <1>5, <1>6, <2>2, <2>3, <2>6, <3>1, <3>4, <3>5 DEF FreshIn
  <2> QED
    BY <2>4, <2>5, <2>6
<1> QED
  BY <1>7, <1>8, <1>11, <1>12 DEF RegParts

\* The session is there: the call that waits for it goes on.
LEMMA KeepsConnected ==
    ASSUME RegParts, NEW p \in Processes, Connected(p)
    PROVE  RegParts'
<1>1. RegTypes /\ RegCalls /\ RegListed /\ RegOwned /\ RegUntouched /\ RegLeft /\ RegFresh
  BY DEF RegParts
<1>2. /\ faults' = faults /\ todo' = todo /\ got' = got /\ nodes' = nodes /\ cache' = cache /\ watcher' = watcher
      /\ watches' = watches /\ events' = events /\ blind' = blind
      /\ stage' = stage /\ served' = served /\ discovers' = discovers
      /\ session[p] = "waiting" /\ session' = [session EXCEPT ![p] = "open"]
  BY DEF Connected, Treeless
<1>3. /\ session' \in [Processes -> {"new", "waiting", "open", "closed"}]
      /\ \A q \in Processes : session'[q] = session[q] \/ (session[q] = "waiting" /\ session'[q] = "open")
  BY <1>1, <1>2 DEF RegTypes
<1>4. RegTypes'
  BY <1>1, <1>2, <1>3 DEF RegTypes
<1>5. RegCalls' /\ RegListed' /\ RegOwned' /\ RegLeft'
  BY <1>1, <1>2, <1>3, CallsKept
<1>6. RegUntouched'
  BY <1>1, <1>2 DEF RegUntouched, Untouched, Clearing, Busy
<1>7. RegFresh'
  <2> SUFFICES ASSUME "preempt" \notin faults, NEW q \in Processes, NEW path \in Paths, session'[q] # "closed"
               PROVE  FreshIn(q, path)'
    BY <1>2 DEF RegFresh
  <2>1. FreshIn(q, path)
    BY <1>1, <1>3 DEF RegFresh
  <2>2. Children(path)' = Children(path)
    BY <1>2 DEF Children, Under
  <2>3. (Reading(q, path)' <=> Reading(q, path)) /\ (Storing(q, path)' <=> Storing(q, path))
    BY <1>2 DEF Reading, Storing, Busy
  <2> QED
    BY <1>2, <2>1, <2>2, <2>3 DEF FreshIn
<1> QED
  BY <1>4, <1>5, <1>6, <1>7 DEF RegParts

\* A call that begins has neither read nor stored anything.
LEMMA BeginFacts ==
    ASSUME RegTypes, RegUntouched, RegFresh, NEW p \in Processes, todo[p] = <<>>,
           NEW plan \in Seq(Ops \X Nodes), plan # <<>>, plan[1][1] \notin {"read", "store"}, Begin(p, plan),
           \A q \in Processes :
               /\ session'[q] # "closed" => session[q] # "closed"
               /\ discovers'[q] = 0 => discovers[q] = 0
               /\ stage'[q] \in {"new", "registered"} => stage[q] \in {"new", "registered"}
    PROVE  /\ todo' \in [Processes -> Seq(Ops \X Nodes)] /\ todo'[p] = plan
           /\ \A q \in Processes : q # p => todo'[q] = todo[q]
           /\ UNCHANGED <<faults, nodes, watches, events, blind, got, watcher, cache>>
           /\ ~Clearing(p) /\ RegUntouched' /\ RegFresh'
<1>1. /\ faults' = faults /\ nodes' = nodes /\ watches' = watches /\ events' = events /\ blind' = blind
      /\ got' = got /\ watcher' = watcher /\ cache' = cache /\ todo' = [todo EXCEPT ![p] = plan]
  BY DEF Begin, Treeless
<1>2. /\ todo' \in [Processes -> Seq(Ops \X Nodes)] /\ todo'[p] = plan
      /\ \A q \in Processes : q # p => todo'[q] = todo[q]
  BY <1>1 DEF RegTypes
<1>3. ~Clearing(p) /\ Head(plan) = plan[1]
  BY DEF Clearing, Busy
<1>4. \A q \in Processes : q # p => (Clearing(q)' <=> Clearing(q))
  BY <1>2 DEF Clearing, Busy
<1>5. \A q \in Processes : \A path : Unasked(q, path)' => Unasked(q, path)
  BY <1>2, <1>3, <1>4 DEF Unasked
<1>6. RegUntouched'
  BY <1>1, <1>5, UntouchedKept
<1>7. \A path : ~Reading(p, path)' /\ ~Storing(p, path)' /\ ~Storing(p, path)
  BY <1>2, <1>3 DEF Reading, Storing, Busy
<1>8. \A q \in Processes : \A path : q # p =>
         (Reading(q, path)' <=> Reading(q, path)) /\ (Storing(q, path)' <=> Storing(q, path))
  BY <1>2 DEF Reading, Storing, Busy
<1>9. RegFresh'
  <2> SUFFICES ASSUME "preempt" \notin faults, NEW q \in Processes, NEW path \in Paths, session'[q] # "closed"
               PROVE  FreshIn(q, path)'
    BY <1>1 DEF RegFresh
  <2>1. FreshIn(q, path)
    BY DEF RegFresh
  <2>2. Children(path)' = Children(path)
    BY <1>1 DEF Children, Under
  <2> QED
    BY <1>1, <1>7, <1>8, <2>1, <2>2 DEF FreshIn
<1> QED
  BY <1>1, <1>2, <1>3, <1>6, <1>9

\* The calls a process makes, as lists.
LEMMA OneStep ==
    ASSUME NEW op \in Ops, NEW path \in Nodes
    PROVE  LET plan == <<<<op, path>>>> IN
           /\ plan \in Seq(Ops \X Nodes) /\ plan # <<>> /\ Len(plan) = 1 /\ plan[1] = <<op, path>>
           /\ Last(plan) = <<op, path>> /\ DOMAIN plan = {1}
<1>1. PICK plan : plan = <<<<op, path>>>>
  OBVIOUS
<1>2. /\ plan \in Seq(Ops \X Nodes) /\ plan # <<>> /\ Len(plan) = 1 /\ plan[1] = <<op, path>>
      /\ DOMAIN plan = {1}
  BY <1>1
<1>3. Last(plan) = plan[Len(plan)]
  BY DEF Last
<1> QED
  BY <1>1, <1>2, <1>3

\* Init's call makes the root.
LEMMA KeepsStart ==
    ASSUME RegParts, NEW p \in Processes, Start(p)
    PROVE  RegParts'
<1>1. RegTypes /\ RegCalls /\ RegListed /\ RegOwned /\ RegUntouched /\ RegLeft /\ RegFresh
  BY DEF RegParts
<1>2. PICK plan : plan = <<<<"create", Root>>>>
  OBVIOUS
<1>3. /\ plan \in Seq(Ops \X Nodes) /\ plan # <<>> /\ Len(plan) = 1 /\ plan[1] = <<"create", Root>>
      /\ Last(plan) = <<"create", Root>>
  BY <1>2, OneStep, PathFacts DEF Ops, Nodes
<1>4. /\ session[p] = "new" /\ Undisturbed /\ session' = [session EXCEPT ![p] = "waiting"]
      /\ stage' = stage /\ served' = served /\ discovers' = discovers /\ Begin(p, plan)
  BY <1>2 DEF Start
<1>5. todo[p] = <<>> /\ stage[p] = "new"
  BY <1>1, <1>4 DEF RegCalls
<1>6. /\ session' \in [Processes -> {"new", "waiting", "open", "closed"}] /\ session'[p] = "waiting"
      /\ \A q \in Processes : q # p => session'[q] = session[q]
  BY <1>1, <1>4 DEF RegTypes
<1>7. /\ todo' \in [Processes -> Seq(Ops \X Nodes)] /\ todo'[p] = plan
      /\ \A q \in Processes : q # p => todo'[q] = todo[q]
      /\ UNCHANGED <<faults, nodes, watches, events, blind, got, watcher, cache>>
      /\ ~Clearing(p) /\ RegUntouched' /\ RegFresh'
  <2>1. \A q \in Processes :
           /\ session'[q] # "closed" => session[q] # "closed"
           /\ discovers'[q] = 0 => discovers[q] = 0
           /\ stage'[q] \in {"new", "registered"} => stage[q] \in {"new", "registered"}
    BY <1>4, <1>6
  <2> QED
    BY <1>1, <1>3, <1>4, <1>5, <2>1, BeginFacts
<1>8. RegTypes'
  BY <1>1, <1>4, <1>6, <1>7 DEF RegTypes
<1>9. Founding(plan) /\ ~Clearing(p)' /\ Registering(p)'
  BY <1>3, <1>5, <1>4, <1>7 DEF Founding, CreateOps, Clearing, Registering, Busy
<1>10. RegCalls'
  <2>1. \A q \in Processes : q # p =>
           /\ todo'[q] = todo[q] /\ session'[q] = session[q] /\ stage'[q] = stage[q] /\ served'[q] = served[q]
           /\ discovers'[q] = discovers[q]
    BY <1>4, <1>6, <1>7
  <2> QED
    BY <1>1, <1>4, <1>5, <1>6, <1>7, <1>9, <2>1 DEF RegCalls, Clearing, Busy
<1>11. \A q \in Processes : q # p => (Clearing(q)' <=> Clearing(q)) /\ (Registering(q)' <=> Registering(q))
  BY <1>4, <1>6, <1>7 DEF Clearing, Registering, Busy
<1>12. \A s : ~Listing(plan, p, s)
  BY <1>3, PathFacts DEF Listing
<1>13. RegListed'
  <2> SUFFICES ASSUME "clearing" \notin faults PROVE RegListed'
    BY <1>7 DEF RegListed
  <2>1. \A q \in Processes : ~Clearing(q) /\ ~Clearing(q)'
    BY <1>4, <1>9, <1>11 DEF Undisturbed
  <2>2. \A q \in Processes : q # p => todo'[q] = todo[q] /\ session'[q] = session[q]
    BY <1>6, <1>7
  <2> QED
    BY <1>1, <1>4, <1>5, <1>6, <1>7, <1>9, <1>12, <2>1, <2>2 DEF RegListed
<1>14. \A q \in Processes : \A path : q # p => (Left(q, path)' <=> Left(q, path))
  BY <1>7 DEF Left
<1>15. RegOwned'
  BY <1>1, <1>4, <1>7, <1>9, <1>11, <1>14 DEF RegOwned
<1>16. \A q \in Processes : \A s : Looks(q, s) => Looks(q, s)'
  BY <1>4, <1>5, <1>7, <1>11, <1>14 DEF Looks
<1>17. RegLeft'
  BY <1>1, <1>4, <1>7, <1>16 DEF RegLeft
<1> QED
  BY <1>7, <1>8, <1>10, <1>13, <1>15, <1>17 DEF RegParts

\* Discover asks, and counts.
LEMMA KeepsDiscover ==
    ASSUME RegParts, NEW p \in Processes, NEW s \in Services, Discover(p, s)
    PROVE  RegParts'
<1>1. RegTypes /\ RegCalls /\ RegListed /\ RegOwned /\ RegUntouched /\ RegLeft /\ RegFresh
  BY DEF RegParts
<1>2. PICK plan : plan = <<<<"children", ServicePath(s)>>>>
  OBVIOUS
<1>3. /\ plan \in Seq(Ops \X Nodes) /\ plan # <<>> /\ Len(plan) = 1 /\ plan[1] = <<"children", ServicePath(s)>>
      /\ Last(plan) = <<"children", ServicePath(s)>>
  BY <1>2, OneStep, PathFacts DEF Ops, Nodes
<1>4. /\ session[p] = "open" /\ todo[p] = <<>> /\ session' = session /\ stage' = stage /\ served' = served
      /\ discovers' = [discovers EXCEPT ![p] = @ + 1] /\ Begin(p, plan)
  BY <1>2 DEF Discover, Idle, Busy
<1>5. /\ discovers' \in [Processes -> Nat] /\ discovers'[p] # 0
      /\ \A q \in Processes : q # p => discovers'[q] = discovers[q]
  BY <1>1, <1>4 DEF RegTypes
<1>6. /\ todo' \in [Processes -> Seq(Ops \X Nodes)] /\ todo'[p] = plan
      /\ \A q \in Processes : q # p => todo'[q] = todo[q]
      /\ UNCHANGED <<faults, nodes, watches, events, blind, got, watcher, cache>>
      /\ ~Clearing(p) /\ RegUntouched' /\ RegFresh'
  <2>1. \A q \in Processes :
           /\ session'[q] # "closed" => session[q] # "closed"
           /\ discovers'[q] = 0 => discovers[q] = 0
           /\ stage'[q] \in {"new", "registered"} => stage[q] \in {"new", "registered"}
    BY <1>4, <1>5
  <2> QED
    BY <1>1, <1>3, <1>4, <2>1, BeginFacts
<1>7. RegTypes'
  BY <1>1, <1>4, <1>5, <1>6 DEF RegTypes
<1>8. Asking(plan) /\ ~Clearing(p)' /\ (Registering(p)' => Registering(p))
  <2>1. Asking(plan)
    BY <1>3, PathFacts DEF Asking
  <2> QED
    BY <1>3, <1>4, <1>6, <2>1 DEF Clearing, Registering, Busy
<1>9. RegCalls'
  <2>1. \A q \in Processes : q # p => todo'[q] = todo[q] /\ discovers'[q] = discovers[q]
    BY <1>5, <1>6
  <2>2. /\ session[p] = "new" => stage[p] = "new"
        /\ session[p] = "closed" <=> stage[p] \in {"cleared", "dead"}
        /\ stage[p] = "new" => served[p] = {}
        /\ stage[p] = "registered" => served[p] # {} \/ Clearing(p)
    BY <1>1 DEF RegCalls
  <2> QED
    BY <1>1, <1>4, <1>5, <1>6, <1>8, <2>1, <2>2 DEF RegCalls, Clearing, Busy
<1>10. \A q \in Processes : (Clearing(q)' <=> Clearing(q)) /\ (Registering(q)' => Registering(q))
  <2>1. \A q \in Processes : q # p => (Clearing(q)' <=> Clearing(q)) /\ (Registering(q)' <=> Registering(q))
    BY <1>4, <1>6 DEF Clearing, Registering, Busy
  <2> QED
    BY <1>6, <1>8, <2>1
<1>11. (\A t : ~Listing(plan, p, t) /\ ~Listing(todo[p], p, t)) /\ ~Founding(todo[p])
  <2>1. Len(todo[p]) = 0
    BY <1>4
  <2> QED
    BY <1>3, <2>1 DEF Listing, CreateOps, Founding
<1>12. RegListed'
  <2> SUFFICES ASSUME "clearing" \notin faults PROVE RegListed'
    BY <1>6 DEF RegListed
  <2>1. \A q, r \in Processes : ~(Clearing(q)' /\ Registering(r)')
    BY <1>1, <1>10 DEF RegListed
  <2> QED
    BY <1>1, <1>4, <1>6, <1>10, <1>11, <2>1 DEF RegListed
<1>13. \A q \in Processes : \A path : q # p => (Left(q, path)' <=> Left(q, path))
  BY <1>6 DEF Left
<1>14. RegOwned'
  BY <1>1, <1>4, <1>6, <1>10, <1>13 DEF RegOwned
<1>15. RegLeft'
  BY <1>5 DEF RegLeft
<1> QED
  BY <1>6, <1>7, <1>9, <1>12, <1>14, <1>15 DEF RegParts

\* Register begins where the root is there, unless somebody clears.
LEMMA KeepsRegister ==
    ASSUME RegParts, NEW p \in Processes, NEW s \in Services, Register(p, s)
    PROVE  RegParts'
<1>1. RegTypes /\ RegCalls /\ RegListed /\ RegOwned /\ RegUntouched /\ RegLeft /\ RegFresh
  BY DEF RegParts
<1>2. PICK plan : plan = <<<<"create", ServicePath(s)>>, <<"create", AddressPath(s, p)>>>>
  OBVIOUS
<1>3. /\ plan \in Seq(Ops \X Nodes) /\ plan # <<>> /\ Len(plan) = 2 /\ plan[1] = <<"create", ServicePath(s)>>
      /\ plan[2] = <<"create", AddressPath(s, p)>> /\ Last(plan) = <<"create", AddressPath(s, p)>>
  <2>1. <<"create", ServicePath(s)>> \in Ops \X Nodes /\ <<"create", AddressPath(s, p)>> \in Ops \X Nodes
    BY PathFacts DEF Ops, Nodes
  <2>2. /\ plan \in Seq(Ops \X Nodes) /\ plan # <<>> /\ Len(plan) = 2 /\ plan[1] = <<"create", ServicePath(s)>>
        /\ plan[2] = <<"create", AddressPath(s, p)>>
    BY <1>2, <2>1
  <2>3. Last(plan) = plan[Len(plan)]
    BY DEF Last
  <2> QED
    BY <2>2, <2>3
<1>4. /\ session[p] = "open" /\ todo[p] = <<>> /\ session' = session /\ discovers' = discovers
      /\ stage[p] \in {"new", "registered"} /\ s \notin served[p] /\ Undisturbed
      /\ served' = [served EXCEPT ![p] = @ \cup {s}] /\ stage' = [stage EXCEPT ![p] = "registered"]
      /\ Begin(p, plan)
  BY <1>2 DEF Register, Idle, Busy
<1>5. /\ stage' \in [Processes -> {"new", "registered", "cleared", "dead"}] /\ stage'[p] = "registered"
      /\ served' \in [Processes -> SUBSET Services] /\ served'[p] = served[p] \cup {s}
      /\ \A q \in Processes : q # p => stage'[q] = stage[q] /\ served'[q] = served[q]
  BY <1>1, <1>4 DEF RegTypes
<1>6. /\ todo' \in [Processes -> Seq(Ops \X Nodes)] /\ todo'[p] = plan
      /\ \A q \in Processes : q # p => todo'[q] = todo[q]
      /\ UNCHANGED <<faults, nodes, watches, events, blind, got, watcher, cache>>
      /\ ~Clearing(p) /\ RegUntouched' /\ RegFresh'
  <2>1. \A q \in Processes :
           /\ session'[q] # "closed" => session[q] # "closed"
           /\ discovers'[q] = 0 => discovers[q] = 0
           /\ stage'[q] \in {"new", "registered"} => stage[q] \in {"new", "registered"}
    BY <1>4, <1>5
  <2>2. plan \in Seq(Ops \X Nodes) /\ plan # <<>> /\ plan[1][1] \notin {"read", "store"}
    BY <1>3
  <2>3. todo[p] = <<>> /\ Begin(p, plan)
    BY <1>4
  <2>4. RegTypes /\ RegUntouched /\ RegFresh
    BY <1>1
  <2> QED
    BY ONLY <2>1, <2>2, <2>3, <2>4, p \in Processes, BeginFacts
<1>7. RegTypes'
  BY <1>1, <1>4, <1>5, <1>6 DEF RegTypes
<1>8. Listing(plan, p, s) /\ ~Clearing(p)'
  BY <1>3, <1>6 DEF Listing, CreateOps, Clearing
<1>10. \A q \in Processes : q # p => (Clearing(q)' <=> Clearing(q)) /\ (Registering(q)' <=> Registering(q))
  BY <1>4, <1>5, <1>6 DEF Clearing, Registering, Busy
<1>9. RegCalls'
  <2>1. \A q \in Processes : q # p =>
           todo'[q] = todo[q] /\ stage'[q] = stage[q] /\ served'[q] = served[q]
    BY <1>5, <1>6
  <2>2. stage'[p] = "registered" /\ served'[p] # {}
    BY <1>5
  <2> QED
    BY <1>1, <1>4, <1>5, <1>6, <1>8, <1>10, <2>1, <2>2 DEF RegCalls
<1>11. \A t : (Listing(plan, p, t) => Len(plan) = 2) /\ ~Listing(todo[p], p, t)
  <2>1. Len(todo[p]) = 0
    BY <1>4
  <2> QED
    BY <1>3, <2>1 DEF Listing
<1>12. ~Founding(todo[p])
  BY <1>4 DEF Founding
<1>13. ASSUME "clearing" \notin faults
       PROVE  Root \in nodes
  <2>1. CASE stage[p] = "new"
    BY <1>1, <1>4, <1>12, <1>13, <2>1 DEF RegListed
  <2>2. CASE stage[p] = "registered"
    <3>1. PICK t \in served[p] : TRUE
      BY <1>1, <1>6, <2>2 DEF RegCalls
    <3>2. t \in Services
      BY <1>1 DEF RegTypes
    <3>3. AddressPath(t, p) \in nodes
      BY <1>1, <1>4, <1>6, <1>11, <1>13, <2>2 DEF RegListed
    <3>4. ServicePath(t) \in nodes
      BY <1>1, <3>2, <3>3, PathFacts DEF RegOwned
    <3> QED
      BY <1>1, <3>2, <3>4, PathFacts DEF RegOwned
  <2> QED
    BY <1>4, <2>1, <2>2
<1>14. RegListed'
  <2> SUFFICES ASSUME "clearing" \notin faults PROVE RegListed'
    BY <1>6 DEF RegListed
  <2>1. \A q \in Processes : ~Clearing(q) /\ ~Clearing(q)'
    BY <1>4, <1>8, <1>10 DEF Undisturbed
  <2>2. \A q \in Processes : q # p => todo'[q] = todo[q] /\ stage'[q] = stage[q] /\ served'[q] = served[q]
    BY <1>5, <1>6
  <2>3. stage[p] = "registered" => \A t \in served[p] : AddressPath(t, p) \in nodes
    BY <1>1, <1>4, <1>6, <1>11 DEF RegListed
  <2>4. stage[p] = "new" => served[p] = {}
    BY <1>1 DEF RegCalls
  <2>5. \A t \in served'[p] : AddressPath(t, p) \in nodes \/ Listing(plan, p, t)
    BY <1>4, <1>5, <1>8, <2>3, <2>4
  <2> QED
    BY <1>1, <1>4, <1>5, <1>6, <1>11, <1>13, <2>1, <2>2, <2>5 DEF RegListed
<1>15. \A q \in Processes : \A path : q # p => (Left(q, path)' <=> Left(q, path))
  BY <1>6 DEF Left
<1>16. RegOwned'
  BY <1>1, <1>4, <1>5, <1>6, <1>8, <1>10, <1>15 DEF RegOwned
<1>17. \A q \in Processes : \A t : Looks(q, t) => Looks(q, t)'
  <2>1. \A t : Looks(p, t) => Looks(p, t)'
    BY <1>5, <1>8 DEF Looks
  <2>2. ASSUME NEW q \in Processes, q # p, NEW t, Looks(q, t) PROVE Looks(q, t)'
    BY <1>5, <1>6, <1>10, <1>15, <2>2 DEF Looks
  <2> QED
    BY <2>1, <2>2
<1>18. RegLeft'
  BY <1>1, <1>4, <1>6, <1>17 DEF RegLeft
<1> QED
  BY <1>6, <1>7, <1>9, <1>14, <1>16, <1>18 DEF RegParts

\* A process that ends has taken its addresses away, or died.
LEMMA EndKeeps ==
    ASSUME RegParts, NEW p \in Processes, session' = [session EXCEPT ![p] = "closed"],
           NEW end \in {"cleared", "dead"}, stage' = [stage EXCEPT ![p] = end],
           stage[p] = "registered", end = "dead" \/ (Clearing(p) /\ \A path : ~Left(p, path)),
           watches' = {w \in watches : w[1] # p}, events' = [events EXCEPT ![p] = <<>>],
           watcher' = [watcher EXCEPT ![p] = {}], todo' = [todo EXCEPT ![p] = <<>>],
           UNCHANGED <<nodes, got, cache, served, blind, discovers>>,
           \A fault \in {"clearing", "preempt"} : fault \in faults' <=> fault \in faults
    PROVE  RegParts'
<1>1. RegTypes /\ RegCalls /\ RegListed /\ RegOwned /\ RegUntouched /\ RegLeft /\ RegFresh
  BY DEF RegParts
<1>2. /\ nodes' = nodes /\ got' = got /\ cache' = cache /\ served' = served /\ blind' = blind
      /\ discovers' = discovers
  OBVIOUS
<1>3. /\ session' \in [Processes -> {"new", "waiting", "open", "closed"}]
      /\ stage' \in [Processes -> {"new", "registered", "cleared", "dead"}]
      /\ todo' \in [Processes -> Seq(Ops \X Nodes)]
      /\ session'[p] = "closed" /\ stage'[p] = end /\ todo'[p] = <<>>
      /\ \A q \in Processes : q # p => session'[q] = session[q] /\ stage'[q] = stage[q] /\ todo'[q] = todo[q]
  BY <1>1 DEF RegTypes
<1>4. /\ events' \in [Processes -> Seq(Paths)] /\ watcher' \in [Processes -> Reads]
      /\ \A q \in Processes : q # p => events'[q] = events[q] /\ watcher'[q] = watcher[q]
  <2>1. {} \in Reads /\ <<>> \in Seq(Paths)
    BY DEF Reads
  <2> QED
    BY <1>1, <2>1 DEF RegTypes
<1>5. \A q \in Processes : \A path : q # p => (<<q, path>> \in watches' <=> <<q, path>> \in watches)
  OBVIOUS
<1>6. RegTypes'
  <2>1. watches' \subseteq Processes \X Paths
    BY <1>1 DEF RegTypes
  <2> QED
    BY <1>1, <1>2, <1>3, <1>4, <2>1 DEF RegTypes
<1>7. \A q \in Processes : q # p =>
         /\ (Clearing(q)' <=> Clearing(q)) /\ (Registering(q)' <=> Registering(q))
         /\ \A path : Left(q, path)' <=> Left(q, path)
  BY <1>3 DEF Clearing, Registering, Busy, Left
<1>8. ~Clearing(p)' /\ ~Registering(p)'
  BY <1>3 DEF Clearing, Registering, Busy
<1>9. RegCalls'
  BY <1>1, <1>2, <1>3, <1>7 DEF RegCalls
<1>10. ~Founding(<<>>) /\ \A q, s : ~Listing(<<>>, q, s)
  BY DEF Founding, Listing
<1>11. RegListed'
  <2> SUFFICES ASSUME "clearing" \notin faults PROVE RegListed'
    BY DEF RegListed
  <2>1. \A q, r \in Processes : ~(Clearing(q)' /\ Registering(r)')
    BY <1>1, <1>7, <1>8 DEF RegListed
  <2> QED
    BY <1>1, <1>2, <1>3, <1>7, <1>8, <1>10, <2>1 DEF RegListed
<1>12. RegOwned'
  <2>1. ASSUME NEW q \in Processes, NEW s \in Services, AddressPath(s, q) \in nodes
        PROVE  s \in served[q] /\ stage'[q] \in {"registered", "dead"} /\ (Clearing(q)' => Left(q, AddressPath(s, q))')
    <3>1. s \in served[q] /\ stage[q] \in {"registered", "dead"} /\ (Clearing(q) => Left(q, AddressPath(s, q)))
      BY <1>1, <2>1 DEF RegOwned
    <3>2. CASE q = p
      BY <1>3, <1>8, <3>1, <3>2
    <3>3. CASE q # p
      BY <1>3, <1>7, <3>1, <3>3
    <3> QED
      BY <3>2, <3>3
  <2> QED
    BY <1>1, <1>2, <2>1 DEF RegOwned
<1>13. RegUntouched'
  <2>1. \A q \in Processes : \A path : q # p => (Unasked(q, path)' <=> Unasked(q, path))
    BY <1>2, <1>3, <1>7 DEF Unasked
  <2>2. \A path : ~Unasked(p, path)'
    BY <1>3 DEF Unasked
  <2> QED
    BY <1>1, <1>2, <1>4, <1>5, <2>1, <2>2, UntouchedKept
<1>14. ASSUME NEW q \in Processes, NEW s, Looks(q, s) PROVE Looks(q, s)'
  <2>1. CASE q = p
    BY <1>2, <1>3, <1>8, <1>14, <2>1 DEF Looks
  <2>2. CASE q # p
    BY <1>2, <1>3, <1>7, <1>14, <2>2 DEF Looks
  <2> QED
    BY <2>1, <2>2
<1>15. RegLeft'
  BY <1>1, <1>2, <1>14 DEF RegLeft
<1>16. RegFresh'
  <2> SUFFICES ASSUME "preempt" \notin faults, NEW q \in Processes, NEW path \in Paths, session'[q] # "closed"
               PROVE  FreshIn(q, path)'
    BY DEF RegFresh
  <2>1. q # p /\ session[q] # "closed"
    BY <1>3
  <2>2. FreshIn(q, path)
    BY <1>1, <2>1 DEF RegFresh
  <2>3. Children(path)' = Children(path)
    BY <1>2 DEF Children, Under
  <2>4. (Reading(q, path)' <=> Reading(q, path)) /\ (Storing(q, path)' <=> Storing(q, path))
    BY <1>3, <2>1 DEF Reading, Storing, Busy
  <2> QED
    BY <1>2, <1>4, <1>5, <2>1, <2>2, <2>3, <2>4 DEF FreshIn
<1> QED
  BY <1>6, <1>9, <1>11, <1>12, <1>13, <1>15, <1>16 DEF RegParts

\* Stop is the last step of Clear.
LEMMA KeepsStop ==
    ASSUME RegParts, NEW p \in Processes, Stop(p)
    PROVE  RegParts'
<1>1. RegTypes /\ RegCalls /\ Busy(p)
  BY DEF RegParts, Stop, Next1
<1>2. todo[p][1][1] = "stop"
  BY <1>1, CallKinds DEF Stop, Next1
<1>3. Clearing(p) /\ stage[p] = "registered" /\ Len(todo[p]) = 1 /\ DOMAIN todo[p] = {1}
  <2>1. Clearing(p) /\ stage[p] = "registered" /\ Len(todo[p]) = 1 /\ todo[p] \in Seq(Ops \X Nodes)
    BY <1>1, <1>2, CallKinds DEF CreateOps, VisitOps
  <2>2. DOMAIN todo[p] = 1 .. 1
    BY <2>1
  <2> QED
    BY <2>1, <2>2
<1>4. \A path : ~Left(p, path)
  BY <1>2, <1>3 DEF Left
<1>5. todo' = [todo EXCEPT ![p] = <<>>]
  <2>1. Tail(todo[p]) = <<>>
    BY <1>1, <1>3, CallKinds
  <2> QED
    BY <2>1 DEF Stop, Done
<1>6. /\ session' = [session EXCEPT ![p] = "closed"] /\ stage' = [stage EXCEPT ![p] = "cleared"]
      /\ watches' = {w \in watches : w[1] # p} /\ events' = [events EXCEPT ![p] = <<>>]
      /\ watcher' = [watcher EXCEPT ![p] = {}] /\ UNCHANGED <<nodes, got, cache, served, blind, discovers>>
      /\ faults' = faults
  BY DEF Stop
<1>7. "cleared" \in {"cleared", "dead"}
  OBVIOUS
<1> QED
  BY <1>3, <1>4, <1>5, <1>6, <1>7, EndKeeps

\* A process that dies leaves its nodes.
LEMMA KeepsDie ==
    ASSUME RegParts, NEW p \in Processes, Die(p)
    PROVE  RegParts'
<1>1. /\ session' = [session EXCEPT ![p] = "closed"] /\ stage' = [stage EXCEPT ![p] = "dead"]
      /\ stage[p] = "registered"
      /\ watches' = {w \in watches : w[1] # p} /\ events' = [events EXCEPT ![p] = <<>>]
      /\ watcher' = [watcher EXCEPT ![p] = {}] /\ todo' = [todo EXCEPT ![p] = <<>>]
      /\ UNCHANGED <<nodes, got, cache, served, blind, discovers>>
  BY DEF Die
<1>2. \A fault \in {"clearing", "preempt"} : fault \in faults' <=> fault \in faults
  BY DEF Die
<1>3. "dead" \in {"cleared", "dead"}
  OBVIOUS
<1> QED
  BY <1>1, <1>2, <1>3, EndKeeps

\* What Clear sets out to do: each address, each service's node, the root, stop.
ClearSteps(list, p) ==
    [i \in DOMAIN list |-> <<"delete", AddressPath(list[i], p)>>]
    \o [i \in DOMAIN list |-> <<"children", ServicePath(list[i])>>]
    \o <<<<"children", Root>>, <<"stop", Root>>>>

\* What stands where in it.
Stands(t, list, p, n) ==
    /\ t \in Seq(Ops \X Nodes) /\ Len(t) = (n + n) + 2
    /\ \A i \in 1 .. n : /\ t[i] = <<"delete", AddressPath(list[i], p)>>
                       /\ t[i + n] = <<"children", ServicePath(list[i])>>
    /\ t[(n + n) + 1] = <<"children", Root>> /\ t[(n + n) + 2] = <<"stop", Root>>
\* Each address, then each service's node, then the root and stop.
LEMMA ClearStepsAt ==
    ASSUME NEW p \in Processes, NEW list \in Seq(Services), NEW n \in Nat, n = Len(list),
           NEW t, t = ClearSteps(list, p)
    PROVE  Stands(t, list, p, n)
<1>14. PICK S : S = Ops \X Nodes
  OBVIOUS
<1>15. PICK d, c :
         /\ d = [i \in 1 .. n |-> <<"delete", AddressPath(list[i], p)>>]
         /\ c = [i \in 1 .. n |-> <<"children", ServicePath(list[i])>>]
  OBVIOUS
<1>16. PICK x, y : x = <<"children", Root>> /\ y = <<"stop", Root>>
  OBVIOUS
<1>17. \A i \in 1 .. n : AddressPath(list[i], p) \in Nodes /\ ServicePath(list[i]) \in Nodes
  BY PathFacts DEF Nodes
<1>18. Root \in Nodes
  BY PathFacts DEF Nodes
<1>19. x \in S /\ y \in S
  BY <1>14, <1>16, <1>18 DEF Ops
<1>20. d \in [1 .. n -> S] /\ c \in [1 .. n -> S]
  BY <1>14, <1>15, <1>17 DEF Ops
<1>21. t = d \o c \o <<x, y>>
  <2>1. DOMAIN list = 1 .. n
    OBVIOUS
  <2> QED
    BY <1>15, <1>16, <2>1 DEF ClearSteps
<1>10. d \in Seq(S) /\ c \in Seq(S) /\ Len(d) = n /\ Len(c) = n
  BY <1>20
<1>12. PICK e : e = <<x, y>>
  OBVIOUS
<1>13. e \in Seq(S)
  BY <1>12, <1>19
<1>11. e = <<x, y>> /\ e \in Seq(S) /\ Len(e) = 2 /\ e[1] = x /\ e[2] = y
  BY <1>12, <1>13
<1>1. PICK u : u = d \o c
  OBVIOUS
<1>2. PICK i \in Nat, j \in Nat : i = Len(d) /\ j = Len(c)
  BY <1>10
<1>3. u \in Seq(S) /\ Len(u) = i + j /\ \A l \in 1 .. i + j : u[l] = IF l <= i THEN d[l] ELSE c[l - i]
  BY <1>1, <1>2, <1>10, ConcatProperties
<1>4. t = u \o e
  BY <1>1, <1>11, <1>21
<1>5. PICK m \in Nat, k \in Nat : m = Len(u) /\ k = Len(e)
  BY <1>3, <1>11
<1>6. t \in Seq(S) /\ Len(t) = m + k /\ \A l \in 1 .. m + k : t[l] = IF l <= m THEN u[l] ELSE e[l - m]
  <2>1. u \in Seq(S) /\ e \in Seq(S)
    BY <1>3, <1>11
  <2> QED
    BY ONLY <1>4, <1>5, <2>1, m \in Nat, k \in Nat, ConcatProperties
<1>9. i = n /\ j = n /\ m = n + n /\ k = 2
  BY <1>2, <1>3, <1>5, <1>10, <1>11
<1>7. ASSUME NEW l \in 1 .. n PROVE t[l] = d[l] /\ t[l + n] = c[l]
  <2>1. /\ l \in 1 .. m + k /\ l <= m /\ l \in 1 .. i + j /\ l <= i
        /\ l + n \in 1 .. m + k /\ l + n <= m /\ l + n \in 1 .. i + j /\ ~(l + n <= i) /\ (l + n) - i = l
    BY <1>9
  <2>2. t[l] = u[l] /\ t[l + n] = u[l + n]
    BY <1>6, <2>1
  <2> QED
    BY <1>3, <2>1, <2>2
<1>8. t[m + 1] = x /\ t[m + 2] = y
  <2>1. /\ m + 1 \in 1 .. m + k /\ ~(m + 1 <= m) /\ (m + 1) - m = 1
        /\ m + 2 \in 1 .. m + k /\ ~(m + 2 <= m) /\ (m + 2) - m = 2
    BY <1>9
  <2> QED
    BY <1>6, <1>11, <2>1
<1> QED
  BY <1>6, <1>7, <1>8, <1>9, <1>14, <1>15, <1>16 DEF Stands

\* And its list is one that Ending describes.
LEMMA ClearStepsEnd ==
    ASSUME NEW p \in Processes, NEW S \in SUBSET Services
    PROVE  LET plan == ClearSteps(SetToSeq(S), p) IN
           /\ plan \in Seq(Ops \X Nodes) /\ plan # <<>> /\ plan[1][1] \in {"delete", "children"}
           /\ Ending(plan, p) /\ Last(plan) = <<"stop", Root>>
           /\ \A s \in S : \A path \in {AddressPath(s, p), ServicePath(s)} :
                 \E i \in DOMAIN plan : plan[i][2] = path /\ plan[i][1] # "stop"
           /\ Head(plan)[1] \in {"delete", "children"}
<1>1. IsFiniteSet(S)
  BY RegistryAssumption, FS_Subset DEF RegistryAssumption
<1>29. PICK list : list = SetToSeq(S)
  OBVIOUS
<1>30. PICK n \in Nat : n = Cardinality(S)
  BY <1>1, SetToSeqLists
<1>31. /\ list \in Seq(S) /\ Len(list) = n /\ IsInjective(list) /\ \A x \in S : \E i \in 1 .. n : list[i] = x
  BY <1>1, <1>29, <1>30, SetToSeqLists
<1>32. DOMAIN list = 1 .. n
  BY <1>31
<1>2. /\ list = SetToSeq(S) /\ list \in Seq(S) /\ Len(list) = n
      /\ (\A i, j \in 1 .. n : list[i] = list[j] => i = j) /\ \A x \in S : \E i \in 1 .. n : list[i] = x
  BY <1>29, <1>31, <1>32 DEF IsInjective
<1>3. DOMAIN list = 1 .. n /\ \A i \in 1 .. n : list[i] \in S
  BY <1>2
<1>6. \A i \in 1 .. n : AddressPath(list[i], p) \in Nodes \cap Addresses(p) /\ ServicePath(list[i]) \in Paths
  BY <1>3, PathFacts DEF Nodes, Addresses
<1>7. Root \in Paths /\ Paths \subseteq Nodes
  BY PathFacts DEF Nodes
<1>13. PICK t : t = ClearSteps(SetToSeq(S), p)
  OBVIOUS
<1>8. list \in Seq(Services)
  BY <1>2, <1>3
<1>9. Stands(t, list, p, n)
  <2>1. t = ClearSteps(list, p) /\ n = Len(list)
    BY <1>2, <1>13
  <2> QED
    BY ONLY <1>8, <2>1, n \in Nat, p \in Processes, ClearStepsAt
<1>12. /\ t \in Seq(Ops \X Nodes) /\ Len(t) = (n + n) + 2
       /\ \A i \in 1 .. n : /\ t[i] = <<"delete", AddressPath(list[i], p)>>
                          /\ t[i + n] = <<"children", ServicePath(list[i])>>
       /\ t[(n + n) + 1] = <<"children", Root>> /\ t[(n + n) + 2] = <<"stop", Root>>
  BY <1>9 DEF Stands
<1>14. \A i \in 1 .. n : t[i] = <<"delete", AddressPath(list[i], p)>>
  BY <1>12
<1>15. \A i \in 1 .. n : t[i + n] = <<"children", ServicePath(list[i])>>
  BY <1>12
<1>16. t[(n + n) + 1] = <<"children", Root>> /\ t[(n + n) + 2] = <<"stop", Root>>
  BY <1>12
<1>17. \A i \in 1 .. (n + n) + 1 :
          \/ i \in 1 .. n
          \/ i > n /\ i - n \in 1 .. n /\ (i - n) + n = i
          \/ i = (n + n) + 1
  OBVIOUS
<1>18. \A i \in 1 .. (n + n) + 1 :
          \/ i \in 1 .. n /\ t[i] = <<"delete", AddressPath(list[i], p)>>
          \/ i > n /\ i - n \in 1 .. n /\ t[i] = <<"children", ServicePath(list[i - n])>>
          \/ i > n /\ i = (n + n) + 1 /\ t[i] = <<"children", Root>>
  <2> TAKE i \in 1 .. (n + n) + 1
  <2>1. CASE i \in 1 .. n
    BY <1>14, <2>1
  <2>2. CASE i > n /\ i - n \in 1 .. n /\ (i - n) + n = i
    <3>1. PICK k \in 1 .. n : k = i - n /\ k + n = i
      BY <2>2
    <3>2. t[k + n] = <<"children", ServicePath(list[k])>>
      BY <1>15, <3>1
    <3> QED
      BY <2>2, <3>1, <3>2
  <2>3. CASE i = (n + n) + 1
    BY <1>16, <2>3
  <2> QED
    BY <1>17, <2>1, <2>2, <2>3
<1>19. \A i \in 1 .. (n + n) + 1 : t[i] \in ({"delete"} \X Addresses(p)) \cup ({"children"} \X Paths)
  <2> TAKE i \in 1 .. (n + n) + 1
  <2>1. CASE i \in 1 .. n
    <3>1. PICK path : path = AddressPath(list[i], p)
      OBVIOUS
    <3>2. path \in Addresses(p) /\ t[i] = <<"delete", path>>
      BY <1>6, <1>14, <2>1, <3>1
    <3> QED
      BY <3>2
  <2>2. CASE i \notin 1 .. n
    <3>1. t[i][1] = "children" /\ t[i][2] \in Paths /\ t[i] = <<t[i][1], t[i][2]>>
      BY <1>6, <1>7, <1>18, <2>2
    <3> QED
      BY <3>1
  <2> QED
    BY <2>1, <2>2
<1>20. \A i \in 1 .. (n + n) + 1 : t[i][2] \notin Paths <=> i \in 1 .. n
  BY <1>6, <1>7, <1>18, PathFacts
<1>21. \A i, j \in 1 .. (n + n) + 1 : t[i][2] = t[j][2] => i = j
  <2> SUFFICES ASSUME NEW i \in 1 .. (n + n) + 1, NEW j \in 1 .. (n + n) + 1, t[i][2] = t[j][2]
               PROVE  i = j
    OBVIOUS
  <2>1. CASE i \in 1 .. n
    <3>1. j \in 1 .. n
      BY <1>20, <2>1
    <3>2. AddressPath(list[i], p) = AddressPath(list[j], p)
      BY <1>14, <2>1, <3>1
    <3>3. list[i] = list[j]
      BY <3>2, PathFacts
    <3> QED
      BY <1>2, <2>1, <3>1, <3>3
  <2>2. CASE i \notin 1 .. n
    <3>1. j \notin 1 .. n
      BY <1>20, <2>2
    <3>2. CASE i = (n + n) + 1
      <4>1. j - n \in 1 .. n => ServicePath(list[j - n]) # Root
        BY <1>3, PathFacts
      <4> QED
        BY <1>16, <1>18, <3>1, <3>2, <4>1
    <3>3. CASE i # (n + n) + 1
      <4>1. i - n \in 1 .. n /\ t[i] = <<"children", ServicePath(list[i - n])>>
        BY <1>18, <2>2, <3>3
      <4>2. ServicePath(list[i - n]) # Root
        BY <1>3, <4>1, PathFacts
      <4>3. j - n \in 1 .. n /\ t[j] = <<"children", ServicePath(list[j - n])>>
        BY <1>18, <3>1, <4>1, <4>2
      <4>4. list[i - n] = list[j - n]
        BY <4>1, <4>3, PathFacts
      <4>5. i - n = j - n
        BY <1>2, <4>1, <4>3, <4>4
      <4> QED
        BY <4>5
    <3> QED
      BY <3>2, <3>3
  <2> QED
    BY <2>1, <2>2
<1>22. \A i, j \in 1 .. (n + n) + 1 : i < j /\ t[j][2] \notin Paths => t[i][2] \notin Paths
  BY <1>20
<1>23. ASSUME NEW s \in Services, NEW i \in 1 .. (n + n) + 1, t[i][2] = AddressPath(s, p)
       PROVE  \E j \in 1 .. (n + n) + 1 : t[j][2] = ServicePath(s)
  <2>1. i \in 1 .. n
    BY <1>20, <1>23, PathFacts
  <2>2. list[i] = s
    BY <1>14, <1>23, <2>1, PathFacts
  <2>3. i + n \in 1 .. (n + n) + 1 /\ t[i + n][2] = ServicePath(s)
    BY <1>15, <2>1, <2>2
  <2> QED
    BY <2>3
<1>24. Len(t) - 1 = (n + n) + 1 /\ t[Len(t)] = <<"stop", Root>> /\ t # <<>> /\ DOMAIN t = 1 .. (n + n) + 2
  <2>1. PICK m \in Nat : m = (n + n) + 2
    OBVIOUS
  <2>2. m - 1 = (n + n) + 1
    BY <2>1
  <2> QED
    BY <1>12, <1>16, <2>1, <2>2
<1>25. Ending(t, p)
  BY <1>19, <1>21, <1>22, <1>23, <1>24 DEF Ending
<1>26. ASSUME NEW s \in S, NEW path \in {AddressPath(s, p), ServicePath(s)}
       PROVE  \E i \in DOMAIN t : t[i][2] = path /\ t[i][1] # "stop"
  <2>1. PICK i \in 1 .. n : list[i] = s
    BY <1>2
  <2>2. i \in 1 .. (n + n) + 2 /\ i + n \in 1 .. (n + n) + 2
    OBVIOUS
  <2>3. t[i] = <<"delete", AddressPath(s, p)>> /\ t[i + n] = <<"children", ServicePath(s)>>
    BY <1>14, <1>15, <2>1
  <2> QED
    BY <1>24, <1>26, <2>2, <2>3
<1>27. t[1][1] \in {"delete", "children"} /\ Head(t) = t[1] /\ Last(t) = t[Len(t)]
  <2>1. CASE n = 0
    <3>1. 1 = (n + n) + 1
      BY <2>1
    <3> QED
      BY <1>12, <1>24, <3>1 DEF Last
  <2>2. CASE n # 0
    <3>1. 1 \in 1 .. n
      BY <2>2
    <3> QED
      BY <1>12, <1>14, <1>24, <3>1 DEF Last
  <2> QED
    BY <2>1, <2>2
<1> QED
  BY <1>12, <1>13, <1>24, <1>25, <1>26, <1>27

\* Clear begins when nobody registers, and names every address of the process.
LEMMA KeepsClear ==
    ASSUME RegParts, NEW p \in Processes, Clear(p)
    PROVE  RegParts'
<1>1. RegTypes /\ RegCalls /\ RegListed /\ RegOwned /\ RegUntouched /\ RegLeft /\ RegFresh
  BY DEF RegParts
<1>2. PICK plan : plan = ClearSteps(SetToSeq(served[p]), p)
  OBVIOUS
<1>3. /\ session[p] = "open" /\ todo[p] = <<>> /\ stage[p] \in {"new", "registered"} /\ Begin(p, plan)
      /\ "clearing" \in faults \/ \A q \in Processes \ {p} : ~Registering(q)
      /\ session' = session /\ stage' = [stage EXCEPT ![p] = "registered"] /\ served' = served /\ discovers' = discovers
  BY <1>2 DEF Clear, Idle, Busy, ClearSteps
<1>4. /\ served[p] \in SUBSET Services /\ (stage[p] = "new" => served[p] = {})
      /\ stage' \in [Processes -> {"new", "registered", "cleared", "dead"}] /\ stage'[p] = "registered"
      /\ \A q \in Processes : q # p => stage'[q] = stage[q]
  BY <1>1, <1>3 DEF RegTypes, RegCalls
<1>5. /\ plan \in Seq(Ops \X Nodes) /\ plan # <<>> /\ plan[1][1] \in {"delete", "children"}
      /\ Ending(plan, p) /\ Last(plan) = <<"stop", Root>> /\ Head(plan)[1] \in {"delete", "children"}
      /\ \A s \in served[p] : \A path \in {AddressPath(s, p), ServicePath(s)} :
            \E i \in DOMAIN plan : plan[i][2] = path /\ plan[i][1] # "stop"
  BY <1>2, <1>4, ClearStepsEnd
<1>6. /\ todo' \in [Processes -> Seq(Ops \X Nodes)] /\ todo'[p] = plan
      /\ \A q \in Processes : q # p => todo'[q] = todo[q]
      /\ UNCHANGED <<faults, nodes, watches, events, blind, got, watcher, cache>>
      /\ ~Clearing(p) /\ RegUntouched' /\ RegFresh'
  <2>1. \A q \in Processes :
           /\ session'[q] # "closed" => session[q] # "closed"
           /\ discovers'[q] = 0 => discovers[q] = 0
           /\ stage'[q] \in {"new", "registered"} => stage[q] \in {"new", "registered"}
    BY <1>3, <1>4
  <2>2. plan \in Seq(Ops \X Nodes) /\ plan # <<>> /\ plan[1][1] \notin {"read", "store"}
    BY <1>5
  <2>3. todo[p] = <<>> /\ Begin(p, plan)
    BY <1>3
  <2>4. RegTypes /\ RegUntouched /\ RegFresh
    BY <1>1
  <2> QED
    BY ONLY <2>1, <2>2, <2>3, <2>4, p \in Processes, BeginFacts
<1>7. RegTypes'
  BY <1>1, <1>3, <1>4, <1>6 DEF RegTypes
<1>9. Clearing(p)' /\ ~Registering(p)'
  BY <1>4, <1>5, <1>6 DEF Clearing, Registering, Busy
<1>10. \A q \in Processes : q # p =>
          /\ (Clearing(q)' <=> Clearing(q)) /\ (Registering(q)' <=> Registering(q))
          /\ \A path : Left(q, path)' <=> Left(q, path)
  BY <1>3, <1>4, <1>6 DEF Clearing, Registering, Busy, Left
<1>8. RegCalls'
  <2>1. \A q \in Processes : q # p => todo'[q] = todo[q]
    BY <1>6
  <2> QED
    BY <1>1, <1>3, <1>4, <1>5, <1>6, <1>9, <1>10, <2>1 DEF RegCalls
<1>11. \A s : ~Listing(plan, p, s)
  BY <1>7, <1>6, <1>9, <1>5 DEF Listing, CreateOps, Last
<1>12. RegListed'
  <2> SUFFICES ASSUME "clearing" \notin faults PROVE RegListed'
    BY <1>6 DEF RegListed
  <2>1. \A q \in Processes : ~Registering(q)'
    BY <1>3, <1>9, <1>10
  <2>2. \A q \in Processes : q # p => todo'[q] = todo[q]
    BY <1>6
  <2> QED
    BY <1>1, <1>3, <1>4, <1>6, <1>9, <1>10, <1>11, <2>1, <2>2 DEF RegListed
<1>13. \A s \in served[p] : Left(p, AddressPath(s, p))' /\ Left(p, ServicePath(s))'
  BY <1>5, <1>6 DEF Left
<1>14. RegOwned'
  <2>1. ASSUME NEW q \in Processes, NEW s \in Services, AddressPath(s, q) \in nodes
        PROVE  s \in served[q] /\ stage[q] \in {"registered", "dead"} /\ (Clearing(q)' => Left(q, AddressPath(s, q))')
    <3>1. s \in served[q] /\ stage[q] \in {"registered", "dead"} /\ (Clearing(q) => Left(q, AddressPath(s, q)))
      BY <1>1, <2>1 DEF RegOwned
    <3>2. CASE q = p
      BY <1>13, <3>1, <3>2
    <3>3. CASE q # p
      BY <1>10, <3>1, <3>3
    <3> QED
      BY <3>2, <3>3
  <2>2. \A q \in Processes : stage[q] \in {"registered", "dead"} => stage'[q] \in {"registered", "dead"}
    BY <1>4
  <2> QED
    BY <1>1, <1>3, <1>6, <2>1, <2>2 DEF RegOwned
<1>15. ASSUME NEW q \in Processes, NEW s, Looks(q, s) PROVE Looks(q, s)'
  <2>1. CASE q = p
    <3>1. Head(todo'[p])[1] \in {"delete", "children"} /\ s \in served[p]
      BY <1>5, <1>6, <1>15, <2>1 DEF Looks
    <3> QED
      BY <1>3, <1>4, <1>13, <1>15, <2>1, <3>1 DEF Looks
  <2>2. CASE q # p
    BY <1>3, <1>4, <1>6, <1>10, <1>15, <2>2 DEF Looks
  <2> QED
    BY <2>1, <2>2
<1>16. RegLeft'
  BY <1>1, <1>3, <1>6, <1>15 DEF RegLeft
<1> QED
  BY <1>6, <1>7, <1>8, <1>12, <1>14, <1>16 DEF RegParts

----------------------------------------------------------------------------
(* Registry: the theorem.                                                  *)

\* The invariant holds when nothing has begun.
LEMMA RegInitially == RegistryInit => RegInv
<1> SUFFICES ASSUME RegistryInit PROVE RegParts
  BY DEF RegInv, RegParts
<1>1. /\ nodes = {} /\ watches = {} /\ events = [p \in Processes |-> <<>>]
      /\ session = [p \in Processes |-> "new"] /\ todo = [p \in Processes |-> <<>>]
      /\ got = [p \in Processes |-> {}] /\ watcher = [p \in Processes |-> {}]
      /\ cache = [p \in Processes |-> [path \in Paths |-> {}]] /\ stage = [p \in Processes |-> "new"]
      /\ served = [p \in Processes |-> {}] /\ blind = [p \in Processes |-> {}]
      /\ discovers = [p \in Processes |-> 0]
  BY DEF RegistryInit
<1>2. {} \in Reads /\ {} \in ChildLists
  BY DEF Reads, ChildLists
<1>3. RegTypes
  BY <1>1, <1>2 DEF RegTypes
<1>4. RegCalls
  BY <1>1 DEF RegCalls
<1>5. \A p \in Processes : ~Clearing(p) /\ ~Registering(p) /\ todo[p] = <<>>
  BY <1>1 DEF Clearing, Registering, Busy
<1>6. \A p, s : ~Listing(<<>>, p, s)
  BY DEF Listing
<1>7. RegListed
  BY <1>1, <1>5, <1>6 DEF RegListed
<1>8. RegOwned
  BY <1>1 DEF RegOwned
<1>9. RegUntouched
  <2>1. \A p \in Processes : Range(events[p]) = {}
    BY <1>1 DEF Range
  <2> QED
    BY <1>1, <2>1 DEF RegUntouched, Untouched
<1>10. RegLeft
  BY <1>1 DEF RegLeft
<1>11. RegFresh
  <2>1. \A p \in Processes : Range(events[p]) = {}
    BY <1>1 DEF Range
  <2> QED
    BY <1>1, <1>5, <2>1 DEF RegFresh, FreshIn, Storing, Reading, Busy
<1> QED
  BY <1>3, <1>4, <1>7, <1>8, <1>9, <1>10, <1>11 DEF RegParts

\* Every step keeps it, or ends what is claimed.
LEMMA RegStep == RegInv /\ [RegistryNext]_registryVars => RegInv'
<1> SUFFICES ASSUME RegInv, [RegistryNext]_registryVars, "expired" \notin faults' PROVE RegParts'
  BY DEF RegInv, RegParts
<1>1. CASE UNCHANGED registryVars
  <2>1. /\ faults' = faults /\ nodes' = nodes /\ watches' = watches /\ events' = events /\ session' = session
        /\ todo' = todo /\ got' = got /\ watcher' = watcher /\ cache' = cache /\ stage' = stage
        /\ served' = served /\ blind' = blind /\ discovers' = discovers
    BY <1>1 DEF registryVars
  <2>2. RegParts
    BY <2>1 DEF RegInv, RegParts
  <2>3. RegTypes'
    BY <2>1, <2>2 DEF RegParts, RegTypes
  <2>4. RegCalls' /\ RegListed' /\ RegOwned' /\ RegLeft'
    BY <2>1, <2>2, CallsKept DEF RegParts
  <2>5. \A p \in Processes : \A path : /\ (Unasked(p, path)' <=> Unasked(p, path))
                                        /\ (Reading(p, path)' <=> Reading(p, path))
                                        /\ (Storing(p, path)' <=> Storing(p, path))
    BY <2>1 DEF Unasked, Reading, Storing, Clearing, Busy
  <2>6. RegUntouched'
    BY <2>1, <2>2, <2>5, UntouchedKept DEF RegParts
  <2>7. RegFresh'
    <3>1. \A path : Children(path)' = Children(path)
      BY <2>1 DEF Children, Under
    <3>2. ASSUME NEW p \in Processes, NEW path \in Paths, FreshIn(p, path) PROVE FreshIn(p, path)'
      BY <2>1, <2>5, <3>1, <3>2 DEF FreshIn
    <3> QED
      BY <2>1, <2>2, <3>2 DEF RegParts, RegFresh
  <2> QED
    BY <2>3, <2>4, <2>6, <2>7 DEF RegParts
<1>2. ASSUME NEW p \in Processes,
             \/ Call(p) \/ Watch(p) \/ Start(p) \/ Clear(p) \/ Expire(p) \/ Die(p)
             \/ \E s \in Services : Register(p, s) \/ Discover(p, s)
      PROVE  RegParts'
  <2>1. ~Expire(p)
    BY DEF Expire
  <2>2. RegParts
    <3>1. "expired" \notin faults
      BY <1>2 DEF Call, LookForCreate, Make, LookForDelete, Drop, GetChildrenNodes, ReadChildren, Store, Prune,
                  Stop, Rest, Watch, ServiceWatcher, StoreAgain, Connected, Restart, Start, Clear, Begin, Die,
                  Register, Discover, Expire
    <3> QED
      BY <3>1 DEF RegInv, RegParts
  <2>3. ~Restart(p)
    BY <2>2 DEF RegParts, RegTypes, Restart
  <2>4. CASE Call(p)
    BY <2>2, <2>4, KeepsLookForCreate, KeepsMake, KeepsLookForDelete, KeepsDrop, KeepsGetChildrenNodes,
       KeepsReadChildren, KeepsStore, KeepsPrune, KeepsStop DEF Call
  <2>5. CASE Watch(p)
    BY <2>2, <2>3, <2>5, KeepsServiceWatcher, KeepsStoreAgain, KeepsConnected DEF Watch
  <2>6. CASE Start(p) \/ Clear(p) \/ Die(p) \/ \E s \in Services : Register(p, s) \/ Discover(p, s)
    BY <2>2, <2>6, KeepsStart, KeepsClear, KeepsDie, KeepsRegister, KeepsDiscover
  <2> QED
    BY <1>2, <2>1, <2>4, <2>5, <2>6
<1> QED
  BY <1>1, <1>2 DEF RegistryNext

\* It gives the property.
LEMMA RegInvSound == RegInv => RegistrySound
<1> SUFFICES ASSUME RegInv PROVE RegistrySound
  OBVIOUS
<1>1. "expired" \notin faults => RegParts
  BY DEF RegInv, RegParts
<1>2. CacheFresh
  <2> SUFFICES ASSUME "expired" \notin faults, "preempt" \notin faults, NEW p \in Processes, Idle(p),
                      events[p] = <<>>, watcher[p] = {}, NEW path \in Paths \ blind[p]
               PROVE  cache[p][path] \in {{}, {Children(path)}}
    BY DEF CacheFresh
  <2>1. FreshIn(p, path) /\ Range(events[p]) = {}
    BY <1>1 DEF RegParts, RegFresh, Idle, Range
  <2> QED
    BY <2>1 DEF FreshIn
<1>3. RegisteredIsListed
  <2> SUFFICES ASSUME "expired" \notin faults, "clearing" \notin faults, NEW p \in Processes, Idle(p),
                      NEW s \in served[p]
               PROVE  AddressPath(s, p) \in nodes
    BY DEF RegisteredIsListed
  <2>1. session[p] = "open" /\ todo[p] = <<>>
    BY DEF Idle, Busy
  <2>2. stage[p] = "registered"
    <3>1. stage[p] \in {"new", "registered", "cleared", "dead"}
      BY <1>1 DEF RegParts, RegTypes
    <3> QED
      BY <1>1, <2>1, <3>1 DEF RegParts, RegCalls
  <2>3. ~Listing(todo[p], p, s) /\ ~Clearing(p)
    BY <2>1 DEF Listing, Clearing, Busy
  <2> QED
    BY <1>1, <2>1, <2>2, <2>3 DEF RegParts, RegListed
<1>4. NothingLeft
  <2> SUFFICES ASSUME "expired" \notin faults,
                      \A p \in Processes : discovers[p] = 0 /\ stage[p] \in {"new", "cleared"},
                      NEW s \in Services, ServicePath(s) \in nodes
               PROVE  FALSE
    BY DEF NothingLeft
  <2>1. PICK p \in Processes : Looks(p, s)
    BY <1>1 DEF RegParts, RegLeft
  <2> QED
    BY <2>1 DEF Looks
<1> QED
  BY <1>2, <1>3, <1>4 DEF RegistrySound

\* The caches, the tree and what is left of it agree with what the processes did
\* (ZkServiceRegister and ZkClient, zk_service_register.cpp and zk_util.cpp).
THEOREM RegistrySoundHolds == RegistryInit /\ [][RegistryNext]_registryVars => []RegistrySound
<1>1. RegInv /\ [RegistryNext]_registryVars => RegInv'
  BY RegStep
<1> QED
  BY RegInitially, <1>1, RegInvSound, PTL

----------------------------------------------------------------------------
(* TcpServer, whatever the coroutines do between two steps of the main     *)
(* thread.                                                                 *)

\* The initial state has the declared types.
LEMMA TypeInit == Init => TypeOK
BY TcpServerAssumption DEF TcpServerAssumption, Init, TypeOK, NotClosing, CorState

\* Every step keeps the declared types, one case per action.
LEMMA TypeStep == TypeOK /\ [Next]_vars => TypeOK'
<1> SUFFICES ASSUME TypeOK, [Next]_vars PROVE TypeOK'
  OBVIOUS
<1> USE DEF TypeOK, CorState, NotClosing, kernelVars, objVars, slotVars
<1> USE TcpServerAssumption DEF TcpServerAssumption
<1>1. ASSUME NEW c \in Conns, NEW f \in Fds, Accept(c, f) PROVE TypeOK'
  <2>1. tasks' \in Seq(Conns)
    BY <1>1, AppendProperties DEF Accept
  <2> QED
    BY <1>1, <2>1 DEF Accept
<1>2. ASSUME Fresh PROVE TypeOK'
  <2>1. Head(tasks) \in Conns /\ Tail(tasks) \in Seq(Conns)
    BY <1>2, HeadTailProperties DEF Fresh
  <2> QED
    BY <1>2, <2>1 DEF Fresh
<1>3. ASSUME LoopFunc PROVE TypeOK'
  BY <1>3 DEF LoopFunc
<1>4. ASSUME NEW c \in Conns, ReleaseSlot(c) PROVE TypeOK'
  BY <1>4 DEF ReleaseSlot
<1>5. ASSUME SetHalfClosing PROVE TypeOK'
  BY <1>5 DEF SetHalfClosing
<1>6. ASSUME Shutdown PROVE TypeOK'
  BY <1>6 DEF Shutdown
<1>7. ASSUME ClearClientTimerFunc PROVE TypeOK'
  BY <1>7 DEF ClearClientTimerFunc
<1>8. ASSUME NEW c \in Conns, CorStep(c) PROVE TypeOK'
  <2>1. CASE Input(c)
    BY <2>1 DEF Input
  <2>2. CASE FreshTcpConnection(c)
    <3>1. tasks' \in Seq(Conns)
      BY <2>2, AppendProperties DEF FreshTcpConnection
    <3> QED
      BY <2>2, <3>1 DEF FreshTcpConnection
  <2>3. CASE Work(c)
    BY <2>3 DEF Work
  <2>4. CASE HandlerShutdown(c)
    BY <2>4 DEF HandlerShutdown
  <2>5. CASE ClearClient(c)
    BY <2>5 DEF ClearClient
  <2>6. CASE SetClosed(c)
    BY <2>6 DEF SetClosed
  <2>7. CASE YieldForever(c)
    BY <2>7 DEF YieldForever
  <2> QED
    BY <1>8, <2>1, <2>2, <2>3, <2>4, <2>5, <2>6, <2>7 DEF CorStep
<1>9. ASSUME NEW f \in Fds, PeerSend(f) PROVE TypeOK'
  BY <1>9 DEF PeerSend
<1>10. ASSUME NEW f \in Fds, PeerClose(f) PROVE TypeOK'
  BY <1>10 DEF PeerClose
<1> QED
  BY <1>1, <1>2, <1>3, <1>4, <1>5, <1>6, <1>7, <1>8, <1>9, <1>10 DEF Next, Release, vars

\* The server's state has the declared types in every behaviour, and an object
\* in the map is at its own descriptor.
LEMMA TypeCorrect == Spec => []TypeOK
BY TypeInit, TypeStep, PTL DEF Spec

----------------------------------------------------------------------------
(* The sockets.                                                            *)

Serving == {"input", "fresh", "work", "close"}

\* A connection's coroutine owns its socket until it closes it, the map holds
\* the connection as long, and only a coroutine past its close has marked it.
SocketInv ==
    /\ \A f \in Fds, c \in Conns :
          socket[f] = c => fd[c] = f /\ pc[c] \in Serving /\ clients[f] = c
    /\ \A c \in Conns : pc[c] \in Serving => fd[c] \in Fds /\ socket[fd[c]] = c
    /\ \A c \in Conns : life[c] = "new" <=> pc[c] = "none"
    /\ \A c \in Conns : state[c] = "Closed" => pc[c] \in {"yield", "parked"}

\* It holds at first.
LEMMA SocketInit == Init => SocketInv
BY TcpServerAssumption DEF TcpServerAssumption, Init, SocketInv, Serving

\* Every step keeps it.
LEMMA SocketStep == TypeOK /\ SocketInv /\ [Next]_vars => SocketInv'
<1> SUFFICES ASSUME TypeOK, SocketInv, [Next]_vars PROVE SocketInv'
  OBVIOUS
<1> USE DEF TypeOK, CorState, SocketInv, Serving, kernelVars, objVars, slotVars
<1> USE TcpServerAssumption DEF TcpServerAssumption
<1>1. ASSUME NEW c \in Conns, NEW f \in Fds, Accept(c, f) PROVE SocketInv'
  <2>1. /\ socket' = [socket EXCEPT ![f] = c] /\ socket[f] = NoConn /\ life[c] = "new"
        /\ clients' = [clients EXCEPT ![f] = c] /\ fd' = [fd EXCEPT ![c] = f]
        /\ pc' = [pc EXCEPT ![c] = "input"] /\ state' = [state EXCEPT ![c] = "Connected"]
        /\ life' = [d \in Conns |-> CASE d = c          -> "alive"
                                      [] d = clients[f] -> "freed"
                                      [] OTHER          -> life[d]]
    BY <1>1 DEF Accept
  <2>2. ASSUME NEW g \in Fds, NEW d \in Conns, socket'[g] = d
        PROVE  fd'[d] = g /\ pc'[d] \in Serving /\ clients'[g] = d
    BY SMTT(30), <2>1, <2>2
  <2>3. ASSUME NEW d \in Conns, pc'[d] \in Serving PROVE fd'[d] \in Fds /\ socket'[fd'[d]] = d
    BY <2>1, <2>3
  <2>4. ASSUME NEW d \in Conns PROVE life'[d] = "new" <=> pc'[d] = "none"
    <3>1. CASE d = c
      BY <2>1, <3>1
    <3>2. CASE d # c /\ d = clients[f]
      <4>1. life[d] = "alive"
        BY <3>2
      <4> QED
        BY <2>1, <3>2, <4>1
    <3>3. CASE d # c /\ d # clients[f]
      BY <2>1, <3>3
    <3> QED
      BY <3>1, <3>2, <3>3
  <2>5. ASSUME NEW d \in Conns, state'[d] = "Closed" PROVE pc'[d] \in {"yield", "parked"}
    BY <2>1, <2>5
  <2> QED
    BY <2>2, <2>3, <2>4, <2>5
<1>2. ASSUME Fresh \/ LoopFunc \/ Shutdown PROVE SocketInv'
  BY <1>2 DEF Fresh, LoopFunc, Shutdown
<1>3. ASSUME NEW c \in Conns, ReleaseSlot(c) PROVE SocketInv'
  BY <1>3 DEF ReleaseSlot
<1>4. ASSUME SetHalfClosing PROVE SocketInv'
  BY <1>4 DEF SetHalfClosing
<1>5. ASSUME ClearClientTimerFunc PROVE SocketInv'
  <2>1. UNCHANGED <<socket, fd, pc, state>>
    BY <1>5 DEF ClearClientTimerFunc
  <2>2. ASSUME NEW f \in Fds, NEW c \in Conns, socket[f] = c PROVE clients'[f] = c
    <3>1. clients[f] = c /\ state[c] # "Closed"
      BY <2>2
    <3> QED
      BY <1>5, <3>1 DEF ClearClientTimerFunc
  <2>3. ASSUME NEW c \in Conns PROVE life'[c] = "new" <=> life[c] = "new"
    <3>1. CASE life[c] = "alive"
      BY <1>5, <3>1 DEF ClearClientTimerFunc
    <3>2. CASE life[c] # "alive"
      BY <1>5, <3>2 DEF ClearClientTimerFunc
    <3> QED
      BY <3>1, <3>2
  <2> QED
    BY <2>1, <2>2, <2>3
<1>6. ASSUME NEW c \in Conns, CorStep(c) PROVE SocketInv'
  <2>1. CASE Input(c)
    BY <2>1 DEF Input
  <2>2. CASE FreshTcpConnection(c)
    BY <2>2 DEF FreshTcpConnection
  <2>6. CASE Work(c)
    BY <2>6 DEF Work
  <2>3. CASE HandlerShutdown(c)
    BY <2>3 DEF HandlerShutdown
  <2>4. CASE ClearClient(c)
    BY <2>4 DEF ClearClient
  <2>5. CASE SetClosed(c)
    BY <2>5 DEF SetClosed
  <2>7. CASE YieldForever(c)
    BY <2>7 DEF YieldForever
  <2> QED
    BY <1>6, <2>1, <2>2, <2>3, <2>4, <2>5, <2>6, <2>7 DEF CorStep
<1>7. ASSUME NEW f \in Fds, PeerSend(f) \/ PeerClose(f) PROVE SocketInv'
  BY <1>7 DEF PeerSend, PeerClose
<1>8. CASE UNCHANGED vars
  BY <1>8 DEF vars
<1> QED
  BY <1>1, <1>2, <1>3, <1>4, <1>5, <1>6, <1>7, <1>8 DEF Next, Release

\* Both hold in every state.
LEMMA SocketHolds == Spec => [](TypeOK /\ SocketInv)
BY TypeInit, TypeStep, SocketInit, SocketStep, PTL DEF Spec

\* Every open socket is served by the connection the map holds for it.
LEMMA OpenIsMappedHolds == Spec => []OpenIsMapped
<1>1. TypeOK /\ SocketInv => OpenIsMapped
  BY DEF SocketInv, OpenIsMapped
<1> QED
  BY <1>1, SocketHolds, PTL

\* A connection is deleted only after its own socket was closed.
LEMMA DestroyedAfterCloseHolds == Spec => []DestroyedAfterClose
<1>1. TypeOK /\ SocketInv => DestroyedAfterClose
  <2> SUFFICES ASSUME TypeOK, SocketInv, NEW c \in Conns, NEW f \in Fds, socket[f] = c
               PROVE  life[c] # "freed"
    BY DEF DestroyedAfterClose
  <2>1. clients[f] = c /\ c # NoConn
    BY TcpServerAssumption DEF TcpServerAssumption, SocketInv
  <2> QED
    BY <2>1 DEF TypeOK
<1> QED
  BY <1>1, SocketHolds, PTL

\* The map and the objects keep their shape, the map serves every open socket,
\* and nothing is deleted before its socket is closed, however the kernel
\* reuses numbers and the coroutines, the main thread and the wheel interleave.
THEOREM SoundHolds == Spec => []Sound
<1>1. TypeOK /\ OpenIsMapped /\ DestroyedAfterClose => Sound
  BY DEF Sound
<1> QED
  BY <1>1, TypeCorrect, OpenIsMappedHolds, DestroyedAfterCloseHolds, PTL

----------------------------------------------------------------------------
(* The time wheel.                                                         *)

\* A slot that was put in the wheel less than a turn ago is in the bucket that
\* its age says, so that a slot which nothing holds has gone round; while its
\* connection is being shut down nothing holds it again.
WheelInv ==
    /\ \A c \in Conns :
          c \in dropped \/ (\E i \in 1 .. Buckets : c \in wheel[i]) =>
              (age[c] < Buckets => c \in wheel[Buckets - age[c]])
    /\ closing.step = "set" =>
          /\ closing.conn \in Conns /\ age[closing.conn] = Buckets
          /\ ~Held(closing.conn) /\ closing.conn \notin dropped

\* It holds at first.
LEMMA WheelInit == Init => WheelInv
BY TcpServerAssumption DEF TcpServerAssumption, Init, WheelInv, NotClosing

\* Every step keeps it.
LEMMA WheelStep == TypeOK /\ WheelInv /\ [Next]_vars => WheelInv'
<1> SUFFICES ASSUME TypeOK, WheelInv, [Next]_vars PROVE WheelInv'
  OBVIOUS
<1> USE TcpServerAssumption DEF TcpServerAssumption
<1>0. TypeOK'
  BY TypeStep
<1> USE DEF MainIdle, NotClosing, kernelVars, objVars, slotVars
<1>1. ASSUME NEW c \in Conns, NEW f \in Fds, Accept(c, f) PROVE WheelInv'
  BY <1>1 DEF Accept, WheelInv
<1>2. ASSUME Fresh PROVE WheelInv'
  <2> DEFINE h == Head(tasks)
  <2>1. h \in Conns
    BY <1>2, HeadTailProperties DEF Fresh, TypeOK
  <2>2. /\ wheel' = [wheel EXCEPT ![Buckets] = @ \cup {h}]
        /\ age' = [age EXCEPT ![h] = 0]
        /\ closing' = closing /\ closing.step = "none" /\ dropped' = dropped /\ dropped = {}
    BY <1>2 DEF Fresh
  <2> HIDE DEF h
  <2>3. ASSUME NEW c \in Conns, NEW i \in 1 .. Buckets, c \in wheel'[i], age'[c] < Buckets
        PROVE  c \in wheel'[Buckets - age'[c]]
    <3>1. CASE c = h
      BY <2>1, <2>2, <3>1 DEF TypeOK
    <3>2. CASE c # h
      <4>1. c \in wheel[i] /\ age'[c] = age[c]
        BY <2>1, <2>2, <2>3, <3>2 DEF TypeOK
      <4>2. c \in wheel[Buckets - age[c]] /\ Buckets - age[c] \in 1 .. Buckets
        BY <2>3, <4>1 DEF WheelInv, TypeOK
      <4> QED
        BY <2>2, <4>1, <4>2 DEF TypeOK
    <3> QED
      BY <3>1, <3>2
  <2> QED
    BY <2>2, <2>3 DEF WheelInv
<1>3. ASSUME LoopFunc PROVE WheelInv'
  <2>1. /\ dropped' = wheel[1] /\ closing' = closing /\ closing.step = "none"
        /\ wheel' = [i \in 1 .. Buckets |-> IF i = Buckets THEN {} ELSE wheel[i + 1]]
        /\ age' = [c \in Conns |-> IF age[c] = Buckets THEN Buckets ELSE age[c] + 1]
    BY <1>3 DEF LoopFunc
  <2>2. ASSUME NEW c \in Conns, c \in dropped' \/ (\E i \in 1 .. Buckets : c \in wheel'[i]),
               age'[c] < Buckets
        PROVE  c \in wheel'[Buckets - age'[c]]
    <3>1. \E i \in 1 .. Buckets : c \in wheel[i]
      <4>1. CASE c \in dropped'
        BY <2>1, <4>1
      <4>2. ASSUME NEW i \in 1 .. Buckets, c \in wheel'[i] PROVE i + 1 \in 1 .. Buckets /\ c \in wheel[i + 1]
        BY <2>1, <4>2
      <4> QED
        BY <2>2, <4>1, <4>2
    <3>2. age[c] \in 0 .. Buckets /\ age'[c] = age[c] + 1 /\ age[c] < Buckets - 1
      BY <2>1, <2>2 DEF TypeOK
    <3>3. c \in wheel[Buckets - age[c]]
      BY <3>1, <3>2 DEF WheelInv
    <3>4. Buckets - age'[c] \in 1 .. Buckets /\ Buckets - age'[c] # Buckets
          /\ (Buckets - age'[c]) + 1 = Buckets - age[c]
      BY <3>2
    <3> QED
      BY <2>1, <3>3, <3>4
  <2> QED
    BY <2>1, <2>2 DEF WheelInv
<1>4. ASSUME NEW c \in Conns, ReleaseSlot(c) PROVE WheelInv'
  <2>1. /\ closing.step = "none" /\ c \in dropped /\ dropped' = dropped \ {c}
        /\ wheel' = wheel /\ tasks' = tasks /\ age' = age
        /\ closing' # closing => closing' = [conn |-> c, step |-> "set"] /\ ~Held(c)
    BY <1>4 DEF ReleaseSlot
  <2>2. CASE closing' = closing
    BY <2>1, <2>2 DEF WheelInv
  <2>3. CASE closing' # closing
    <3>1. age[c] = Buckets
      <4>1. age[c] \in 0 .. Buckets
        BY DEF TypeOK
      <4>2. age[c] < Buckets => c \in wheel[Buckets - age[c]] /\ Buckets - age[c] \in 1 .. Buckets
        BY <2>1, <4>1 DEF WheelInv
      <4> QED
        BY <2>1, <2>3, <4>1, <4>2 DEF Held
    <3> QED
      BY <2>1, <2>3, <3>1 DEF WheelInv, Held
  <2> QED
    BY <2>2, <2>3
<1>5. ASSUME SetHalfClosing \/ Shutdown PROVE WheelInv'
  BY <1>0, <1>5 DEF SetHalfClosing, Shutdown, WheelInv, TypeOK
<1>6. ASSUME ClearClientTimerFunc PROVE WheelInv'
  BY <1>6 DEF ClearClientTimerFunc, WheelInv, Held
<1>7. ASSUME NEW c \in Conns, FreshTcpConnection(c) PROVE WheelInv'
  <2>1. /\ closing' = closing /\ wheel' = wheel /\ dropped' = dropped /\ age' = age
        /\ tasks' = IF Held(c) \/ c \in dropped THEN Append(tasks, c) ELSE tasks
    BY <1>7 DEF FreshTcpConnection
  <2>2. ASSUME closing.step = "set" PROVE ~Held(closing.conn)'
    <3>1. ~Held(closing.conn) /\ closing.conn \notin dropped
      BY <2>2 DEF WheelInv
    <3>2. ToSet(Append(tasks, c)) \subseteq ToSet(tasks) \cup {c}
      BY AppendProperties DEF TypeOK, ToSet
    <3>3. closing.conn \notin ToSet(tasks')
      BY <2>1, <3>1, <3>2 DEF Held
    <3> QED
      BY <2>1, <3>1, <3>3 DEF Held
  <2> QED
    BY <2>1, <2>2 DEF WheelInv
<1>8. ASSUME NEW c \in Conns, CorStep(c), ~FreshTcpConnection(c) PROVE WheelInv'
  BY <1>8 DEF CorStep, Input, Work, HandlerShutdown, ClearClient, SetClosed, YieldForever, WheelInv, Held
<1>9. ASSUME NEW f \in Fds, PeerSend(f) \/ PeerClose(f) PROVE WheelInv'
  BY <1>9 DEF PeerSend, PeerClose, WheelInv, Held
<1>10. CASE UNCHANGED vars
  BY <1>10 DEF vars, WheelInv, Held
<1> QED
  BY <1>1, <1>2, <1>3, <1>4, <1>5, <1>6, <1>7, <1>8, <1>9, <1>10 DEF Next, Release

\* The wheel shuts a connection down only after a full turn without a Fresh.
THEOREM IdleForATurnHolds == Spec => []IdleForATurn
<1>1. WheelInv => IdleForATurn
  BY DEF WheelInv, IdleForATurn, Held
<1> QED
  BY <1>1, TypeInit, TypeStep, WheelInit, WheelStep, PTL DEF Spec
=============================================================================
