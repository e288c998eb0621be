------------------------- MODULE TcpConnectionProofs -------------------------
(* What one connection keeps, for any requests and any bytes of theirs, any *)
(* services and servlets and any first size of the read buffer.             *)
EXTENDS TcpConnection, SequenceElements

----------------------------------------------------------------------------
(* The read buffer.                                                        *)

Byte == 0 .. 255

\* A vector of bytes with its indices in order.
Good(b, r, w) ==
    /\ b \in Seq(Byte)
    /\ r \in Nat /\ w \in Nat /\ r <= w /\ w <= Len(b)

\* The filled part of c between s and v is that of b between r and w.
Alike(b, r, w, c, s, v) ==
    /\ v - s = w - r
    /\ \A i \in 1 .. w - r : c[s + i] = b[r + i]

\* It is what TcpBuffer's invariant says.
LEMMA ShapeIs ==
    ASSUME NEW b, NEW r, NEW w
    PROVE  Good(b, r, w) <=>
             /\ b \in Seq((0 .. 255) \cup {0}) /\ r \in Nat /\ w \in Nat
             /\ 0 <= r /\ r <= w /\ w <= Len(b)
             /\ \A i \in r + 1 .. w : b[i] \in 0 .. 255
<1>1. (0 .. 255) \cup {0} = Byte /\ Byte = 0 .. 255
  BY DEF Byte
<1>2. ASSUME Good(b, r, w) PROVE \A i \in r + 1 .. w : i \in 1 .. Len(b) /\ b[i] \in Byte
  BY <1>2, ElementOfSeq DEF Good
<1>3. ASSUME Good(b, r, w) PROVE 0 <= r
  BY <1>3 DEF Good
<1> QED
  BY <1>1, <1>2, <1>3 DEF Good

\* The buffer's type invariant says that it is good.
LEMMA GoodIs == In!BufferTypeOK <=> Good(buffer, readIndex, writeIndex)
BY ShapeIs DEF In!BufferTypeOK, In!IndicesInRange

\* The same of the next state.
LEMMA GoodNext == In!BufferTypeOK' <=> Good(buffer', readIndex', writeIndex')
BY ShapeIs DEF In!BufferTypeOK, In!IndicesInRange

\* A move to the front of a vector with room for the filled part keeps it.
LEMMA MovedKeeps ==
    ASSUME NEW b, NEW r, NEW w, Good(b, r, w), NEW size \in Nat, w - r <= size
    PROVE  /\ Good(In!Moved(b, r, w, size), 0, w - r) /\ Len(In!Moved(b, r, w, size)) = size
           /\ Alike(b, r, w, In!Moved(b, r, w, size), 0, w - r)
<1> DEFINE m == In!Moved(b, r, w, size)
<1>1. \A i \in 1 .. size : m[i] = IF i <= w - r THEN b[r + i] ELSE 0
  BY DEF In!Moved
<1>2. \A i \in 1 .. w - r : i \in 1 .. size /\ r + i \in 1 .. Len(b) /\ m[i] = b[r + i] /\ b[r + i] \in Byte
  BY <1>1, ElementOfSeq DEF Good
<1>3. m \in Seq(Byte) /\ Len(m) = size
  <2>1. \A i \in 1 .. size : m[i] \in Byte
    <3> SUFFICES ASSUME NEW i \in 1 .. size PROVE m[i] \in Byte
      OBVIOUS
    <3>1. CASE i <= w - r
      <4>1. i \in 1 .. w - r
        BY <3>1 DEF Good
      <4> QED
        BY <1>2, <4>1
    <3>2. CASE ~(i <= w - r)
      <4>1. m[i] = 0 /\ 0 \in Byte
        BY <1>1, <3>2 DEF Byte
      <4> QED
        BY <4>1
    <3> QED
      BY <3>1, <3>2
  <2>2. m = [i \in 1 .. size |-> m[i]]
    BY DEF In!Moved
  <2> HIDE DEF m
  <2>3. m \in [1 .. size -> Byte]
    BY <2>1, <2>2
  <2> QED
    BY <2>3
<1> HIDE DEF m
<1>4. w - r \in Nat /\ (w - r) - 0 = w - r /\ \A i \in 1 .. w - r : 0 + i = i
  BY DEF Good
<1> QED
  BY <1>2, <1>3, <1>4 DEF Good, Alike, m

\* AdjustBuffer keeps the filled part.
LEMMA AdjustKeeps ==
    ASSUME NEW b, NEW r, NEW w, Good(b, r, w), In!AdjustBuffer(b, r, w)
    PROVE  /\ Good(buffer', readIndex', writeIndex')
           /\ Alike(b, r, w, buffer', readIndex', writeIndex')
<1>1. CASE buffer' = b /\ readIndex' = r /\ writeIndex' = w
  BY <1>1 DEF Alike
<1>2. CASE buffer' = In!Moved(b, r, w, Len(b)) /\ readIndex' = 0 /\ writeIndex' = w - r
  <2>1. Len(b) \in Nat /\ w - r <= Len(b)
    BY DEF Good
  <2> QED
    BY <1>2, <2>1, MovedKeeps
<1> QED
  BY <1>1, <1>2 DEF In!AdjustBuffer

\* What is taken off the front leaves the rest.
LEMMA RecycleReadKeeps ==
    ASSUME Good(buffer, readIndex, writeIndex), NEW n \in 0 .. writeIndex - readIndex,
           In!RecycleRead(n)
    PROVE  /\ Good(buffer', readIndex', writeIndex')
           /\ Alike(buffer, readIndex + n, writeIndex, buffer', readIndex', writeIndex')
<1>1. Good(buffer, readIndex + n, writeIndex) /\ ~(readIndex + n > Len(buffer))
  BY DEF Good
<1> QED
  BY <1>1, AdjustKeeps DEF In!RecycleRead

\* Receiving keeps the vector's shape.
LEMMA ReceiveKeeps ==
    ASSUME Good(buffer, readIndex, writeIndex), InitSize \in Nat, NEW data \in Seq(Byte), In!Receive(data)
    PROVE  Good(buffer', readIndex', writeIndex')
<1> DEFINE full == In!Resized(2 * Len(buffer))
           b == IF In!Writeable = 0 THEN full.buffer ELSE buffer
           r == IF In!Writeable = 0 THEN 0 ELSE readIndex
           w == IF In!Writeable = 0 THEN full.writeIndex ELSE writeIndex
<1>1. Good(b, r, w)
  <2>1. CASE In!Writeable = 0
    <3>1. 2 * Len(buffer) \in Nat /\ writeIndex - readIndex \in Nat /\ writeIndex - readIndex <= 2 * Len(buffer)
      BY DEF Good
    <3>2. Min({2 * Len(buffer), In!Readable}) = writeIndex - readIndex
      <4>1. {2 * Len(buffer), writeIndex - readIndex} \in SUBSET Nat
        BY <3>1
      <4>2. \A m \in {2 * Len(buffer), writeIndex - readIndex} : writeIndex - readIndex <= m
        BY <3>1
      <4> QED
        BY <4>1, <4>2, MinIsOne DEF In!Readable
    <3>3. readIndex + (writeIndex - readIndex) = writeIndex
      BY DEF Good
    <3>4. /\ full.buffer = In!Moved(buffer, readIndex, writeIndex, 2 * Len(buffer))
          /\ full.writeIndex = writeIndex - readIndex
      <4> DEFINE c == In!Min({2 * Len(buffer), In!Readable})
      <4>1. full = [buffer |-> In!Moved(buffer, readIndex, readIndex + c, 2 * Len(buffer)), writeIndex |-> c]
        BY Zenon DEF In!Resized
      <4>2. c = writeIndex - readIndex /\ readIndex + c = writeIndex
        BY <3>2, <3>3 DEF Min, In!Min
      <4> HIDE DEF c, full
      <4> QED
        BY <4>1, <4>2
    <3> HIDE DEF full
    <3> QED
      BY <2>1, <3>1, <3>4, MovedKeeps
  <2> QED
    BY <2>1
<1>2. Len(data) <= Len(b) - w /\ In!RecycleWrite(In!Copied(b, w, data), r, w, Len(data))
  BY DEF In!Receive
<1> HIDE DEF b, r, w
<1> DEFINE c == In!Copied(b, w, data)
<1>3. Len(data) \in Nat /\ DOMAIN data = 1 .. Len(data) /\ Len(b) \in Nat /\ DOMAIN b = 1 .. Len(b) /\ w \in Nat /\ r \in Nat
  BY <1>1 DEF Good
<1>4. \A i \in 1 .. Len(b) : (IF i > w /\ i <= w + Len(data) THEN data[i - w] ELSE b[i]) \in Byte
  <2> SUFFICES ASSUME NEW i \in 1 .. Len(b)
               PROVE  (IF i > w /\ i <= w + Len(data) THEN data[i - w] ELSE b[i]) \in Byte
    OBVIOUS
  <2>1. CASE i > w /\ i <= w + Len(data)
    <3>1. i - w \in 1 .. Len(data)
      BY <1>3, <2>1
    <3> QED
      BY <2>1, <3>1
  <2>2. CASE ~(i > w /\ i <= w + Len(data))
    BY <1>1, <2>2 DEF Good
  <2> QED
    BY <2>1, <2>2
<1>5. c = [i \in 1 .. Len(b) |-> IF i > w /\ i <= w + Len(data) THEN data[i - w] ELSE b[i]]
  BY <1>3 DEF In!Copied
<1>6. c \in [1 .. Len(b) -> Byte]
  BY <1>4, <1>5
<1> HIDE DEF c
<1>7. c \in Seq(Byte) /\ Len(c) = Len(b)
  BY <1>3, <1>6
<1>8. Good(c, r, w + Len(data)) /\ ~(w + Len(data) > Len(c))
  BY <1>1, <1>2, <1>3, <1>7 DEF Good
<1>9. In!AdjustBuffer(c, r, w + Len(data))
  BY <1>2, <1>8 DEF In!RecycleWrite, c
<1> QED
  BY <1>8, <1>9, AdjustKeeps

----------------------------------------------------------------------------
(* The rpc codec: what Decode looks at beyond the bytes that have arrived   *)
(* never makes a package of them.                                           *)

\* The number that the four bytes behind index i stand for, and the index that
\* it leads to as the length of a package that starts in front of it.
Word(b, i) ==
    (IF b[i + 1] < 128 THEN b[i + 1] ELSE b[i + 1] - 256) * 16777216
    + b[i + 2] * 65536 + b[i + 3] * 256 + b[i + 4]
End(b, i) == i + Word(b, i + 1) - 1

\* Somewhere in the filled part a start mark and a length lead to an end mark.
FramedAt(b, w, i) ==
    /\ b[i + 1] = Rpc!PB_START
    /\ i + 5 < End(b, i) /\ End(b, i) < w
    /\ b[End(b, i) + 1] = Rpc!PB_END
Framed(b, r, w) == \E i \in r .. w - 5 : FramedAt(b, w, i)

\* The numbers Decode takes from bytes that have arrived do not depend on others.
LEMMA IntsAre ==
    ASSUME NEW b, NEW r, NEW w, Good(b, r, w), NEW stray, NEW i \in r .. w, i + 4 <= w
    PROVE  Rpc!Ints(b, r, w, stray)[i] = Word(b, i) /\ Word(b, i) \in Int
<1>1. /\ i + 1 \in DOMAIN b /\ i + 2 \in DOMAIN b /\ i + 3 \in DOMAIN b /\ i + 4 \in DOMAIN b
      /\ i + 1 + 1 = i + 2 /\ i + 2 + 1 = i + 3 /\ i + 3 + 1 = i + 4
      /\ i \in r .. w + 4
  BY DEF Good
<1>2. /\ Rpc!ByteAt(b, i, stray) = b[i + 1] /\ Rpc!ByteAt(b, i + 1, stray) = b[i + 2]
      /\ Rpc!ByteAt(b, i + 2, stray) = b[i + 3] /\ Rpc!ByteAt(b, i + 3, stray) = b[i + 4]
  BY <1>1 DEF Rpc!ByteAt
<1>3. b[i + 1] \in Int /\ b[i + 2] \in Int /\ b[i + 3] \in Int /\ b[i + 4] \in Int
  <2>1. \A k \in DOMAIN b : b[k] \in Int
    <3>1. \A k \in DOMAIN b : b[k] \in Byte
      BY ElementOfSeq DEF Good
    <3> QED
      BY <3>1 DEF Byte
  <2> QED
    BY <1>1, <2>1
<1>4. Rpc!Ints(b, r, w, stray)[i] =
        LET top == Rpc!ByteAt(b, i, stray) IN
        (IF top < 128 THEN top ELSE top - 256) * 16777216
        + Rpc!ByteAt(b, i + 1, stray) * 65536
        + Rpc!ByteAt(b, i + 2, stray) * 256
        + Rpc!ByteAt(b, i + 3, stray)
  BY <1>1 DEF Rpc!Ints, Rpc!IntSize
<1>5. Word(b, i) \in Int
  BY <1>3 DEF Word
<1> QED
  BY <1>2, <1>4, <1>5 DEF Word

\* Decode takes numbers wherever it looks.
LEMMA IntsType ==
    ASSUME NEW b, NEW r, NEW w, Good(b, r, w), NEW stray \in Byte, NEW i \in r .. w + Rpc!IntSize
    PROVE  Rpc!Ints(b, r, w, stray)[i] \in Int
<1>1. i \in Nat /\ \A k \in Nat : Rpc!ByteAt(b, k, stray) \in Int
  <2>1. \A k \in DOMAIN b : b[k] \in Byte
    BY ElementOfSeq DEF Good
  <2>2. \A k \in Nat : Rpc!ByteAt(b, k, stray) \in Byte
    BY <2>1 DEF Rpc!ByteAt
  <2>3. i \in Nat
    BY DEF Good, Rpc!IntSize
  <2> QED
    BY <2>2, <2>3 DEF Byte
<1>2. Rpc!Ints(b, r, w, stray)[i] =
        (IF Rpc!ByteAt(b, i, stray) < 128 THEN Rpc!ByteAt(b, i, stray) ELSE Rpc!ByteAt(b, i, stray) - 256) * 16777216
        + Rpc!ByteAt(b, i + 1, stray) * 65536
        + Rpc!ByteAt(b, i + 2, stray) * 256
        + Rpc!ByteAt(b, i + 3, stray)
  BY DEF Rpc!Ints
<1>3. /\ Rpc!ByteAt(b, i, stray) \in Int /\ Rpc!ByteAt(b, i + 1, stray) \in Int
      /\ Rpc!ByteAt(b, i + 2, stray) \in Int /\ Rpc!ByteAt(b, i + 3, stray) \in Int
  BY <1>1
<1> QED
  BY <1>2, <1>3

\* Fields do not fit behind the end.
LEMMA ShortFails ==
    ASSUME NEW b, NEW ints, NEW start, NEW end, NEW take, end + 1 - start = take,
           (start + 1 + 2 * Rpc!IntSize) - Rpc!IntSize >= end
    PROVE  Rpc!DecodeFields(b, ints, start, end) = Rpc!Failed(take)
BY Zenon DEF Rpc!DecodeFields

\* A package whose fields fit is longer than its first number.
LEMMA FieldsFit ==
    ASSUME NEW b, NEW ints, NEW start, NEW end, Rpc!DecodeFields(b, ints, start, end).ok
    PROVE  /\ Rpc!DecodeFields(b, ints, start, end).take = end + 1 - start
           /\ ~((start + 1 + 2 * Rpc!IntSize) - Rpc!IntSize >= end)
<1> DEFINE take == end + 1 - start
           seqAt == start + 1 + 2 * Rpc!IntSize
           seqLen == ints[seqAt - Rpc!IntSize]
           nameAt == seqAt + seqLen + Rpc!IntSize
           nameLen == ints[nameAt - Rpc!IntSize]
           infoAt == nameAt + nameLen + 2 * Rpc!IntSize
           infoLen == ints[infoAt - Rpc!IntSize]
           pbAt == infoAt + infoLen
           pbLen == take - Rpc!Overhead - seqLen - nameLen - infoLen
           fit == /\ seqLen \in 0 .. Rpc!SeqArray - 1
                  /\ nameLen \in 0 .. Rpc!TextArray - 1
                  /\ infoLen \in 0 .. Rpc!TextArray - 1 /\ pbLen >= 0
           short == \/ seqAt - Rpc!IntSize >= end \/ seqLen = 0
                    \/ nameAt >= end \/ nameLen > take
                    \/ infoAt - Rpc!IntSize >= end \/ pbAt >= end \/ ~fit
           Text(i, n) == SubSeq(b, i + 1, i + n)
           data == [seq |-> Rpc!UpToNul(Text(seqAt, seqLen)),
                    service |-> Rpc!UpToNul(Text(nameAt, nameLen)),
                    err |-> ints[infoAt - 2 * Rpc!IntSize],
                    err_info |-> Rpc!UpToNul(Text(infoAt, infoLen)),
                    pb |-> Text(pbAt, pbLen)]
<1>1. Rpc!DecodeFields(b, ints, start, end) =
        IF short THEN Rpc!Failed(take) ELSE [ok |-> TRUE, take |-> take, data |-> data]
  BY Zenon DEF Rpc!DecodeFields
<1> HIDE DEF data, take
<1>2. ~short
  <2> HIDE DEF short
  <2> QED
    BY <1>1 DEF Rpc!Failed
<1>3. Rpc!DecodeFields(b, ints, start, end).take = take
  <2> HIDE DEF short
  <2> QED
    BY <1>1, <1>2
<1> QED
  <2>1. ~((start + 1 + 2 * Rpc!IntSize) - Rpc!IntSize >= end)
    BY Zenon, <1>2
  <2>2. Rpc!DecodeFields(b, ints, start, end).take = end + 1 - start
    BY <1>3 DEF take
  <2> QED
    BY <2>1, <2>2

\* A start mark whose length has not arrived, and is not negative as it reads,
\* leads to no end mark but one in front of it; Decode then takes nothing.
LEMMA PartialTakesNothing ==
    ASSUME NEW b, NEW r, NEW w, Good(b, r, w), NEW stray \in Byte,
           NEW i \in Rpc!Starts(b, r, w, Rpc!Ints(b, r, w, stray), stray),
           ~(i + 1 + Rpc!IntSize <= w), Rpc!Ints(b, r, w, stray)[i + 1] >= 0
    PROVE  LET ints == Rpc!Ints(b, r, w, stray) IN
           Rpc!DecodeFields(b, ints, i, i + ints[i + 1] - 1) = Rpc!Failed(0)
<1> DEFINE ints == Rpc!Ints(b, r, w, stray)
           len == ints[i + 1]
           At(k) == Rpc!ByteAt(b, k, stray)
<1>1. /\ i \in r .. w - 2 /\ b[i + 1] = 2 /\ i + len - 1 < w /\ At(i + len - 1) = 3
  BY Zenon DEF Rpc!Starts, Rpc!PB_START, Rpc!PB_END
<1>2. i \in Nat /\ w \in Nat /\ r \in Nat /\ w <= i + 4 /\ i + 1 \in r .. w + Rpc!IntSize /\ i + 1 < w
  BY <1>1 DEF Good, Rpc!IntSize
<1>3. len \in Int
  BY <1>2, IntsType
<1>4. /\ At(i) \in 0 .. 255 /\ At(i + 1) \in 0 .. 255 /\ At(i + 2) \in 0 .. 255
      /\ At(i + 3) \in 0 .. 255 /\ At(i + 4) \in 0 .. 255
  <2>1. \A k \in DOMAIN b : b[k] \in Byte
    BY ElementOfSeq DEF Good
  <2>2. \A k \in Nat : At(k) \in Byte
    BY <2>1 DEF Rpc!ByteAt
  <2> HIDE DEF At
  <2> QED
    BY <1>2, <2>2 DEF Byte
<1>5. len = (IF At(i + 1) < 128 THEN At(i + 1) ELSE At(i + 1) - 256) * 16777216
            + At(i + 2) * 65536 + At(i + 3) * 256 + At(i + 4)
  <2>1. /\ len = (IF At(i + 1) < 128 THEN At(i + 1) ELSE At(i + 1) - 256) * 16777216
                 + At((i + 1) + 1) * 65536 + At((i + 1) + 2) * 256 + At((i + 1) + 3)
    BY <1>2 DEF Rpc!Ints
  <2>2. (i + 1) + 1 = i + 2 /\ (i + 1) + 2 = i + 3 /\ (i + 1) + 3 = i + 4
    BY <1>2
  <2> QED
    BY <2>1, <2>2
<1> DEFINE a == At(i + 1) c == At(i + 2) d == At(i + 3) e == At(i + 4)
<1>6. len < 5
  <2> HIDE DEF len, At
  <2> QED
    BY <1>1, <1>2, <1>3
<1>7. a = 0 /\ c = 0 /\ d = 0 /\ len = e
  <2>1. a \in 0 .. 255 /\ c \in 0 .. 255 /\ d \in 0 .. 255 /\ e \in 0 .. 255
    BY <1>4
  <2>2. len = (IF a < 128 THEN a ELSE a - 256) * 16777216 + c * 65536 + d * 256 + e
    BY <1>5
  <2>3. len >= 0
    OBVIOUS
  <2> HIDE DEF a, c, d, e, len
  <2> QED
    BY <1>6, <2>1, <2>2, <2>3
<1>8. len = 0
  <2>1. len \in {0, 1, 2, 3, 4}
    <3>1. len >= 0
      OBVIOUS
    <3> HIDE DEF len
    <3> QED
      BY <1>3, <1>6, <3>1
  <2>2. At(i) = 2
    BY <1>1, <1>2 DEF Rpc!ByteAt, Good
  <2>3. i + 1 - 1 = i /\ i + 2 - 1 = i + 1 /\ i + 3 - 1 = i + 2 /\ i + 4 - 1 = i + 3
    BY <1>2
  <2> HIDE DEF At, len
  <2> QED
    BY <1>1, <1>7, <2>1, <2>2, <2>3
<1>9. i + len - 1 = i - 1
  BY <1>2, <1>8
<1>10. Rpc!DecodeFields(b, ints, i, i - 1) = Rpc!Failed(0)
  <2>1. (i + 1 + 2 * Rpc!IntSize) - Rpc!IntSize >= i - 1 /\ (i - 1) + 1 - i = 0
    BY <1>2 DEF Rpc!IntSize
  <2> QED
    BY <2>1, ShortFails
<1> QED
  BY <1>9, <1>10

\* A package that Decode takes has arrived between its marks.
LEMMA DecodeFinds ==
    ASSUME NEW b, NEW r, NEW w, Good(b, r, w), NEW stray \in Byte, Rpc!Decode(b, r, w, stray).ok
    PROVE  Framed(b, r, w) /\ Rpc!Decode(b, r, w, stray).take \in 0 .. w - r
<1> DEFINE ints == Rpc!Ints(b, r, w, stray)
           starts == Rpc!Starts(b, r, w, ints, stray)
           start == Rpc!Min(starts)
           end == start + ints[start + 1] - 1
<1>1. Rpc!Decode(b, r, w, stray) = IF starts = {} THEN Rpc!Failed(0) ELSE Rpc!DecodeFields(b, ints, start, end)
  BY Zenon DEF Rpc!Decode
<1>2. starts # {} /\ Rpc!Decode(b, r, w, stray) = Rpc!DecodeFields(b, ints, start, end)
  <2> HIDE DEF ints, starts, start, end
  <2> QED
    BY <1>1 DEF Rpc!Failed
<1>3. starts = {i \in r .. w - 2 :
                  /\ b[i + 1] = Rpc!PB_START /\ i + ints[i + 1] - 1 < w
                  /\ Rpc!ByteAt(b, i + ints[i + 1] - 1, stray) = Rpc!PB_END}
  BY Zenon DEF Rpc!Starts
<1> HIDE DEF starts
<1>4. start \in starts
  <2>1. starts \in SUBSET Nat
    BY <1>3 DEF Good
  <2> QED
    BY <1>2, <2>1, MinOfSet DEF Rpc!Min, Min
<1>5. /\ start \in r .. w - 2 /\ b[start + 1] = Rpc!PB_START /\ end < w
      /\ Rpc!ByteAt(b, end, stray) = Rpc!PB_END
  BY <1>3, <1>4
<1> HIDE DEF start
<1>6. /\ ~((start + 1 + 2 * Rpc!IntSize) - Rpc!IntSize >= end)
      /\ Rpc!Decode(b, r, w, stray).take = end + 1 - start
  <2> HIDE DEF end, ints
  <2> QED
    BY <1>2, FieldsFit
<1>7. r \in Nat /\ w \in Nat /\ start \in Nat /\ start <= w - 2 /\ r <= start
  BY <1>5 DEF Good
<1>8. CASE ~(start + 5 <= w)
  <2>1. start + 1 \in r .. w + Rpc!IntSize
    BY <1>7 DEF Rpc!IntSize
  <2>2. ints[start + 1] \in Int
    BY <2>1, IntsType
  <2>3. end \in Int
    BY <1>7, <2>2
  <2> HIDE DEF end
  <2> QED
    BY <1>5, <1>6, <1>7, <1>8, <2>3 DEF Rpc!IntSize
<1>9. CASE start + 5 <= w
  <2>1. ints[start + 1] = Word(b, start + 1) /\ Word(b, start + 1) \in Int
    BY <1>7, <1>9, IntsAre
  <2>2. end = End(b, start) /\ end \in Int
    BY <1>7, <2>1 DEF End
  <2> HIDE DEF end
  <2>3. start + 5 < end /\ end + 1 - start \in 0 .. w - r
    BY <1>5, <1>6, <1>7, <2>2 DEF Rpc!IntSize
  <2>4. b[end + 1] = Rpc!PB_END
    <3>1. end + 1 \in DOMAIN b
      BY <1>5, <1>7, <2>2, <2>3 DEF Good
    <3> QED
      BY <1>5, <3>1 DEF Rpc!ByteAt
  <2>5. FramedAt(b, w, start) /\ start \in r .. w - 5
    BY <1>5, <1>7, <2>2, <2>3, <2>4 DEF FramedAt
  <2> QED
    BY <1>6, <2>3, <2>5 DEF Framed
<1> QED
  BY <1>8, <1>9

\* Where a package stands, Decode sees a start mark, whatever lies behind.
LEMMA FramedStarts ==
    ASSUME NEW b, NEW r, NEW w, Good(b, r, w), NEW stray, Framed(b, r, w)
    PROVE  \E i \in r .. w - 5 : i \in Rpc!Starts(b, r, w, Rpc!Ints(b, r, w, stray), stray)
<1> DEFINE ints == Rpc!Ints(b, r, w, stray)
<1>1. PICK i \in r .. w - 5 : FramedAt(b, w, i)
  BY DEF Framed
<1>2. i + 1 \in r .. w /\ (i + 1) + 4 <= w /\ i \in r .. w - 2 /\ i \in Nat
  BY DEF Good
<1>3. ints[i + 1] = Word(b, i + 1) /\ Word(b, i + 1) \in Int
  BY <1>2, IntsAre
<1>4. i + ints[i + 1] - 1 = End(b, i) /\ End(b, i) \in Int
  BY <1>2, <1>3 DEF End
<1>5. End(b, i) + 1 \in DOMAIN b
  BY <1>1, <1>2, <1>4 DEF Good, FramedAt
<1>6. Rpc!ByteAt(b, End(b, i), stray) = Rpc!PB_END
  BY <1>1, <1>5 DEF Rpc!ByteAt, FramedAt
<1>7. b[i + 1] = Rpc!PB_START /\ End(b, i) < w
  BY <1>1 DEF FramedAt
<1> HIDE DEF ints
<1>8. i \in Rpc!Starts(b, r, w, ints, stray)
  BY <1>2, <1>4, <1>6, <1>7 DEF Rpc!Starts
<1> QED
  BY <1>8 DEF ints

\* A package stays one where the filled part is moved to.
LEMMA FramedMoves ==
    ASSUME NEW b, NEW r, NEW w, NEW c, NEW s, NEW v, Good(b, r, w), Good(c, s, v),
           Alike(b, r, w, c, s, v), Framed(c, s, v)
    PROVE  Framed(b, r, w)
<1>1. PICK i \in s .. v - 5 : FramedAt(c, v, i)
  BY DEF Framed
<1>2. /\ i \in Nat /\ s \in Nat /\ v \in Nat /\ r \in Nat /\ w \in Nat
      /\ s <= i /\ i <= v /\ v - s = w - r /\ s <= v /\ r <= w
  BY DEF Good, Alike
<1> DEFINE j == r + (i - s)
           n == End(c, i)
<1>3. /\ j \in Nat /\ j \in r .. w
      /\ \A k \in 1 .. w - r : c[s + k] = b[r + k]
  BY <1>2 DEF Alike
<1>4. \A k \in Nat : s <= k /\ k < v => c[k + 1] = b[(r + (k - s)) + 1]
  <2> SUFFICES ASSUME NEW k \in Nat, s <= k, k < v PROVE c[k + 1] = b[(r + (k - s)) + 1]
    OBVIOUS
  <2>1. (k - s) + 1 \in 1 .. w - r /\ s + ((k - s) + 1) = k + 1 /\ r + ((k - s) + 1) = (r + (k - s)) + 1
    BY <1>2
  <2> QED
    BY <1>3, <2>1
<1>5. c[i + 1] = 2 /\ i + 5 < n /\ n < v /\ c[n + 1] = 3
  BY <1>1 DEF FramedAt, Rpc!PB_START, Rpc!PB_END
<1>6. i + 1 \in s .. v /\ (i + 1) + 4 <= v /\ j + 1 \in r .. w /\ (j + 1) + 4 <= w /\ j \in r .. w - 5
  BY <1>2
<1>7. Word(c, i + 1) \in Int /\ Word(b, j + 1) \in Int
  BY <1>6, IntsAre
<1>8. Word(b, j + 1) = Word(c, i + 1)
  <2>1. /\ c[(i + 1) + 1] = b[(j + 1) + 1] /\ c[(i + 1) + 2] = b[(j + 1) + 2]
        /\ c[(i + 1) + 3] = b[(j + 1) + 3] /\ c[(i + 1) + 4] = b[(j + 1) + 4]
    <3>1. /\ ((i + 1) - s) + 1 \in 1 .. w - r /\ ((i + 1) - s) + 2 \in 1 .. w - r
          /\ ((i + 1) - s) + 3 \in 1 .. w - r /\ ((i + 1) - s) + 4 \in 1 .. w - r
      BY <1>2, <1>6
    <3>2. \A k \in Nat : s + (((i + 1) - s) + k) = (i + 1) + k /\ r + (((i + 1) - s) + k) = (j + 1) + k
      BY <1>2
    <3> QED
      BY <1>3, <3>1, <3>2
  <2> QED
    BY <2>1 DEF Word
<1>9. End(b, j) = r + (n - s) /\ n \in Int
  BY <1>2, <1>7, <1>8 DEF End
<1> HIDE DEF n
<1>10. b[j + 1] = 2 /\ j + 5 < End(b, j) /\ End(b, j) < w
  BY <1>2, <1>4, <1>5, <1>9
<1>11. b[End(b, j) + 1] = 3
  BY <1>2, <1>4, <1>5, <1>9
<1> QED
  BY <1>6, <1>10, <1>11 DEF Framed, FramedAt, Rpc!PB_START, Rpc!PB_END

----------------------------------------------------------------------------
(* The http codec.                                                         *)

\* The length of a content is a number.
LEMMA ContentLengthIs ==
    ASSUME NEW header \in Seq(Byte)
    PROVE  Http!ContentLength(header) \in Nat
<1> DEFINE lengths == {k \in DOMAIN header : header[k] - Http!HeaderBase \in 0 .. 9}
<1>1. Http!ContentLength(header) =
        IF lengths = {} THEN 0 ELSE header[Http!Max(lengths)] - Http!HeaderBase
  BY Zenon DEF Http!ContentLength
<1>2. ASSUME lengths # {} PROVE Http!Max(lengths) \in lengths
  <2>1. Len(header) \in Nat /\ lengths \in SUBSET (1 .. Len(header))
    OBVIOUS
  <2> HIDE DEF lengths
  <2>2. PICK m \in lengths : \A k \in lengths : k <= m
    BY <1>2, <2>1, Largest
  <2>3. Http!Max(lengths) = CHOOSE x \in lengths : \A y \in lengths : x >= y
    BY DEF Http!Max
  <2>4. \A k \in lengths : m >= k
    BY <2>1, <2>2
  <2> QED
    BY <2>3, <2>4
<1>3. \A k \in lengths : header[k] - Http!HeaderBase \in Nat
  OBVIOUS
<1> HIDE DEF lengths
<1> QED
  BY <1>1, <1>2, <1>3

\* Decode takes what is there, and nothing when it fails.
LEMMA HttpTakes ==
    ASSUME NEW s \in Seq(Byte)
    PROVE  /\ Http!Decode(s).ok \in BOOLEAN
           /\ Http!Decode(s).take \in 0 .. Len(s)
           /\ ~Http!Decode(s).ok => Http!Decode(s).take = 0
<1> DEFINE i == Http!Min(Http!LineEnds(s))
           line == SubSeq(s, 1, i - 1)
           rest == SubSeq(s, i + 1, Len(s))
           j == Http!Min(Http!HeaderEnds(rest))
           header == SubSeq(rest, 1, j - 1)
           content == SubSeq(rest, j + 2, Len(rest))
           length == Http!ContentLength(header)
           data == Http!Lines[line[1] - Http!LineBase]
           body == IF data.method = "POST" THEN length ELSE 0
           none == [method |-> "", version |-> "", path |-> Http!NoPath]
<1>1. Http!Decode(s) =
        CASE Http!LineEnds(s) = {} -> Http!Failed
          [] i = Len(s) -> [ok |-> TRUE, take |-> 0, data |-> none]
          [] ~Http!ParseHttpRequestLine(line) -> Http!Failed
          [] Http!HeaderEnds(rest) = {} -> Http!Failed
          [] Len(content) < length -> Http!Failed
          [] OTHER -> [ok |-> TRUE, take |-> i + j + 1 + body, data |-> data]
  BY Zenon DEF Http!Decode
<1>2. Len(s) \in Nat
  OBVIOUS
<1>3. CASE Http!Decode(s) = Http!Failed
  BY <1>2, <1>3 DEF Http!Failed
<1>4. CASE Http!Decode(s) = [ok |-> TRUE, take |-> 0, data |-> none]
  <2> HIDE DEF none
  <2> QED
    BY <1>2, <1>4
<1>5. CASE /\ Http!LineEnds(s) # {} /\ i # Len(s) /\ Http!HeaderEnds(rest) # {} /\ ~(Len(content) < length)
           /\ Http!Decode(s) = [ok |-> TRUE, take |-> i + j + 1 + body, data |-> data]
  <2>1. i \in 1 .. Len(s)
    <3>1. Http!LineEnds(s) \in SUBSET Nat /\ Http!LineEnds(s) \in SUBSET (1 .. Len(s))
      BY DEF Http!LineEnds
    <3>2. Min(Http!LineEnds(s)) \in Http!LineEnds(s)
      BY <1>5, <3>1, MinOfSet
    <3>3. i = Min(Http!LineEnds(s))
      BY DEF Http!Min, Min
    <3> QED
      BY <3>1, <3>2, <3>3
  <2> HIDE DEF i
  <2>2. rest \in Seq(Byte) /\ Len(rest) = Len(s) - i
    BY <1>2, <2>1, SubSeqProperties
  <2> HIDE DEF rest
  <2>3. j \in 1 .. Len(rest) /\ j + 1 \in 1 .. Len(rest)
    <3>1. Http!HeaderEnds(rest) \in SUBSET Nat
          /\ \A k \in Http!HeaderEnds(rest) : k \in 1 .. Len(rest) /\ k + 1 \in 1 .. Len(rest)
      BY <2>2 DEF Http!LineEnds, Http!HeaderEnds
    <3>2. Min(Http!HeaderEnds(rest)) \in Http!HeaderEnds(rest)
      BY <1>5, <3>1, MinOfSet
    <3>3. j = Min(Http!HeaderEnds(rest))
      BY DEF Http!Min, Min
    <3> QED
      BY <3>1, <3>2, <3>3
  <2> HIDE DEF j
  <2>4. header \in Seq(Byte)
    BY <2>2, <2>3, SubSeqProperties
  <2>5. Len(content) = (Len(rest) - j) - 1
    BY <2>2, <2>3, SubSeqProperties
  <2>6. length \in Nat
    <3> HIDE DEF header
    <3> QED
      BY <2>4, ContentLengthIs
  <2> HIDE DEF header, content, length, data
  <2>7. body \in Nat /\ body <= Len(content)
    BY <1>5, <2>5, <2>6, <2>2, <2>3
  <2> HIDE DEF body
  <2> QED
    BY <1>2, <1>5, <2>1, <2>2, <2>3, <2>5, <2>7
<1> HIDE DEF none, i, line, rest, j, header, content, length, data, body
<1> QED
  BY <1>1, <1>3, <1>4, <1>5

----------------------------------------------------------------------------
(* The invariant.                                                          *)

\* A complete request stands in the buffer.
Left == IF protocol = "rpc" THEN Framed(buffer, readIndex, writeIndex) ELSE Http!Decode(Unread).ok

\* None does from the end of Execute's loop to the next read: the coroutine
\* that waits for room to send will not look again before it has read.
Quiet == pc \in {"input", "output"} /\ In!Readable > 0 => ~Left

ConnInv == TypeOK /\ Quiet

\* The part of a vector of bytes between two indices as a sequence.
LEMMA PartIs ==
    ASSUME NEW b, NEW r, NEW w, Good(b, r, w)
    PROVE  /\ SubSeq(b, r + 1, w) \in Seq(Byte) /\ Len(SubSeq(b, r + 1, w)) = w - r /\ w - r \in Nat
           /\ \A i \in 1 .. w - r : SubSeq(b, r + 1, w)[i] = b[r + i]
<1>1. /\ r + 1 \in Int /\ w \in Int /\ r \in Int /\ r <= w
      /\ \A i \in r + 1 .. w : i \in 1 .. Len(b)
  BY DEF Good
<1>2. \A i \in r + 1 .. w : b[i] \in Byte
  BY <1>1, ElementOfSeq DEF Good
<1>3. /\ SubSeq(b, r + 1, w) \in Seq(Byte)
      /\ Len(SubSeq(b, r + 1, w)) = IF r + 1 <= w THEN w - (r + 1) + 1 ELSE 0
      /\ \A i \in 1 .. w - (r + 1) + 1 : SubSeq(b, r + 1, w)[i] = b[r + 1 + i - 1]
  BY <1>1, <1>2, SubSeqProperties
<1>4. Len(SubSeq(b, r + 1, w)) = w - r /\ w - (r + 1) + 1 = w - r
  BY <1>1, <1>3
<1>5. ASSUME NEW i \in 1 .. w - r PROVE SubSeq(b, r + 1, w)[i] = b[r + i]
  <2>1. i \in 1 .. w - (r + 1) + 1 /\ r + 1 + i - 1 = r + i
    BY <1>1, <1>4
  <2>2. SubSeq(b, r + 1, w)[i] = b[r + 1 + i - 1]
    BY <1>3, <2>1
  <2> QED
    BY <2>1, <2>2
<1>6. w - r \in Nat
  BY <1>1
<1> QED
  BY <1>3, <1>4, <1>5, <1>6

\* The unread bytes are those between the two indices.
LEMMA UnreadIs ==
    ASSUME Good(buffer, readIndex, writeIndex)
    PROVE  /\ Unread \in Seq(Byte) /\ Len(Unread) = writeIndex - readIndex /\ Len(Unread) \in Nat
           /\ \A i \in 1 .. Len(Unread) : Unread[i] = buffer[readIndex + i]
BY PartIs DEF Unread

\* The same of the next state.
LEMMA UnreadNext ==
    ASSUME Good(buffer', readIndex', writeIndex')
    PROVE  /\ Unread' \in Seq(Byte) /\ Len(Unread') = writeIndex' - readIndex'
           /\ \A i \in 1 .. Len(Unread') : Unread'[i] = buffer'[readIndex' + i]
BY PartIs DEF Unread

\* What Decode takes is in the buffer, and it takes nothing when it fails.
LEMMA DecodedTakes ==
    ASSUME TypeOK, PackagesFit, pc = "execute", NEW stray \in Strays
    PROVE  /\ Decoded(stray).take \in 0 .. writeIndex - readIndex
           /\ ~Decoded(stray).ok => Decoded(stray).take = 0 /\ ~Left
<1>1. Good(buffer, readIndex, writeIndex)
  BY GoodIs DEF TypeOK
<1>2. stray \in Byte
  BY TcpConnectionAssumption DEF TcpConnectionAssumption, Byte
<1>3. CASE protocol = "rpc"
  <2> DEFINE ints == Rpc!Ints(buffer, readIndex, writeIndex, stray)
             starts == Rpc!Starts(buffer, readIndex, writeIndex, ints, stray)
             decoded == Rpc!Decode(buffer, readIndex, writeIndex, stray)
  <2>1. Decoded(stray) = decoded
    BY <1>3 DEF Decoded
  <2>2. \A i \in starts :
          IF i + 1 + Rpc!IntSize <= writeIndex
          THEN Rpc!DecodeFields(buffer, ints, i, i + ints[i + 1] - 1).ok
          ELSE ints[i + 1] >= 0
    BY <1>3 DEF PackagesFit
  <2>3. 0 \in 0 .. writeIndex - readIndex
    BY <1>1 DEF Good
  <2>4. CASE decoded.ok
    <3>1. decoded.take \in 0 .. writeIndex - readIndex
      BY <1>1, <1>2, <2>4, DecodeFinds
    <3> QED
      BY <2>1, <2>4, <3>1
  <2>5. CASE starts = {}
    <3>1. decoded = Rpc!Failed(0)
      BY Zenon, <2>5 DEF Rpc!Decode
    <3>2. ~Framed(buffer, readIndex, writeIndex)
      BY <1>1, <2>5, FramedStarts
    <3> QED
      BY <1>3, <2>1, <2>3, <3>1, <3>2 DEF Rpc!Failed, Left
  <2>6. CASE starts # {} /\ ~decoded.ok
    <3> DEFINE start == Rpc!Min(starts)
    <3>1. decoded = Rpc!DecodeFields(buffer, ints, start, start + ints[start + 1] - 1)
      BY Zenon, <2>6 DEF Rpc!Decode
    <3>2. starts \in SUBSET Nat
      BY <1>1 DEF Rpc!Starts, Good
    <3>3. start \in starts /\ \A i \in starts : start <= i
      <4> HIDE DEF starts
      <4> QED
        BY <2>6, <3>2, MinOfSet DEF Rpc!Min, Min
    <3> HIDE DEF start
    <3>4. ~(start + 1 + Rpc!IntSize <= writeIndex) /\ ints[start + 1] >= 0
      <4> HIDE DEF ints, starts, decoded
      <4> QED
        BY <2>2, <2>6, <3>1, <3>3
    <3>5. decoded = Rpc!Failed(0)
      BY Zenon, <1>1, <1>2, <3>1, <3>3, <3>4, PartialTakesNothing
    <3>6. ~Framed(buffer, readIndex, writeIndex)
      <4> SUFFICES ASSUME Framed(buffer, readIndex, writeIndex) PROVE FALSE
        OBVIOUS
      <4>1. PICK i \in readIndex .. writeIndex - 5 : i \in starts
        BY <1>1, FramedStarts
      <4> HIDE DEF starts
      <4> QED
        BY <1>1, <3>2, <3>3, <3>4, <4>1 DEF Good, Rpc!IntSize
    <3> HIDE DEF decoded
    <3> QED
      BY <1>3, <2>1, <2>3, <3>5, <3>6 DEF Rpc!Failed, Left
  <2> QED
    BY <2>4, <2>5, <2>6
<1>4. CASE protocol # "rpc"
  BY <1>1, <1>4, UnreadIs, HttpTakes DEF Decoded, Left
<1> QED
  BY <1>3, <1>4

\* Requests are bytes, and finitely many.
LEMMA StreamIs ==
    ASSUME protocol \in {"rpc", "http"}, stream \in Streams[protocol]
    PROVE  Len(stream) \in Nat /\ \A i \in 1 .. Len(stream) : BytesOf(stream[i]) \in Seq(Byte)
<1>1. \A S : stream \in UNION {[1 .. k -> S] : k \in 0 .. MaxStream} => stream \in Seq(S)
  <2> SUFFICES ASSUME NEW S, NEW k \in 0 .. MaxStream, stream \in [1 .. k -> S] PROVE stream \in Seq(S)
    OBVIOUS
  <2>1. k \in Nat
    BY TcpConnectionAssumption DEF TcpConnectionAssumption
  <2> QED
    BY <2>1
<1>2. stream \in Seq(RpcRequests) \/ stream \in Seq(HttpRequests)
  <2>1. CASE protocol = "rpc"
    <3>1. Streams[protocol] = UNION {[1 .. k -> RpcRequests] : k \in 0 .. MaxStream}
      BY <2>1 DEF Streams
    <3> QED
      BY <1>1, <3>1
  <2>2. CASE protocol = "http"
    <3>1. Streams[protocol] = UNION {[1 .. k -> HttpRequests] : k \in 0 .. MaxStream}
      BY <2>2 DEF Streams
    <3> QED
      BY <1>1, <3>1
  <2> QED
    BY <2>1, <2>2
<1>3. Len(stream) \in Nat /\ \A i \in 1 .. Len(stream) : stream[i] \in RpcRequests \cup HttpRequests
  BY <1>2
<1> QED
  BY <1>3, RequestsAreBytes DEF RequestsAreBytes, Byte

----------------------------------------------------------------------------
(* The steps.                                                              *)

\* A new connection has an empty buffer.
LEMMA InitInv == Init => ConnInv
<1> SUFFICES ASSUME Init PROVE ConnInv
  OBVIOUS
<1>1. InitSize \in Nat \ {0}
  BY TcpConnectionAssumption DEF TcpConnectionAssumption
<1>2. buffer = [i \in 1 .. InitSize |-> 0] /\ readIndex = 0 /\ writeIndex = 0
  BY DEF Init, In!BufferInit
<1>3. buffer \in Seq(Byte) /\ Len(buffer) = InitSize
  <2>1. 0 \in Byte
    BY DEF Byte
  <2>2. buffer \in [1 .. InitSize -> Byte]
    BY <1>2, <2>1
  <2> QED
    BY <1>1, <1>2, <2>2
<1>4. Good(buffer, readIndex, writeIndex)
  BY <1>1, <1>2, <1>3 DEF Good
<1>5. Len(stream) \in Nat
  BY StreamIs DEF Init
<1>6. TypeOK
  BY <1>4, <1>5, GoodIs DEF TypeOK, Init
<1>7. Quiet
  BY <1>2 DEF Quiet, In!Readable
<1> QED
  BY <1>6, <1>7 DEF ConnInv

\* Quiet is about the buffer and the coroutine.
LEMMA QuietKept ==
    ASSUME Quiet, UNCHANGED <<protocol, buffer, readIndex, writeIndex>>,
           pc' \in {"input", "output"} => pc \in {"input", "output"}
    PROVE  Quiet'
BY DEF Quiet, Left, Unread, In!Readable

\* What the peer, the wheel and other connections do leaves the buffer alone.
LEMMA PeerKeeps ==
    ASSUME ConnInv, PeerSend \/ PeerClose \/ WheelShutdown \/ OtherConnection
    PROVE  ConnInv'
<1>1. CASE PeerSend
  <2>1. Len(stream) \in Nat /\ written \in 0 .. Len(stream) /\ written < Len(stream) /\ written' = written + 1
    BY <1>1, StreamIs DEF ConnInv, TypeOK, PeerSend
  <2>2. written' \in 1 .. Len(stream)
    BY <2>1
  <2>3. wire \in Seq(0 .. 255) /\ BytesOf(stream[written']) \in Seq(0 .. 255)
    BY <2>2, StreamIs DEF ConnInv, TypeOK, Byte
  <2>4. wire' \in Seq(0 .. 255)
    BY <1>1, <2>3, ConcatProperties DEF PeerSend
  <2>5. TypeOK'
    BY <1>1, <2>1, <2>2, <2>4 DEF ConnInv, TypeOK, PeerSend, bufferVars, In!BufferTypeOK, In!IndicesInRange
  <2> QED
    BY <1>1, <2>5, QuietKept DEF ConnInv, PeerSend, bufferVars
<1>2. CASE PeerClose
  <2>1. TypeOK'
    BY <1>2 DEF ConnInv, TypeOK, PeerClose, bufferVars, In!BufferTypeOK, In!IndicesInRange
  <2> QED
    BY <1>2, <2>1, QuietKept DEF ConnInv, PeerClose, bufferVars
<1>3. CASE WheelShutdown \/ OtherConnection
  <2>1. /\ UNCHANGED <<protocol, stream, written, wire, peerOpen, buffer, readIndex, writeIndex, pc>>
        /\ state' = state \/ (state = "Connected" /\ state' = "HalfClosing")
    BY <1>3 DEF WheelShutdown, OtherConnection, bufferVars, peerVars
  <2>2. TypeOK'
    BY <2>1 DEF ConnInv, TypeOK, In!BufferTypeOK, In!IndicesInRange
  <2> QED
    BY <2>1, <2>2, QuietKept DEF ConnInv
<1> QED
  BY <1>1, <1>2, <1>3

\* A received part goes to the end of the buffer; with it Input ends, or the buffer was filled.
LEMMA RecvKeeps ==
    ASSUME ConnInv, Recv
    PROVE  ConnInv'
<1>1. PICK n \in 1 .. Min({In!Room, Len(wire)}) :
        /\ wire' = SubSeq(wire, n + 1, Len(wire))
        /\ In!Receive(SubSeq(wire, 1, n))
        /\ pc' = IF n = In!Room THEN "again" ELSE "execute"
  BY DEF Recv
<1>2. wire \in Seq(Byte) /\ Len(wire) \in Nat /\ Good(buffer, readIndex, writeIndex) /\ InitSize \in Nat
  BY GoodIs, TcpConnectionAssumption DEF ConnInv, TypeOK, Byte, TcpConnectionAssumption
<1>3. n \in 1 .. Len(wire)
  <2>1. In!Room \in Nat
    <3>1. CASE In!Writeable = 0
      <4>1. 2 * Len(buffer) \in Nat /\ writeIndex - readIndex \in Nat /\ writeIndex - readIndex <= 2 * Len(buffer)
        BY <1>2 DEF Good
      <4>2. {2 * Len(buffer), writeIndex - readIndex} \in SUBSET Nat
        BY <4>1
      <4>3. \A m \in {2 * Len(buffer), writeIndex - readIndex} : writeIndex - readIndex <= m
        BY <4>1
      <4>4. In!Min({2 * Len(buffer), In!Readable}) = writeIndex - readIndex
        BY <4>2, <4>3, MinIsOne DEF In!Readable, Min, In!Min
      <4> QED
        BY <3>1, <4>1, <4>4 DEF In!Room
    <3>2. CASE In!Writeable # 0
      BY <1>2, <3>2 DEF In!Room, In!Writeable, Good
    <3> QED
      BY <3>1, <3>2
  <2>2. Min({In!Room, Len(wire)}) \in {In!Room, Len(wire)} /\ Min({In!Room, Len(wire)}) <= Len(wire)
    BY <1>2, <2>1, MinOfSet
  <2>3. Min({In!Room, Len(wire)}) \in Nat
    BY <1>2, <2>1, <2>2
  <2> QED
    BY <1>1, <1>2, <2>2, <2>3
<1>4. SubSeq(wire, 1, n) \in Seq(Byte) /\ wire' \in Seq(Byte)
  BY <1>1, <1>2, <1>3, SubSeqProperties
<1>5. Good(buffer', readIndex', writeIndex')
  BY <1>1, <1>2, <1>4, ReceiveKeeps
<1>6. In!BufferTypeOK'
  BY <1>5, GoodNext
<1>7. TypeOK'
  BY <1>1, <1>4, <1>6 DEF ConnInv, TypeOK, Recv, replyVars, Byte
<1>8. Quiet'
  BY <1>1 DEF Quiet
<1> QED
  BY <1>7, <1>8 DEF ConnInv

\* Execute goes on while it finds requests, and leaves none when it ends.
LEMMA ExecuteKeeps ==
    ASSUME ConnInv, PackagesFit, Execute
    PROVE  ConnInv'
<1>1. PICK stray \in Strays :
        IF In!Readable > 0 /\ Decoded(stray).ok
        THEN /\ In!RecycleRead(Decoded(stray).take) /\ Dispatch(Decoded(stray).data) /\ UNCHANGED pc
        ELSE /\ In!RecycleRead(Decoded(stray).take) /\ pc' = "output" /\ UNCHANGED <<state, replyVars>>
  BY DEF Execute
<1>2. /\ Decoded(stray).take \in 0 .. writeIndex - readIndex
      /\ ~Decoded(stray).ok => Decoded(stray).take = 0 /\ ~Left
  BY DecodedTakes DEF ConnInv, Execute
<1>3. /\ Good(buffer, readIndex, writeIndex) /\ In!RecycleRead(Decoded(stray).take)
  BY <1>1, GoodIs DEF ConnInv, TypeOK
<1>4. /\ Good(buffer', readIndex', writeIndex')
      /\ Alike(buffer, readIndex + Decoded(stray).take, writeIndex, buffer', readIndex', writeIndex')
  BY <1>2, <1>3, RecycleReadKeeps
<1>5. TypeOK'
  <2>1. In!BufferTypeOK'
    BY <1>4, GoodNext
  <2>2. pc = "execute" /\ state # "Closed" /\ pc' \in {"execute", "output"} /\ UNCHANGED <<protocol, peerVars>>
    BY <1>1 DEF Execute, ConnInv, TypeOK
  <2>3. state' \in {"Connected", "HalfClosing"}
    <3>1. state \in {"Connected", "HalfClosing"}
      BY <2>2 DEF ConnInv, TypeOK
    <3> QED
      BY <1>1, <3>1 DEF Dispatch, replyVars
  <2> QED
    BY <2>1, <2>2, <2>3 DEF ConnInv, TypeOK, peerVars
<1>6. Quiet'
  <2> SUFFICES ASSUME pc' \in {"input", "output"}, In!Readable' > 0 PROVE ~Left'
    BY DEF Quiet
  <2>1. pc = "execute" /\ UNCHANGED protocol
    BY DEF Execute
  <2>2. ~(In!Readable > 0 /\ Decoded(stray).ok)
    BY <1>1, <2>1
  <2>3. Decoded(stray).take = 0 /\ ~Decoded(stray).ok
    <3>1. CASE ~Decoded(stray).ok
      BY <1>2, <3>1
    <3>2. CASE ~(In!Readable > 0)
      <4>1. writeIndex - readIndex = 0
        BY <1>3, <3>2 DEF Good, In!Readable
      <4> DEFINE n == Decoded(stray).take
      <4>2. n = 0
        BY <1>2, <4>1
      <4>3. writeIndex' - readIndex' = writeIndex - (readIndex + n)
        BY <1>4 DEF Alike
      <4>4. writeIndex' - readIndex' = 0
        BY <1>3, <4>1, <4>2, <4>3 DEF Good
      <4>5. writeIndex' - readIndex' > 0
        BY DEF In!Readable
      <4> QED
        BY <4>4, <4>5
    <3> QED
      BY <2>2, <3>1, <3>2
  <2>4. /\ Alike(buffer, readIndex, writeIndex, buffer', readIndex', writeIndex')
        /\ ~Left
    BY <1>2, <1>3, <1>4, <2>3 DEF Good
  <2>5. CASE protocol = "rpc"
    BY <1>3, <1>4, <2>1, <2>4, <2>5, FramedMoves DEF Left
  <2>6. CASE protocol # "rpc"
    <3>1. /\ Unread \in Seq(Byte) /\ Len(Unread) = writeIndex - readIndex
          /\ \A i \in 1 .. Len(Unread) : Unread[i] = buffer[readIndex + i]
      BY <1>3, UnreadIs
    <3>2. /\ Unread' \in Seq(Byte) /\ Len(Unread') = writeIndex' - readIndex'
          /\ \A i \in 1 .. Len(Unread') : Unread'[i] = buffer'[readIndex' + i]
      BY <1>4, UnreadNext
    <3>3. Unread' = Unread
      BY <2>4, <3>1, <3>2, SeqEqual DEF Alike
    <3> QED
      BY <2>1, <2>4, <2>6, <3>3 DEF Left
  <2> QED
    BY <2>5, <2>6
<1> QED
  BY <1>5, <1>6 DEF ConnInv

\* The coroutine's other steps leave the buffer alone.
LEMMA OtherKeeps ==
    ASSUME ConnInv, RecvEnd \/ Output \/ OutputDone \/ UNCHANGED vars
    PROVE  ConnInv'
<1>1. /\ UNCHANGED <<protocol, peerVars, buffer, readIndex, writeIndex>>
      /\ pc' \in {"input", "output"} => pc \in {"input", "output"}
      /\ \/ pc' = "gone" /\ state' = "Closed"
         \/ UNCHANGED <<pc, state>>
         \/ pc = "output" /\ pc' = "input" /\ UNCHANGED state
  BY DEF RecvEnd, Output, OutputDone, vars, bufferVars
<1>2. TypeOK'
  BY <1>1 DEF ConnInv, TypeOK, peerVars, In!BufferTypeOK, In!IndicesInRange
<1> QED
  BY <1>1, <1>2, QuietKept DEF ConnInv

----------------------------------------------------------------------------
(* The theorems.                                                           *)

\* Every step keeps the invariant.
LEMMA NextKeeps == ConnInv /\ PackagesFit /\ [Next]_vars => ConnInv'
BY PeerKeeps, RecvKeeps, ExecuteKeeps, OtherKeeps DEF Next, Coroutine

\* When the coroutine waits for data no stray byte makes a request of what is left.
LEMMA ConnInvSound == ConnInv => Sound
<1> SUFFICES ASSUME ConnInv, pc = "input", In!Readable > 0, NEW stray \in Strays, Decoded(stray).ok
             PROVE  FALSE
  BY DEF ConnInv, Sound, NoRequestLeftBehind
<1>1. Good(buffer, readIndex, writeIndex) /\ ~Left
  BY GoodIs DEF ConnInv, TypeOK, Quiet
<1>2. stray \in Byte
  BY TcpConnectionAssumption DEF TcpConnectionAssumption, Byte
<1> QED
  BY <1>1, <1>2, DecodeFinds DEF Decoded, Left

\* TcpConnection's buffer keeps its shape and its coroutine never waits with a
\* complete request in the buffer, however reads cut the bytes and wherever the
\* buffer's contents are moved to, as long as the packages of an rpc peer fit.
THEOREM SoundHolds == Spec /\ []PackagesFit => []Sound
BY InitInv, NextKeeps, ConnInvSound, PTL DEF Spec

\* Of an http peer nothing is assumed.
THEOREM HttpSoundHolds == Spec /\ protocol = "http" => []Sound
<1>1. protocol = "http" /\ [Next]_vars => (protocol = "http")'
  BY DEF Next, Coroutine, PeerSend, PeerClose, WheelShutdown, OtherConnection, Recv, RecvEnd, Execute, Output, OutputDone, vars
<1>2. protocol = "http" => PackagesFit
  BY DEF PackagesFit
<1> QED
  BY <1>1, <1>2, SoundHolds, PTL DEF Spec

----------------------------------------------------------------------------
(* The replies: for any bytes.                                             *)

\* A sequence, of whatever it consists of.
IsSeq(s) == s \in Seq(ToSet(s))

\* A sequence is one of its own elements.
LEMMA SeqIs ==
    ASSUME NEW S, NEW s \in Seq(S)
    PROVE  IsSeq(s)
<1>1. s \in [1 .. Len(s) -> S] /\ Len(s) \in Nat /\ DOMAIN s = 1 .. Len(s)
  OBVIOUS
<1>2. \A i \in 1 .. Len(s) : s[i] \in ToSet(s)
  BY <1>1 DEF ToSet
<1>3. s \in [1 .. Len(s) -> ToSet(s)]
  BY <1>1, <1>2
<1> QED
  BY <1>1, <1>3 DEF IsSeq

\* And over every set that has its elements.
LEMMA SeqIn ==
    ASSUME NEW s, IsSeq(s), NEW S, ToSet(s) \subseteq S
    PROVE  s \in Seq(S)
BY DEF IsSeq

\* Three sequences are sequences over one set.
LEMMA SeqsOf ==
    ASSUME NEW s, NEW t, NEW u, IsSeq(s), IsSeq(t), IsSeq(u)
    PROVE  \E S : s \in Seq(S) /\ t \in Seq(S) /\ u \in Seq(S)
<1> DEFINE S == ToSet(s) \cup ToSet(t) \cup ToSet(u)
<1>1. ToSet(s) \subseteq S /\ ToSet(t) \subseteq S /\ ToSet(u) \subseteq S
  OBVIOUS
<1> HIDE DEF S
<1> QED
  BY <1>1, SeqIn

\* The dispatchers answer with a sequence.
LEMMA ReplyIs == ASSUME NEW data PROVE IsSeq(Reply(data))
<1>1. \A x : <<x>> \in Seq({x})
  OBVIOUS
<1>2. <<>> \in Seq({})
  OBVIOUS
<1>3. IsSeq(RpcReply(data))
  <2>1. RpcReply(data) = <<>> \/ \E x : RpcReply(data) = <<x>>
    BY Zenon DEF RpcReply
  <2> QED
    BY <1>1, <1>2, <2>1, SeqIs
<1>4. IsSeq(HttpReply(data))
  <2>1. HttpReply(data) = <<>> \/ \E x : HttpReply(data) = <<x>>
    BY Zenon DEF HttpReply
  <2> QED
    BY <1>1, <1>2, <2>1, SeqIs
<1> QED
  BY <1>3, <1>4 DEF Reply

Grown(s, data) == s \o Reply(data)

\* RepliesUpTo is the function its definition asks for.
LEMMA RepliesAre ==
    ASSUME NEW h, IsSeq(h)
    PROVE  /\ Channel!RepliesUpTo(h)[0] = <<>>
           /\ \A i \in 1 .. Len(h) :
                Channel!RepliesUpTo(h)[i] = Grown(Channel!RepliesUpTo(h)[i - 1], h[i])
           /\ \A i \in 0 .. Len(h) : IsSeq(Channel!RepliesUpTo(h)[i])
<1> DEFINE n == Len(h)
           U == UNION {ToSet(Reply(h[i])) : i \in 1 .. n}
           Made(g, k) == \A i \in 0 .. k : g[i] = IF i = 0 THEN <<>> ELSE Grown(g[i - 1], h[i])
           Fits == {k \in 0 .. n : \E g \in [0 .. k -> Seq(U)] : Made(g, k)}
<1>1. n \in Nat /\ \A i \in 1 .. n : Reply(h[i]) \in Seq(U)
  <2>1. n \in Nat
    BY DEF IsSeq
  <2>2. ASSUME NEW i \in 1 .. n PROVE Reply(h[i]) \in Seq(U)
    <3>1. ToSet(Reply(h[i])) \subseteq U
      OBVIOUS
    <3> HIDE DEF U
    <3> QED
      BY <3>1, ReplyIs, SeqIn
  <2> QED
    BY <2>1, <2>2
<1> HIDE DEF n, U
<1>2. 0 \in Fits
  <2> DEFINE g == [i \in 0 .. 0 |-> <<>>]
  <2>1. <<>> \in Seq(U)
    OBVIOUS
  <2>2. g \in [0 .. 0 -> Seq(U)]
    BY <2>1
  <2>3. Made(g, 0)
    OBVIOUS
  <2>4. \E f \in [0 .. 0 -> Seq(U)] : Made(f, 0)
    <3> HIDE DEF Made, g
    <3> QED
      BY <2>2, <2>3
  <2> HIDE DEF Made
  <2> QED
    BY <1>1, <2>4
<1>3. \A i \in 1 .. n : i - 1 \in Fits => i \in Fits
  <2> SUFFICES ASSUME NEW k \in 1 .. n, k - 1 \in Fits PROVE k \in Fits
    OBVIOUS
  <2>0. PICK g \in [0 .. k - 1 -> Seq(U)] : Made(g, k - 1)
    <3> HIDE DEF Made
    <3> QED
      OBVIOUS
  <2> DEFINE last == Grown(g[k - 1], h[k])
             f == [i \in 0 .. k |-> IF i < k THEN g[i] ELSE last]
  <2>1. last \in Seq(U)
    <3>1. g[k - 1] \in Seq(U) /\ Reply(h[k]) \in Seq(U)
      BY <1>1, <2>0
    <3> QED
      BY <3>1, ConcatProperties DEF Grown
  <2>2. f \in [0 .. k -> Seq(U)]
    <3>1. \A i \in 0 .. k : i < k => g[i] \in Seq(U)
      BY <1>1, <2>0
    <3> HIDE DEF last, Made
    <3> QED
      BY <2>1, <3>1
  <2>3. \A i \in 0 .. k - 1 : f[i] = g[i] /\ (i # 0 => i - 1 \in 0 .. k - 1 /\ f[i - 1] = g[i - 1])
    BY <1>1
  <2>4. f[k] = Grown(f[k - 1], h[k])
    BY <1>1
  <2>5. \A i \in 0 .. k - 1 : f[i] = IF i = 0 THEN <<>> ELSE Grown(f[i - 1], h[i])
    BY <2>0, <2>3
  <2>6. k # 0 /\ k \in 0 .. n /\ \A i \in 0 .. k : i = k \/ i \in 0 .. k - 1
    BY <1>1
  <2> HIDE DEF f
  <2>7. Made(f, k)
    BY <2>4, <2>5, <2>6
  <2> HIDE DEF Made
  <2>8. \E e \in [0 .. k -> Seq(U)] : Made(e, k)
    BY <2>2, <2>7
  <2> QED
    BY <2>6, <2>8
<1>4. Fits = 0 .. n
  <2>1. Fits \in SUBSET (0 .. n)
    OBVIOUS
  <2> HIDE DEF Fits
  <2> QED
    BY <1>1, <1>2, <1>3, <2>1, UpTo
<1>5. PICK g \in [0 .. n -> Seq(U)] : Made(g, n)
  <2>1. n \in Fits
    <3> HIDE DEF Fits
    <3> QED
      BY <1>1, <1>4
  <2> HIDE DEF Made
  <2> QED
    BY <2>1
<1>6. g = [i \in 0 .. n |-> IF i = 0 THEN <<>> ELSE Grown(g[i - 1], h[i])]
  BY <1>5
<1> DEFINE v == Channel!RepliesUpTo(h)
<1>7. v = [i \in 0 .. n |-> IF i = 0 THEN <<>> ELSE Grown(v[i - 1], h[i])]
  <2> DEFINE IsMade(u) == u = [i \in 0 .. n |-> IF i = 0 THEN <<>> ELSE Grown(u[i - 1], h[i])]
  <2>1. IsMade(g)
    BY <1>6
  <2>2. v = CHOOSE u : IsMade(u)
    BY DEF Channel!RepliesUpTo, n, Grown
  <2> HIDE DEF IsMade, v
  <2>3. IsMade(v)
    BY <2>1, <2>2
  <2> QED
    BY <2>3 DEF IsMade
<1> HIDE DEF v
<1>8. \A i \in 0 .. n : v[i] = IF i = 0 THEN <<>> ELSE Grown(v[i - 1], h[i])
  BY <1>7
<1>9. v[0] = <<>> /\ \A i \in 1 .. n : v[i] = Grown(v[i - 1], h[i])
  BY <1>1, <1>8
<1>10. \A i \in 0 .. n : v[i] \in Seq(U)
  <2> DEFINE R == Seq(U)
             Seqs == {i \in 0 .. n : v[i] \in R}
  <2>0. <<>> \in R /\ \A r \in R : \A i \in 1 .. n : Grown(r, h[i]) \in R
    <3>1. ASSUME NEW r \in R, NEW i \in 1 .. n PROVE Grown(r, h[i]) \in R
      BY <1>1, ConcatProperties DEF Grown
    <3> QED
      BY <3>1
  <2> HIDE DEF R
  <2>1. 0 \in Seqs
    BY <1>1, <1>9, <2>0
  <2>2. \A i \in 1 .. n : i - 1 \in Seqs => i \in Seqs
    BY <1>1, <1>9, <2>0
  <2>3. Seqs \in SUBSET (0 .. n)
    OBVIOUS
  <2>4. Seqs = 0 .. n
    <3> HIDE DEF Seqs
    <3> QED
      BY <1>1, <2>1, <2>2, <2>3, UpTo
  <2> QED
    BY <2>4 DEF R
<1>11. \A i \in 0 .. n : IsSeq(v[i])
  BY <1>10, SeqIs
<1> QED
  BY <1>9, <1>11 DEF n, v

\* One more request adds its replies.
LEMMA RepliesGrow ==
    ASSUME NEW h, IsSeq(h), NEW data
    PROVE  /\ IsSeq(Append(h, data))
           /\ Channel!RepliesTo(Append(h, data)) = Channel!RepliesTo(h) \o Reply(data)
<1> DEFINE H == ToSet(h) \cup {data}
           more == Append(h, data)
           v == Channel!RepliesUpTo(h)
           w == Channel!RepliesUpTo(more)
           Same == {i \in 0 .. Len(h) : w[i] = v[i]}
<1>1. h \in Seq(H) /\ data \in H
  <2>1. ToSet(h) \subseteq H /\ data \in H
    OBVIOUS
  <2> HIDE DEF H
  <2> QED
    BY <2>1, SeqIn
<1>2. /\ more \in Seq(H) /\ Len(h) \in Nat /\ Len(more) = Len(h) + 1
      /\ (\A i \in 1 .. Len(h) : more[i] = h[i]) /\ more[Len(h) + 1] = data
  <2> HIDE DEF H
  <2> QED
    BY <1>1, AppendProperties
<1>3. IsSeq(more)
  BY <1>2, SeqIs
<1> HIDE DEF more, H
<1>4. v[0] = <<>> /\ \A i \in 1 .. Len(h) : v[i] = Grown(v[i - 1], h[i])
  BY RepliesAre
<1>5. w[0] = <<>> /\ \A i \in 1 .. Len(more) : w[i] = Grown(w[i - 1], more[i])
  BY <1>3, RepliesAre
<1> HIDE DEF v, w
<1>6. Same = 0 .. Len(h)
  <2>1. 0 \in Same
    BY <1>2, <1>4, <1>5
  <2>2. \A i \in 1 .. Len(h) : i - 1 \in Same => i \in Same
    BY <1>2, <1>4, <1>5
  <2>3. Same \in SUBSET (0 .. Len(h))
    OBVIOUS
  <2> HIDE DEF Same
  <2> QED
    BY <1>2, <2>1, <2>2, <2>3, UpTo
<1>7. w[Len(h)] = v[Len(h)]
  <2>1. Len(h) \in Same
    BY <1>2, <1>6
  <2> QED
    BY <2>1
<1>8. w[Len(more)] = Grown(w[Len(h)], data)
  <2>1. Len(more) \in 1 .. Len(more) /\ Len(more) - 1 = Len(h) /\ more[Len(more)] = data
    BY <1>2
  <2> QED
    BY <1>5, <2>1
<1> QED
  BY <1>3, <1>7, <1>8 DEF Channel!RepliesTo, v, w, more, Grown

\* An http request has no number of an rpc package.
LEMMA HttpData ==
    ASSUME NEW s, Http!Decode(s).ok
    PROVE  "seq" \notin DOMAIN Http!Decode(s).data
<1> DEFINE i == Http!Min(Http!LineEnds(s))
           line == SubSeq(s, 1, i - 1)
           rest == SubSeq(s, i + 1, Len(s))
           j == Http!Min(Http!HeaderEnds(rest))
           header == SubSeq(rest, 1, j - 1)
           content == SubSeq(rest, j + 2, Len(rest))
           length == Http!ContentLength(header)
           data == Http!Lines[line[1] - Http!LineBase]
           body == IF data.method = "POST" THEN length ELSE 0
           none == [method |-> "", version |-> "", path |-> Http!NoPath]
<1>1. Http!Decode(s) =
        CASE Http!LineEnds(s) = {} -> Http!Failed
          [] i = Len(s) -> [ok |-> TRUE, take |-> 0, data |-> none]
          [] ~Http!ParseHttpRequestLine(line) -> Http!Failed
          [] Http!HeaderEnds(rest) = {} -> Http!Failed
          [] Len(content) < length -> Http!Failed
          [] OTHER -> [ok |-> TRUE, take |-> i + j + 1 + body, data |-> data]
  BY Zenon DEF Http!Decode
<1>2. CASE Http!Decode(s) = Http!Failed
  BY <1>2 DEF Http!Failed
<1>3. CASE Http!Decode(s) = [ok |-> TRUE, take |-> 0, data |-> none]
  <2>1. "seq" \notin DOMAIN none
    OBVIOUS
  <2> HIDE DEF none
  <2> QED
    BY <1>3, <2>1
<1>4. CASE /\ Http!ParseHttpRequestLine(line)
           /\ Http!Decode(s) = [ok |-> TRUE, take |-> i + j + 1 + body, data |-> data]
  <2>1. line[1] - Http!LineBase \in 1 .. 5
    BY <1>4 DEF Http!ParseHttpRequestLine, Http!Lines
  <2>2. \A k \in 1 .. 5 : "seq" \notin DOMAIN Http!Lines[k]
    BY DEF Http!Lines
  <2>3. "seq" \notin DOMAIN data
    BY <2>1, <2>2
  <2> HIDE DEF data, body, i, j
  <2> QED
    BY <1>4, <2>3
<1> HIDE DEF none, i, line, rest, j, header, content, length, data, body
<1> QED
  BY <1>1, <1>2, <1>3, <1>4

\* What was handled is answered, up to what is still to be sent.
AnswerInv ==
    /\ IsSeq(handled) /\ IsSeq(out) /\ IsSeq(replies)
    /\ replies \o out = Channel!RepliesTo(handled)

\* A new connection has handled and sent nothing.
LEMMA AnswerInit == Init => AnswerInv
<1> SUFFICES ASSUME Init PROVE AnswerInv
  OBVIOUS
<1>1. handled = <<>> /\ out = <<>> /\ replies = <<>>
  BY DEF Init
<1>2. <<>> \in Seq({})
  OBVIOUS
<1>3. IsSeq(<<>>)
  BY <1>2, SeqIs
<1>4. Channel!RepliesTo(<<>>) = <<>>
  <2>1. Len(<<>>) = 0
    OBVIOUS
  <2> QED
    BY <1>3, <2>1, RepliesAre DEF Channel!RepliesTo
<1>5. <<>> \o <<>> = <<>>
  BY <1>2, ConcatEmptySeq
<1> QED
  BY <1>1, <1>3, <1>4, <1>5 DEF AnswerInv

\* Dispatch appends the reply of the request it handles.
LEMMA DispatchAnswers ==
    ASSUME AnswerInv, NEW data, Dispatch(data), protocol = "http" => "seq" \notin DOMAIN data
    PROVE  AnswerInv'
<1> DEFINE reply == Reply(data)
<1>1. out' = out \o reply /\ replies' = replies
  BY DEF Dispatch
<1>2. PICK S : out \in Seq(S) /\ replies \in Seq(S) /\ reply \in Seq(S)
  BY ReplyIs, SeqsOf DEF AnswerInv
<1>3. handled' = Append(handled, data) \/ (handled' = handled /\ reply = <<>>)
  <2>1. CASE protocol = "http" /\ data.path = Http!NoPath
    <3>1. reply = <<>>
      BY <2>1 DEF Reply, HttpReply
    <3> HIDE DEF reply
    <3> QED
      BY <3>1 DEF Dispatch
  <2>2. CASE ~(protocol = "http" /\ data.path = Http!NoPath)
    <3> HIDE DEF reply
    <3> QED
      BY <2>2 DEF Dispatch
  <2> QED
    BY <2>1, <2>2
<1> HIDE DEF reply
<1>4. out' \in Seq(S) /\ replies \o out' = (replies \o out) \o reply
  BY <1>1, <1>2, ConcatProperties, ConcatAssociative
<1>5. CASE handled' = Append(handled, data)
  BY <1>1, <1>2, <1>4, <1>5, SeqIs, RepliesGrow DEF AnswerInv, reply
<1>6. CASE handled' = handled /\ reply = <<>>
  <2>1. out' = out
    BY <1>1, <1>2, <1>6, ConcatEmptySeq
  <2> QED
    BY <1>1, <1>6, <2>1 DEF AnswerInv
<1> QED
  BY <1>3, <1>5, <1>6

\* A sequence that starts with another has it as a prefix.
LEMMA PrefixIs ==
    ASSUME NEW S, NEW s \in Seq(S), NEW t \in Seq(S), Len(s) <= Len(t),
           \A i \in 1 .. Len(s) : t[i] = s[i]
    PROVE  IsPrefix(s, t)
<1>1. Len(s) \in Nat /\ Len(t) \in Nat /\ \A i \in 1 .. Len(s) : t[i] \in S /\ s[i] \in S
  OBVIOUS
<1>2. /\ SubSeq(s, 1, Len(s)) \in Seq(S) /\ SubSeq(t, 1, Len(s)) \in Seq(S)
      /\ Len(SubSeq(s, 1, Len(s))) = Len(s) /\ Len(SubSeq(t, 1, Len(s))) = Len(s)
      /\ \A i \in 1 .. Len(s) : SubSeq(s, 1, Len(s))[i] = s[i] /\ SubSeq(t, 1, Len(s))[i] = t[i]
  BY <1>1, SubSeqProperties
<1>3. SubSeq(s, 1, Len(s)) = SubSeq(t, 1, Len(s))
  BY <1>1, <1>2, SeqEqual
<1> QED
  BY <1>3 DEF IsPrefix

\* Output sends the next replies, in order.
LEMMA OutputAnswers ==
    ASSUME AnswerInv, Output
    PROVE  AnswerInv' /\ Channel!Answer
<1>1. PICK n \in DOMAIN out : replies' = replies \o SubSeq(out, 1, n) /\ out' = SubSeq(out, n + 1, Len(out))
  BY DEF Output
<1>2. PICK S : out \in Seq(S) /\ replies \in Seq(S)
  BY SeqsOf DEF AnswerInv
<1>3. n \in 1 .. Len(out) /\ Len(out) \in Nat /\ Len(replies) \in Nat
  BY <1>2
<1> DEFINE part == SubSeq(out, 1, n)
           rest == SubSeq(out, n + 1, Len(out))
<1>4. part \in Seq(S) /\ Len(part) = n /\ rest \in Seq(S)
  BY <1>2, <1>3, SubSeqProperties
<1>5. part \o rest = out
  <2>1. 1 \in 1 .. Len(out) + 1 /\ n \in 1 - 1 .. Len(out) /\ Len(out) \in n .. Len(out)
    BY <1>3
  <2>2. SubSeq(out, 1, Len(out)) = out
    BY <1>2, SubSeqFull
  <2> QED
    BY <1>2, <2>1, <2>2, ConcatAdjacentSubSeq
<1> HIDE DEF part, rest
<1>6. replies' = replies \o part /\ out' = rest
  BY <1>1 DEF part, rest
<1>7. /\ replies' \in Seq(S) /\ Len(replies') = Len(replies) + n
      /\ \A i \in 1 .. Len(replies) : replies'[i] = replies[i]
  BY <1>2, <1>3, <1>4, <1>6, ConcatProperties
<1>8. replies' \o out' = replies \o out
  <2>1. (replies \o part) \o rest = replies \o (part \o rest)
    BY ONLY <1>2, <1>4, ConcatAssociative
  <2> QED
    BY <1>5, <1>6, <2>1
<1>9. UNCHANGED <<handled, stream, written>>
  BY DEF Output, peerVars
<1>10. AnswerInv'
  BY <1>4, <1>6, <1>7, <1>8, <1>9, SeqIs DEF AnswerInv
<1>11. IsStrictPrefix(replies, replies')
  BY <1>2, <1>3, <1>7, PrefixIs DEF IsStrictPrefix
<1>12. IsPrefix(replies', Channel!RepliesTo(handled))
  <2> DEFINE all == replies' \o out'
  <2>1. /\ all \in Seq(S) /\ Len(replies') <= Len(all)
        /\ \A i \in 1 .. Len(replies') : all[i] = replies'[i]
    BY <1>4, <1>6, <1>7, ConcatProperties
  <2>2. all = Channel!RepliesTo(handled)
    BY <1>8 DEF AnswerInv
  <2> HIDE DEF all
  <2> QED
    BY <1>7, <2>1, <2>2, PrefixIs
<1> QED
  BY <1>9, <1>10, <1>11, <1>12 DEF Channel!Answer, Channel!IsPrefix, Channel!IsStrictPrefix, IsPrefix, IsStrictPrefix

\* Every step keeps the replies in order, and sends them only as the channel does.
LEMMA NextAnswers ==
    ASSUME AnswerInv, [Next]_vars
    PROVE  AnswerInv' /\ (UNCHANGED replies \/ Channel!Answer)
<1>1. CASE Output
  BY <1>1, OutputAnswers
<1>2. CASE Execute
  <2>1. PICK stray \in Strays :
          \/ Decoded(stray).ok /\ Dispatch(Decoded(stray).data)
          \/ UNCHANGED replyVars
    BY <1>2 DEF Execute
  <2>2. CASE UNCHANGED replyVars
    BY <2>2 DEF replyVars, AnswerInv
  <2>3. CASE Decoded(stray).ok /\ Dispatch(Decoded(stray).data)
    <3>1. protocol = "http" => "seq" \notin DOMAIN Decoded(stray).data
      BY <2>3, HttpData DEF Decoded
    <3>2. AnswerInv'
      BY <2>3, <3>1, DispatchAnswers
    <3> QED
      BY <2>3, <3>2 DEF Dispatch
  <2> QED
    BY <2>1, <2>2, <2>3
<1>3. CASE PeerSend \/ PeerClose \/ WheelShutdown \/ OtherConnection \/ Recv \/ RecvEnd \/ OutputDone \/ UNCHANGED vars
  <2>1. UNCHANGED <<handled, out, replies>>
    BY <1>3 DEF PeerSend, PeerClose, WheelShutdown, OtherConnection, Recv, RecvEnd, OutputDone, vars, replyVars
  <2> QED
    BY <2>1 DEF AnswerInv
<1> QED
  BY <1>1, <1>2, <1>3 DEF Next, Coroutine

\* The half of TcpConnection's refinement that does not depend on the bytes:
\* each send of Output is an Answer of RequestChannel, the next replies to what
\* was handled, and nothing else changes what the peer has received.
THEOREM AnswersInOrder == Spec => [][UNCHANGED replies \/ Channel!Answer]_vars
<1>1. AnswerInv /\ [Next]_vars => AnswerInv'
  BY NextAnswers
<1>2. AnswerInv /\ [Next]_vars => [UNCHANGED replies \/ Channel!Answer]_vars
  BY NextAnswers
<1> QED
  BY <1>1, <1>2, AnswerInit, PTL DEF Spec

=============================================================================
