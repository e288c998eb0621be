------------------------------ MODULE RpcCodec ------------------------------
(***************************************************************************)
(* TinyPbCodeC (rpc_codec.cpp): the bytes of a package and how Decode      *)
(* finds one in the read buffer.  Integers have the code's width: four     *)
(* bytes, most significant first, signed.  Strings are sequences of bytes. *)
(***************************************************************************)
EXTENDS Integers, Sequences, FiniteSetsExt

PB_START == 2
PB_END == 3

\* Where the fields of a package stand: two marks and six integers around them.
IntSize == 4
Overhead == 2 + 6 * IntSize

\* htonl, for the lengths and codes a program writes.
Int32(n) == <<n \div 16777216, (n \div 65536) % 256, (n \div 256) % 256, n % 256>>

\* Mutant: the length of the service's name counts a zero byte behind it.
EncodeNul(data) ==
    LET pk_len == Overhead + Len(data.seq) + Len(data.service)
                  + Len(data.err_info) + Len(data.pb)
    IN  IF data.service = <<>> THEN <<>>
        ELSE <<PB_START>> \o Int32(pk_len)
             \o Int32(Len(data.seq)) \o data.seq
             \o Int32(Len(data.service) + 1) \o data.service
             \o Int32(data.err) \o Int32(Len(data.err_info)) \o data.err_info
             \o data.pb \o Int32(1) \o <<PB_END>>

\* EncodePbData: the package of data, or nothing when it names no service.
Encode(data) ==
    LET pk_len == Overhead + Len(data.seq) + Len(data.service)
                  + Len(data.err_info) + Len(data.pb)
    IN  IF data.service = <<>> THEN <<>>
        ELSE <<PB_START>> \o Int32(pk_len)
             \o Int32(Len(data.seq)) \o data.seq
             \o Int32(Len(data.service)) \o data.service
             \o Int32(data.err) \o Int32(Len(data.err_info)) \o data.err_info
             \o data.pb \o Int32(1) \o <<PB_END>>

\* The byte at index i (from 0) of a vector; Decode looks at bytes that have
\* not arrived, and past the vector's ends, where it may find any byte.
ByteAt(b, i, stray) == IF i + 1 \in DOMAIN b THEN b[i + 1] ELSE stray

\* GetInt32FromNetByte at every index that Decode may ask for, as signed numbers.
Ints(b, r, w, stray) ==
    [i \in r .. w + IntSize |->
        LET top == ByteAt(b, i, stray) IN
        (IF top < 128 THEN top ELSE top - 256) * 16777216
        + ByteAt(b, i + 1, stray) * 65536
        + ByteAt(b, i + 2, stray) * 256
        + ByteAt(b, i + 3, stray)]

\* Indices of start marks whose length leads to an end mark that has arrived.
Starts(b, r, w, ints, stray) ==
    {i \in r .. w - 2 :
        /\ b[i + 1] = PB_START
        /\ i + ints[i + 1] - 1 < w
        /\ ByteAt(b, i + ints[i + 1] - 1, stray) = PB_END}

Failed(take) == [ok |-> FALSE, take |-> take]

\* Decode copies the texts to zeroed arrays on its stack, and what std::string
\* takes of an array ends at the first zero byte.
SeqArray == 50
TextArray == 512
UpToNul(text) ==
    LET zeros == {i \in DOMAIN text : text[i] = 0} IN
    IF zeros = {} THEN text ELSE SubSeq(text, 1, Min(zeros) - 1)

\* The fields of the package from start to end: each index is checked against
\* the end before what stands there is read.  The code does not check whether
\* the lengths are negative or exceed the arrays (undefined behaviour, and an
\* exception for the payload's): here such a package fails, and PackagesFit of
\* TcpConnection says that none is found.
DecodeFields(b, ints, start, end) ==
    LET Text(i, n) == SubSeq(b, i + 1, i + n)
        take == end + 1 - start
        seqAt == start + 1 + 2 * IntSize
        seqLen == ints[seqAt - IntSize]
        nameAt == seqAt + seqLen + IntSize
        nameLen == ints[nameAt - IntSize]
        infoAt == nameAt + nameLen + 2 * IntSize
        infoLen == ints[infoAt - IntSize]
        pbAt == infoAt + infoLen
        pbLen == take - Overhead - seqLen - nameLen - infoLen
        fit == /\ seqLen \in 0 .. SeqArray - 1
               /\ nameLen \in 0 .. TextArray - 1
               /\ infoLen \in 0 .. TextArray - 1 /\ pbLen >= 0
    IN  IF \/ seqAt - IntSize >= end \/ seqLen = 0
           \/ nameAt >= end \/ nameLen > take
           \/ infoAt - IntSize >= end \/ pbAt >= end \/ ~fit
        THEN Failed(take)
        ELSE [ok |-> TRUE, take |-> take,
              data |-> [seq |-> UpToNul(Text(seqAt, seqLen)),
                        service |-> UpToNul(Text(nameAt, nameLen)),
                        err |-> ints[infoAt - 2 * IntSize],
                        err_info |-> UpToNul(Text(infoAt, infoLen)),
                        pb |-> Text(pbAt, pbLen)]]

\* Mutant: the last package found.
DecodeLast(b, r, w, stray) ==
    LET ints == Ints(b, r, w, stray)
        start == Max(Starts(b, r, w, ints, stray))
    IN  IF Starts(b, r, w, ints, stray) = {} THEN Failed(0)
        ELSE DecodeFields(b, ints, start, start + ints[start + 1] - 1)

\* Decode: the first package found; take is what is recycled, which does not
\* count the bytes skipped in front of it.
Decode(b, r, w, stray) ==
    LET ints == Ints(b, r, w, stray)
        start == Min(Starts(b, r, w, ints, stray))
    IN  IF Starts(b, r, w, ints, stray) = {} THEN Failed(0)
        ELSE DecodeFields(b, ints, start, start + ints[start + 1] - 1)

=============================================================================
