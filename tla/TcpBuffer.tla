----------------------------- MODULE TcpBuffer -----------------------------
(***************************************************************************)
(* TcpBuffer (tcp_buffer.cpp): a vector of bytes with a read and a write   *)
(* index, both counted from 0.  The connection receives into the free part *)
(* and sends from the filled part in place and then moves an index         *)
(* (RecycleWrite, RecycleRead); the codecs append with WriteToBuffer and   *)
(* take packets off with RecycleRead.  Whenever an index moves the filled  *)
(* part may be moved to the front of the vector.                           *)
(***************************************************************************)
EXTENDS Integers, Sequences, SequencesExt, FiniteSetsExt

CONSTANTS
    Bytes,         \* byte values
    InitSize,      \* the vector's first size (128 for a connection)
    MaxData,       \* bound: bytes moved by one call
    MaxSize,       \* bound: no call is made that would need a larger vector
    SendFails      \* TRUE: a send on a connection that was reset returns -1

ASSUME TcpBufferAssumption ==
    /\ InitSize \in Nat \ {0} /\ MaxData \in Nat /\ MaxSize \in Nat
    /\ SendFails \in BOOLEAN

VARIABLES
    buffer,      \* buffer_; 0 stands for a byte never written
    readIndex,   \* read_index_
    writeIndex   \* write_index_

bufferVars == <<buffer, readIndex, writeIndex>>

\* The indices lie in the vector in their order, whatever moves them.
IndicesInRange ==
    0 <= readIndex /\ readIndex <= writeIndex /\ writeIndex <= Len(buffer)

\* The buffer's shape: the part between the indices holds bytes written to it.
BufferTypeOK ==
    /\ buffer \in Seq(Bytes \cup {0}) /\ readIndex \in Nat /\ writeIndex \in Nat
    /\ IndicesInRange
    /\ \A i \in readIndex + 1 .. writeIndex : buffer[i] \in Bytes

BufferInit ==
    /\ buffer = [i \in 1 .. InitSize |-> 0]
    /\ readIndex = 0
    /\ writeIndex = 0

Readable == writeIndex - readIndex
Writeable == Len(buffer) - writeIndex

\* The vector b with the filled part between r and w at the front of a vector
\* of the given size.
Moved(b, r, w, size) ==
    [i \in 1 .. size |-> IF i <= w - r THEN b[r + i] ELSE 0]

\* The vector b with data copied in behind w.
Copied(b, w, data) ==
    [i \in DOMAIN b |-> IF i > w /\ i <= w + Len(data) THEN data[i - w] ELSE b[i]]

\* Mutant: the move copies from the front of the vector.
AdjustBufferKeeps(b, r, w) ==
    /\ buffer' = IF r > Len(b) \div 3 THEN Moved(b, 0, w, Len(b)) ELSE b
    /\ readIndex' = IF r > Len(b) \div 3 THEN 0 ELSE r
    /\ writeIndex' = IF r > Len(b) \div 3 THEN w - r ELSE w

\* AdjustBuffer: once a third of the vector has been read, move to the front.
AdjustBuffer(b, r, w) ==
    IF r > Len(b) \div 3
    THEN /\ buffer' = Moved(b, r, w, Len(b))
         /\ readIndex' = 0
         /\ writeIndex' = w - r
    ELSE buffer' = b /\ readIndex' = r /\ writeIndex' = w

\* ResizeBuffer, as the pair of its new vector and write index; the read index
\* becomes 0.
Resized(size) ==
    LET c == Min({size, Readable}) IN
    [buffer |-> Moved(buffer, readIndex, readIndex + c, size), writeIndex |-> c]

\* RecycleWrite: n bytes were received behind the write index.
RecycleWrite(b, r, w, n) ==
    IF w + n > Len(b) THEN buffer' = b /\ readIndex' = r /\ writeIndex' = w
                      ELSE AdjustBuffer(b, r, w + n)

\* RecycleRead: n bytes were sent or decoded.
RecycleRead(n) ==
    IF readIndex + n > Len(buffer) THEN UNCHANGED bufferVars
    ELSE AdjustBuffer(buffer, readIndex + n, writeIndex)

\* What TcpConnection::Input can receive at once: room is made when there is none.
Room == IF Writeable = 0 THEN 2 * Len(buffer) - Min({2 * Len(buffer), Readable})
                         ELSE Writeable

\* TcpConnection::Input: recv fills part or all of the room.
Receive(data) ==
    LET full == Resized(2 * Len(buffer))
        b == IF Writeable = 0 THEN full.buffer ELSE buffer
        r == IF Writeable = 0 THEN 0 ELSE readIndex
        w == IF Writeable = 0 THEN full.writeIndex ELSE writeIndex
    IN  /\ Len(b) <= MaxSize
        /\ Len(data) <= Len(b) - w
        /\ RecycleWrite(Copied(b, w, data), r, w, Len(data))

\* WriteToBuffer: room is made for half as much again as is needed.
WriteToBuffer(data) ==
    LET size == (3 * (writeIndex + Len(data))) \div 2
        more == Resized(size)
    IN  IF Len(data) > Writeable
        THEN /\ size <= MaxSize
             /\ buffer' = Copied(more.buffer, more.writeIndex, data)
             /\ readIndex' = 0
             /\ writeIndex' = more.writeIndex + Len(data)
        ELSE /\ buffer' = Copied(buffer, writeIndex, data)
             /\ writeIndex' = writeIndex + Len(data)
             /\ UNCHANGED readIndex

\* TcpConnection::Output after a send, or a codec after a packet; Output passes
\* on what send returned, -1 included.
Consume(n) ==
    /\ n <= Readable
    /\ n = -1 => SendFails /\ Readable > 0
    /\ RecycleRead(n)

\* ReadFromBuffer: at most n bytes.
ReadFromBuffer(n) ==
    /\ Readable > 0
    /\ AdjustBuffer(buffer, readIndex + Min({n, Readable}), writeIndex)

Data == UNION {[1 .. n -> Bytes] : n \in 1 .. MaxData}

BufferNext ==
    \/ \E data \in Data : Receive(data)
    \/ \E data \in Data : WriteToBuffer(data)
    \/ \E n \in -1 .. MaxData : Consume(n)
    \/ \E n \in 1 .. MaxData : ReadFromBuffer(n)

BufferSpec == BufferInit /\ [][BufferNext]_bufferVars

----------------------------------------------------------------------------

\* The bytes between the indices are a queue: no byte is lost, doubled or
\* reordered by a resize, by a move to the front, or by an index that moves.
Queue == INSTANCE ByteQueue WITH queue <- SubSeq(buffer, readIndex + 1, writeIndex)

ImplementsQueue == Queue!Spec

=============================================================================
