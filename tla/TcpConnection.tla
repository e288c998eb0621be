--------------------------- MODULE TcpConnection ---------------------------
(***************************************************************************)
(* One connection of a server from the peer's bytes to the peer's replies: *)
(* MainServerLoopCorFunc's Input, Execute and Output (tcp_connection.cpp)  *)
(* over the read buffer (TcpBuffer), with the codec and the dispatcher of  *)
(* the server's protocol.  Bytes arrive in pieces of any size.  The write  *)
(* buffer is the queue of replies that TcpBuffer is shown to implement.    *)
(***************************************************************************)
EXTENDS Integers, Sequences, SequencesExt, FiniteSetsExt

CONSTANTS
    RpcRequests, HttpRequests,   \* what a peer may send
    MaxStream,     \* bound: requests on the connection
    Services,      \* registered service -> its methods (names are byte strings)
    Unparsable,    \* request bodies that ParseFromString rejects
    ServletCalls,  \* calls of RegisterServlet: sequence of [path, servlet]
    GlobCalls,     \* of RegisterGlobServlet: sequence of [pattern, paths, servlet]
    InitSize,      \* first size of the buffer
    Strays,        \* values of a byte read past the vector
    CutAfterLine   \* TRUE: a piece may end right behind an HTTP request line

ASSUME TcpConnectionAssumption ==
    /\ InitSize \in Nat \ {0} /\ MaxStream \in Nat
    /\ Strays \subseteq 0 .. 255 /\ Strays # {}
    /\ CutAfterLine \in BOOLEAN

VARIABLES
    protocol,      \* of the server: "rpc" or "http"
    stream,        \* what the peer sends on this connection
    written,       \* how many of them it has written
    wire,          \* bytes written and not received; some of them have arrived
    peerOpen,      \* the peer has not closed its side
    buffer, readIndex, writeIndex,   \* read_buffer_
    pc,            \* "input", "again" (recv filled the room), "execute", "output", "gone"
    state,         \* state_
    handled,       \* requests dispatched
    out,           \* write_buffer_: replies not sent yet
    replies,       \* replies sent
    isClose        \* servlets whose is_close is set, for this connection or another

In == INSTANCE TcpBuffer WITH Bytes <- 0 .. 255, MaxData <- 0, MaxSize <- 4096, SendFails <- FALSE
Rpc == INSTANCE RpcCodec
Http == INSTANCE HttpCodec

peerVars == <<stream, written, wire, peerOpen>>
bufferVars == <<buffer, readIndex, writeIndex>>
replyVars == <<handled, out, replies, isClose>>
vars == <<protocol, peerVars, bufferVars, pc, state, replyVars>>

Streams ==
    LET UpTo(S) == UNION {[1 .. k -> S] : k \in 0 .. MaxStream} IN
    [rpc |-> UpTo(RpcRequests), http |-> UpTo(HttpRequests)]

TypeOK ==
    /\ protocol \in {"rpc", "http"} /\ stream \in Streams[protocol]
    /\ written \in 0 .. Len(stream) /\ peerOpen \in BOOLEAN
    /\ wire \in Seq(0 .. 255)
    /\ In!BufferTypeOK
    /\ pc \in {"input", "again", "execute", "output", "gone"}
    /\ state \in {"Connected", "HalfClosing", "Closed"}
    /\ pc = "gone" <=> state = "Closed"

Init ==
    /\ protocol \in {"rpc", "http"}
    /\ stream \in Streams[protocol]
    /\ written = 0 /\ wire = <<>> /\ peerOpen = TRUE
    /\ In!BufferInit
    /\ pc = "input" /\ state = "Connected"
    /\ handled = <<>> /\ out = <<>> /\ replies = <<>> /\ isClose = {}

----------------------------------------------------------------------------
\* The peer and the network.

BytesOf(request) ==
    IF "junk" \in DOMAIN request THEN request.junk \o Rpc!Encode(request.data)
    ELSE Http!Encode(request.line, request.content, request.headers)

\* What a peer writes are bytes.
ASSUME RequestsAreBytes ==
    \A request \in RpcRequests \cup HttpRequests : BytesOf(request) \in Seq(0 .. 255)

\* What the codec should make of a request.
Parsed(request) ==
    IF "junk" \in DOMAIN request THEN request.data ELSE Http!Lines[request.line]

PeerSend ==
    /\ peerOpen /\ written < Len(stream)
    /\ written' = written + 1
    /\ wire' = wire \o BytesOf(stream[written'])
    /\ UNCHANGED <<protocol, stream, peerOpen, bufferVars, pc, state, replyVars>>

PeerClose ==
    /\ peerOpen /\ written = Len(stream)
    /\ peerOpen' = FALSE
    /\ UNCHANGED <<protocol, stream, written, wire, bufferVars, pc, state, replyVars>>

\* ShutdownConnection, from the time wheel.
WheelShutdown ==
    /\ state = "Connected"
    /\ state' = "HalfClosing"
    /\ UNCHANGED <<protocol, peerVars, bufferVars, pc, replyVars>>

----------------------------------------------------------------------------
\* Dispatchers: the sequence of replies a request gets, one or none.

Dot == 46

\* RpcDispatcher::Dispatch.  Encode refuses a reply without a service name.
RpcReply(data) ==
    LET dots == {i \in DOMAIN data.service : data.service[i] = Dot}
        service == SubSeq(data.service, 1, Min(dots) - 1)
        method == SubSeq(data.service, Min(dots) + 1, Len(data.service))
        err == CASE dots = {} -> "ERROR_PARSE_SERVICE_NAME"
                 [] service \notin DOMAIN Services -> "ERROR_SERVICE_NOT_FOUND"
                 [] method \notin Services[service] -> "ERROR_METHOD_NOT_FOUND"
                 [] data.pb \in Unparsable -> "ERROR_FAILED_SERIALIZE"
                 [] OTHER -> "OK"
    IN  IF data.service = <<>> THEN <<>> ELSE <<[seq |-> data.seq, err |-> err]>>

\* RegisterServlet before the start: the first servlet of a path stays.
RegisteredServlets ==
    [path \in {ServletCalls[i].path : i \in DOMAIN ServletCalls} |->
        ServletCalls[Min({i \in DOMAIN ServletCalls : ServletCalls[i].path = path})].servlet]

\* RegisterGlobServlet: the last servlet of a pattern stays, behind the others.
RegisteredGlobs ==
    FoldLeft(LAMBDA globs, g : Append(SelectSeq(globs, LAMBDA r : r.pattern # g.pattern), g),
             <<>>, GlobCalls)

\* HttpDispatcher: the exact path first, then the first glob that matches,
\* then a servlet of its own that answers 404 and never closes.
Lookup(path) ==
    LET globs == {i \in DOMAIN RegisteredGlobs : path \in RegisteredGlobs[i].paths} IN
    CASE path \in DOMAIN RegisteredServlets -> RegisteredServlets[path]
      [] path \notin DOMAIN RegisteredServlets /\ globs # {} -> RegisteredGlobs[Min(globs)].servlet
      [] OTHER -> "NotFoundHttpServlet"

\* The servlets registered by path or pattern; the one for what is not found is
\* made anew.
Shared == {Lookup(line.path) : line \in Range(Http!Lines)} \ {"NotFoundHttpServlet"}

HttpReply(data) ==
    IF data.path = Http!NoPath THEN <<>>
    ELSE <<[version |-> data.version, servlet |-> Lookup(data.path)]>>

Reply(data) == IF "seq" \in DOMAIN data THEN RpcReply(data) ELSE HttpReply(data)

\* Servlets are shared by the server's connections: one that handles a request of
\* an old version for another connection closes from then on.
OtherConnection ==
    /\ protocol = "http"
    /\ \E servlet \in Shared \ isClose : isClose' = isClose \cup {servlet}
    /\ UNCHANGED <<protocol, peerVars, bufferVars, pc, state, handled, out, replies>>

\* Servlets that close after handling data: HttpServlet::Handle sets is_close
\* for an old version and nothing resets it.
ClosesAfter(data) ==
    IF protocol = "http" /\ data.path # Http!NoPath /\ data.version = "1.0"
       /\ Lookup(data.path) # "NotFoundHttpServlet"
    THEN isClose \cup {Lookup(data.path)}
    ELSE isClose

Dispatch(data) ==
    LET shuts == /\ protocol = "http" /\ data.path # Http!NoPath
                 /\ Lookup(data.path) \in ClosesAfter(data)
    IN  /\ handled' = IF protocol = "http" /\ data.path = Http!NoPath /\ data.method = ""
                      THEN handled ELSE Append(handled, data)
        /\ isClose' = ClosesAfter(data)
        /\ state' = IF shuts /\ state = "Connected" THEN "HalfClosing" ELSE state
        /\ out' = out \o Reply(data)
        /\ UNCHANGED replies

----------------------------------------------------------------------------
\* The connection's coroutine.

Unread == SubSeq(buffer, readIndex + 1, writeIndex)

\* s ends with a request line and its CRLF.
EndsInLine(s) == Len(s) > 1 /\ s[Len(s)] = Http!CrLf /\ s[Len(s) - 1] > Http!LineBase

\* Input's loop: recv returns what has arrived, at most the room; when it fills
\* the room there may be more and the loop goes on.
Recv ==
    /\ pc \in {"input", "again"}
    /\ \E n \in 1 .. Min({In!Room, Len(wire)}) :
        /\ wire' = SubSeq(wire, n + 1, Len(wire))
        /\ protocol = "rpc" \/ CutAfterLine \/ ~EndsInLine(Unread \o SubSeq(wire, 1, n))
        /\ In!Receive(SubSeq(wire, 1, n))
        /\ pc' = IF n = In!Room THEN "again" ELSE "execute"
    /\ UNCHANGED <<protocol, stream, written, peerOpen, state, replyVars>>

\* recv returns 0: the peer has closed, or the connection was shut down.
\* ClearClient closes and the coroutine yields for good.
RecvEnd ==
    /\ pc \in {"input", "again"}
    /\ (~peerOpen /\ wire = <<>>) \/ state = "HalfClosing"
    /\ pc' = "gone" /\ state' = "Closed"
    /\ UNCHANGED <<protocol, peerVars, bufferVars, replyVars>>

Decoded(stray) ==
    IF protocol = "rpc" THEN Rpc!Decode(buffer, readIndex, writeIndex, stray)
    ELSE Http!Decode(Unread)

\* Mutant: one request for each read.
ExecuteOnce ==
    /\ pc = "execute"
    /\ \E stray \in Strays : \E decoded \in {Decoded(stray)} :
        /\ In!RecycleRead(decoded.take)
        /\ IF decoded.ok THEN Dispatch(decoded.data) ELSE UNCHANGED <<state, replyVars>>
        /\ pc' = "output"
    /\ UNCHANGED <<protocol, peerVars>>

\* One turn of Execute's loop: decode and dispatch, until nothing is left or
\* nothing complete.
Execute ==
    /\ pc = "execute"
    /\ \E stray \in Strays : \E decoded \in {Decoded(stray)} :
        IF In!Readable > 0 /\ decoded.ok
        THEN /\ In!RecycleRead(decoded.take)
             /\ Dispatch(decoded.data)
             /\ UNCHANGED pc
        ELSE /\ In!RecycleRead(decoded.take)
             /\ pc' = "output"
             /\ UNCHANGED <<state, replyVars>>
    /\ UNCHANGED <<protocol, peerVars>>

\* Mutant: a part that was sent is taken for all.
OutputAll ==
    /\ pc = "output" /\ state = "Connected" /\ out # <<>>
    /\ \E n \in DOMAIN out : replies' = replies \o SubSeq(out, 1, n)
    /\ out' = <<>>
    /\ UNCHANGED <<protocol, peerVars, bufferVars, pc, state, handled, isClose>>

\* Output sends while connected; one send takes some of what there is.  (A send
\* that fails is only logged, and its -1 recycled: see SendFails of TcpBuffer.)
Output ==
    /\ pc = "output" /\ state = "Connected" /\ out # <<>>
    /\ \E n \in DOMAIN out :
        /\ replies' = replies \o SubSeq(out, 1, n)
        /\ out' = SubSeq(out, n + 1, Len(out))
    /\ UNCHANGED <<protocol, peerVars, bufferVars, pc, state, handled, isClose>>

\* Mutant: a connection that is shut down keeps waiting for room to send.
OutputDoneEmpty ==
    /\ pc = "output" /\ out = <<>>
    /\ pc' = "input"
    /\ UNCHANGED <<protocol, peerVars, bufferVars, state, replyVars>>

OutputDone ==
    /\ pc = "output" /\ (state # "Connected" \/ out = <<>>)
    /\ pc' = "input"
    /\ UNCHANGED <<protocol, peerVars, bufferVars, state, replyVars>>

Coroutine == Recv \/ RecvEnd \/ Execute \/ Output \/ OutputDone

Next == PeerSend \/ PeerClose \/ WheelShutdown \/ OtherConnection \/ Coroutine

Spec == Init /\ [][Next]_vars
\* The peer's bytes arrive and the IO thread resumes the coroutine (Scheduler).
FairSpec == Spec /\ WF_vars(PeerSend) /\ WF_vars(Coroutine)

----------------------------------------------------------------------------

\* The connection is the channel RequestChannel describes, however the bytes
\* are cut, whatever lies between packages, and wherever the buffer's contents
\* are moved to: nothing is handled that was not sent, or twice, or out of order.
Channel == INSTANCE RequestChannel WITH
    Requests <- {Parsed(request) : request \in RpcRequests \cup HttpRequests},
    sent <- [i \in 1 .. written |-> Parsed(stream[i])]

ImplementsChannel == Channel!Spec

\* When the coroutine waits for data, no complete request stands in the buffer:
\* the peer may be waiting for its reply and send nothing more.  (After a read
\* that filled the room this is not so: see "again".)
NoRequestLeftBehind ==
    pc = "input" /\ In!Readable > 0 => \A stray \in Strays : ~Decoded(stray).ok

\* The packages that Decode finds are like those that Encode writes: their
\* fields lie within them and their texts in the arrays they are copied to, and
\* a length of which a part has arrived is not yet negative.  Where they are not,
\* Decode fails and the loop ends although a whole package may follow, the read
\* index goes back, or the stack is overwritten.
PackagesFit ==
    pc = "execute" /\ protocol = "rpc" =>
        \A stray \in Strays :
            LET ints == Rpc!Ints(buffer, readIndex, writeIndex, stray) IN
            \A i \in Rpc!Starts(buffer, readIndex, writeIndex, ints, stray) :
                IF i + 1 + Rpc!IntSize <= writeIndex
                THEN Rpc!DecodeFields(buffer, ints, i, i + ints[i + 1] - 1).ok
                ELSE ints[i + 1] >= 0

\* Every request is answered unless the connection is shut down, or waits after
\* a read that filled the buffer.
EventuallyReplied ==
    <>[](\/ replies = Channel!RepliesTo([i \in DOMAIN stream |-> Parsed(stream[i])])
         \/ state # "Connected"
         \/ pc = "again" /\ wire = <<>>)

\* A connection that was shut down, by the wheel or for a request of an old
\* version, is closed: its coroutine comes back to recv whatever is unsent.
ShutIsClosed == state = "HalfClosing" ~> state = "Closed"

\* The buffer keeps its shape and the codec leaves nothing it could take.
Sound == TypeOK /\ NoRequestLeftBehind

=============================================================================
