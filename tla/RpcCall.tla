------------------------------ MODULE RpcCall ------------------------------
(***************************************************************************)
(* Calls through one RpcChannel by coroutines of one IO thread: the retry  *)
(* loop of RpcChannel::CallMethod, TcpClient::SendAndRecvTinyPb with its   *)
(* time-out event, connect_hook with its own, and the thread's timer,      *)
(* task queue and descriptors that all calls share.  Times are kept        *)
(* relative to now.  The peers and the kernel are the environment.         *)
(***************************************************************************)
EXTENDS Integers, Sequences, SequencesExt, FiniteSets, FiniteSetsExt, Functions

CONSTANTS
    Callers,         \* coroutines
    Addrs,           \* addresses of the service
    Fds,             \* descriptor numbers
    MaxRetry,        \* of the controller
    Timeout,         \* of the controller
    ConnectTimeout,  \* max_connect_timeout
    MaxCalls,        \* bound: calls in all
    FaultSets,       \* the sets of faults a behaviour may have, see Faults
    NoCaller

\* overlap: a call may begin while another waits.
\* connectSlow: a connection may be neither made nor refused for any time.
\* peerCloses: a peer may close a connection without a reply.
\* batched: one epoll_wait may report several events, and the thread may be busy
\* while they become due.
Faults == {"overlap", "connectSlow", "peerCloses", "batched"}

ASSUME RpcCallAssumption ==
    /\ Fds \subseteq Nat \ {0} /\ Addrs # {} /\ NoCaller \notin Callers
    /\ MaxRetry \in Nat /\ Timeout \in Nat \ {0} /\ ConnectTimeout \in Nat \ {0}
    /\ FaultSets \subseteq SUBSET Faults
    \* socket() finds a number for every caller.
    /\ IsFiniteSet(Callers) /\ IsFiniteSet(Fds) /\ Cardinality(Callers) <= Cardinality(Fds)

VARIABLES
    faults,        \* faults of this behaviour
    addrs,         \* addrs_ of the channel
    sock,          \* descriptor -> socket
    watch,         \* descriptor -> what epoll watches it for
    cor,           \* descriptor -> coroutine of its FdEvent
    pending,       \* timer: events by arrival
    armed,         \* time until the timerfd is readable, or Never
    tasks,         \* call-backs that OnTimer still has to run
    batch,         \* events of the last epoll_wait still to be handled
    queue,         \* CoroutineTaskQueue of the thread
    running,       \* the coroutine that runs, or NoCaller: Loop does
    call,          \* coroutine -> its call
    crashed        \* "no", or the null pointer that was followed

socketVars == <<sock, watch, cor>>
timerVars == <<pending, armed>>
loopVars == <<tasks, batch, queue, running>>
vars == <<faults, addrs, socketVars, timerVars, loopVars, call, crashed>>

Never == -9
Floor == -2        \* times further in the past are not told apart

Closed == [state |-> "none", owner |-> NoCaller, asked |-> {}, answered |-> {}]
Fresh(c) == [Closed EXCEPT !.state = "fresh", !.owner = c]
NoFd == -1
TimerFd == 0

\* A coroutine outside a call; of its last call only the result is kept.
NoCall ==
    [pc |-> "idle", calls |-> 0, retry |-> 0, addr |-> CHOOSE a \in Addrs : TRUE,
     fd |-> NoFd, connFd |-> NoFd, left |-> Never, connectAt |-> Never,
     isTimeout |-> FALSE, overTime |-> FALSE, result |-> "none"]

Frame(c) == <<call[c].calls, call[c].retry>>

Event == [kind : {"call", "connect"}, caller : Callers, frame : Nat \X Nat, at : Int]

TypeOK ==
    /\ addrs \subseteq Addrs
    /\ \A f \in Fds :
        /\ sock[f].state \in {"none", "fresh", "syn", "up", "refused", "closed"}
        /\ sock[f].asked \cup sock[f].answered \subseteq Callers
        /\ watch[f] \in {"none", "READ", "WRITE"} /\ cor[f] \in Callers \cup {NoCaller}
        /\ watch[f] # "none" => sock[f].state # "none"
    /\ pending \in Seq(Event) /\ tasks \in Seq(Event)
    /\ \A i, j \in DOMAIN pending : i < j => pending[i].at <= pending[j].at
    /\ batch \in Seq(Fds \cup {TimerFd}) /\ queue \in Seq(Fds)
    /\ running \in Callers \cup {NoCaller}
    /\ crashed \in {"no", "null coroutine", "null reply"}

Init ==
    /\ faults \in FaultSets
    /\ addrs = Addrs
    /\ sock = [f \in Fds |-> Closed]
    /\ watch = [f \in Fds |-> "none"] /\ cor = [f \in Fds |-> NoCaller]
    /\ pending = <<>> /\ armed = Never
    /\ tasks = <<>> /\ batch = <<>> /\ queue = <<>> /\ running = NoCaller
    /\ call = [c \in Callers |-> NoCall]
    /\ crashed = "no"

----------------------------------------------------------------------------
\* The timer, on its own thread (Timer has it cut at its locks).

\* timerfd_settime for the last event, unless that has passed; zero disarms.
Armed(events) ==
    LET last == Last(events).at IN
    IF events = <<>> \/ last < 0 THEN armed ELSE IF last = 0 THEN Never ELSE last

\* How many of the events, which are sorted, arrive by t.
Due(events, t) == Cardinality({i \in DOMAIN events : events[i].at <= t})

\* Behind the events of the same time.
Inserted(events, e) == InsertAt(events, Due(events, e.at) + 1, e)

\* DelTimerEvent: the events without e; when e is not among them any more,
\* without the next one.
Without(events, e) ==
    LET here == {i \in DOMAIN events : [events[i] EXCEPT !.at = e.at] = e}
        next == {i \in DOMAIN events : events[i].at > e.at}
    IN  CASE here # {} -> RemoveAt(events, Min(here))
          [] here = {} /\ next # {} -> RemoveAt(events, Min(next))
          [] here = {} /\ next = {} -> events

AddTimerEvent(e) ==
    /\ pending' = Inserted(pending, e)
    /\ armed' = IF pending = <<>> \/ e.at < Head(pending).at THEN Armed(pending') ELSE armed

CallEvent(c) == [kind |-> "call", caller |-> c, frame |-> Frame(c), at |-> call[c].left]
ConnectEvent(c, at) == [kind |-> "connect", caller |-> c, frame |-> Frame(c), at |-> at]

Later(t) == IF t = Never THEN Never ELSE Max({Floor, t - 1})

----------------------------------------------------------------------------
\* Sockets.  A caller closes the number it remembers, whoever has it by then.

Closing(f) == [sock EXCEPT ![f] = Closed]
Unwatched(f) == [watch EXCEPT ![f] = "none"]

\* socket(): the lowest number that is free.
Lowest(s) == Min({f \in Fds : s[f].state = "none"})

\* ResetFd: the client has a new number, its connection keeps the old one.
ResetFd(c, pc) ==
    LET f == call[c].fd
        g == Lowest(Closing(f))
    IN  /\ sock' = [Closing(f) EXCEPT ![g] = Fresh(c)]
        /\ watch' = Unwatched(f)
        /\ call' = [call EXCEPT ![c].fd = g, ![c].pc = pc, ![c].connectAt = Never]

----------------------------------------------------------------------------
\* The end of an attempt and of a call; the client is destroyed.

\* Any error but the time-out: the address is dropped and the next one tried.
\* After the last attempt the reply is read although there is none.
Retry(c) ==
    /\ sock' = Closing(call[c].fd) /\ watch' = Unwatched(call[c].fd)
    /\ addrs' = addrs \ {call[c].addr}
    /\ IF call[c].retry < MaxRetry
       THEN /\ call' = [call EXCEPT ![c].pc = "select", ![c].retry = @ + 1,
                                     ![c].fd = NoFd, ![c].connFd = NoFd, ![c].connectAt = Never]
            /\ UNCHANGED crashed
       ELSE /\ crashed' = "null reply"
            /\ call' = [call EXCEPT ![c].pc = "crashed"]

Return(c, result) ==
    /\ sock' = Closing(call[c].fd) /\ watch' = Unwatched(call[c].fd)
    /\ call' = [call EXCEPT ![c] = [NoCall EXCEPT !.calls = call[c].calls, !.result = result]]
    /\ running' = NoCaller
    /\ UNCHANGED <<addrs, crashed>>

----------------------------------------------------------------------------
\* The callers.  A step runs up to the next Yield or to the next choice.

CallsMade == MapThenSumSet(LAMBDA d : call[d].calls, Callers)

Begin(c) ==
    /\ running = NoCaller /\ tasks = <<>> /\ batch = <<>>
    /\ call[c].pc = "idle" /\ CallsMade < MaxCalls
    /\ "overlap" \in faults \/ \A d \in Callers : call[d].pc = "idle"
    /\ running' = c
    /\ call' = [call EXCEPT ![c].pc = "select", ![c].calls = @ + 1, ![c].retry = 0,
                             ![c].left = Timeout, ![c].result = "none"]
    /\ UNCHANGED <<addrs, socketVars, timerVars, tasks, batch, queue, crashed>>

\* An address, a new client on it, and the attempt's time-out event.  The time
\* left for it may be none.
Select(c) ==
    /\ running = c /\ call[c].pc = "select"
    /\ addrs' = IF addrs = {} THEN Addrs ELSE addrs
    /\ \E a \in addrs' :
        LET f == Lowest(sock) IN
        /\ sock' = [sock EXCEPT ![f] = Fresh(c)]
        /\ call' = [call EXCEPT ![c] = [@ EXCEPT !.pc = "connect", !.addr = a, !.fd = f, !.connFd = f,
                                                !.isTimeout = FALSE, !.overTime = FALSE]]
    /\ AddTimerEvent(CallEvent(c))
    /\ UNCHANGED <<watch, cor, loopVars, crashed>>

\* connect_hook up to its Yield: made, refused or in progress.
Connect(c) ==
    LET f == call[c].fd IN
    /\ running = c /\ call[c].pc = "connect"
    /\ \/ /\ sock' = [sock EXCEPT ![f].state = "up"]
          /\ call' = [call EXCEPT ![c].pc = "send"]
          /\ UNCHANGED <<addrs, watch, cor, timerVars, loopVars, crashed>>
       \/ /\ pending' = Without(pending, CallEvent(c))
          /\ Retry(c)
          /\ UNCHANGED <<cor, armed, loopVars>>
       \/ /\ sock' = [sock EXCEPT ![f].state = "syn"]
          /\ watch' = [watch EXCEPT ![f] = "WRITE"] /\ cor' = [cor EXCEPT ![f] = c]
          /\ AddTimerEvent(ConnectEvent(c, ConnectTimeout))
          /\ call' = [call EXCEPT ![c].pc = "connecting", ![c].connectAt = ConnectTimeout]
          /\ running' = NoCaller
          /\ UNCHANGED <<addrs, tasks, batch, queue, crashed>>

\* connect_hook after its Yield: the call is made again to see what has become
\* of it.  What it returns, with errno, is one of three.
ConnectAgain(c) ==
    LET state == sock[call[c].fd].state IN
    CASE state \in {"up", "closed"} -> "connected"
      [] state = "refused" \/ (state \notin {"up", "closed"} /\ call[c].isTimeout) -> "error"
      [] OTHER -> "under way"

\* SendAndRecvTinyPb goes on, gives up, or tries again on a new socket.
Connecting(c) ==
    LET f == call[c].fd
        others == Without(pending, ConnectEvent(c, call[c].connectAt))
    IN
    /\ running = c /\ call[c].pc = "connecting"
    /\ cor' = [cor EXCEPT ![f] = NoCaller]
    /\ \/ /\ ConnectAgain(c) = "connected"
          /\ pending' = others
          /\ watch' = Unwatched(f)
          /\ call' = [call EXCEPT ![c].pc = "send", ![c].connectAt = Never]
          /\ UNCHANGED <<addrs, sock, crashed>>
       \/ /\ ConnectAgain(c) = "error"
          /\ pending' = Without(others, CallEvent(c))
          /\ Retry(c)
       \/ /\ ConnectAgain(c) = "under way"
          /\ pending' = others
          /\ ResetFd(c, "connect")
          /\ UNCHANGED <<addrs, crashed>>
    /\ UNCHANGED <<armed, loopVars>>

\* Output on the connection's number; without a socket there it waits in vain.
Send(c) ==
    LET f == call[c].connFd IN
    /\ running = c /\ call[c].pc = "send"
    /\ IF sock[f].state = "up"
       THEN /\ sock' = [sock EXCEPT ![f].asked = @ \cup {c}]
            /\ call' = [call EXCEPT ![c].pc = "recv"]
            /\ UNCHANGED running
       ELSE /\ call' = [call EXCEPT ![c].pc = "sending"]
            /\ running' = NoCaller
            /\ UNCHANGED sock
    /\ UNCHANGED <<addrs, watch, cor, timerVars, tasks, batch, queue, crashed>>

\* Mutant: DelTimerEvent is left out.
TakenKept(c) ==
    LET f == call[c].connFd IN
    IF c \in sock[f].answered
    THEN Return(c, "ok") /\ UNCHANGED pending
    ELSE /\ sock' = [sock EXCEPT ![f].answered = {}]
         /\ call' = [call EXCEPT ![c].pc = "recv"]
         /\ UNCHANGED <<addrs, watch, pending, running, crashed>>

\* The replies on the number are read: the caller's own ends the call, another
\* is kept where nobody asks for it.
Taken(c) ==
    LET f == call[c].connFd IN
    IF c \in sock[f].answered
    THEN pending' = Without(pending, CallEvent(c)) /\ Return(c, "ok")
    ELSE /\ sock' = [sock EXCEPT ![f].answered = {}]
         /\ call' = [call EXCEPT ![c].pc = "recv"]
         /\ UNCHANGED <<addrs, watch, pending, running, crashed>>

\* Input, up to recv_hook's Yield.
Recv(c) ==
    LET f == call[c].connFd IN
    /\ running = c /\ call[c].pc = "recv"
    /\ IF sock[f].answered # {} THEN Taken(c) /\ UNCHANGED cor
       ELSE /\ watch' = IF sock[f].state = "none" THEN watch ELSE [watch EXCEPT ![f] = "READ"]
            /\ cor' = [cor EXCEPT ![f] = c]
            /\ call' = [call EXCEPT ![c].pc = "receiving"]
            /\ running' = NoCaller
            /\ UNCHANGED <<addrs, sock, pending, crashed>>
    /\ UNCHANGED <<armed, tasks, batch, queue>>

\* Mutant: over_time is not looked at after the read.
ReceivingLate(c) ==
    LET f == call[c].connFd IN
    /\ running = c /\ call[c].pc = "receiving"
    /\ cor' = [cor EXCEPT ![f] = NoCaller]
    /\ IF sock[f].answered # {} THEN Taken(c)
       ELSE /\ sock' = Closing(f) /\ watch' = Unwatched(f)
            /\ call' = [call EXCEPT ![c].pc = "abandoned"]
            /\ running' = NoCaller
            /\ UNCHANGED <<addrs, pending, crashed>>
    /\ UNCHANGED <<armed, tasks, batch, queue>>

\* Input after the Yield: over time, a reply, or nothing, which is taken for the
\* peer's close: the connection closes its number and the caller yields.
Receiving(c) ==
    LET f == call[c].connFd IN
    /\ running = c /\ call[c].pc = "receiving"
    /\ cor' = [cor EXCEPT ![f] = NoCaller]
    /\ \/ /\ call[c].overTime
          /\ Return(c, "timeout")
          /\ UNCHANGED pending
       \/ /\ ~call[c].overTime /\ sock[f].answered # {}
          /\ Taken(c)
       \/ /\ ~call[c].overTime /\ sock[f].answered = {}
          /\ sock' = Closing(f) /\ watch' = Unwatched(f)
          /\ call' = [call EXCEPT ![c].pc = "abandoned"]
          /\ running' = NoCaller
          /\ UNCHANGED <<addrs, pending, crashed>>
    /\ UNCHANGED <<armed, tasks, batch, queue>>

\* The caller resumed where nothing but its time-out should resume it; err_deal
\* closes the number again, and does not delete the event when the peer closed.
Resumed(c) ==
    /\ running = c /\ call[c].pc \in {"sending", "abandoned"}
    /\ IF call[c].overTime THEN Return(c, "timeout")
       ELSE IF call[c].pc = "abandoned" THEN Retry(c) /\ UNCHANGED running
       ELSE /\ call' = [call EXCEPT ![c].pc = "send"]
            /\ UNCHANGED <<addrs, sock, watch, running, crashed>>
    /\ UNCHANGED <<cor, timerVars, tasks, batch, queue>>

Step(c) == Select(c) \/ Connect(c) \/ Connecting(c) \/ Send(c) \/ Recv(c) \/ Receiving(c) \/ Resumed(c)

----------------------------------------------------------------------------
\* The thread's loop (Scheduler has it for several threads).

\* Coroutine::Resume; a coroutine that is in no call waits for something else.
Resume(c) == running' = IF call[c].pc = "idle" THEN NoCaller ELSE c

Readable(f) ==
    \/ watch[f] = "READ" /\ (sock[f].answered # {} \/ sock[f].state = "closed")
    \/ watch[f] = "WRITE" /\ sock[f].state \in {"up", "refused", "closed"}

Ready == {f \in Fds : Readable(f)} \cup (IF armed = 0 THEN {TimerFd} ELSE {})

LoopFree == running = NoCaller /\ tasks = <<>> /\ batch = <<>>

PopQueue ==
    /\ LoopFree /\ queue # <<>>
    /\ queue' = Tail(queue)
    /\ IF cor[Head(queue)] = NoCaller
       THEN crashed' = "null coroutine" /\ UNCHANGED running
       ELSE Resume(cor[Head(queue)]) /\ UNCHANGED crashed
    /\ UNCHANGED <<addrs, socketVars, timerVars, tasks, batch, call>>

\* epoll_wait reports all that is ready, or, unless batched, one event at a time.
EpollWait ==
    /\ LoopFree /\ queue = <<>>
    /\ \E events \in (SUBSET Ready) \ {{}} :
        /\ IF "batched" \in faults THEN events = Ready ELSE Cardinality(events) = 1
        /\ batch' \in SetToSeqs(events)
    /\ UNCHANGED <<addrs, socketVars, timerVars, tasks, queue, running, call, crashed>>

HandleSocket ==
    /\ running = NoCaller /\ tasks = <<>> /\ batch # <<>> /\ Head(batch) # TimerFd
    /\ batch' = Tail(batch)
    /\ IF cor[Head(batch)] = NoCaller THEN UNCHANGED <<watch, queue>>
       ELSE /\ watch' = Unwatched(Head(batch))
            /\ queue' = Append(queue, Head(batch))
    /\ UNCHANGED <<addrs, sock, cor, timerVars, tasks, running, call, crashed>>

\* Mutant: the events of the next tick are taken too.
OnTimerEarly ==
    /\ running = NoCaller /\ tasks = <<>> /\ batch # <<>> /\ Head(batch) = TimerFd
    /\ batch' = Tail(batch)
    /\ tasks' = SubSeq(pending, 1, Due(pending, 1))
    /\ pending' = SubSeq(pending, Due(pending, 1) + 1, Len(pending))
    /\ armed' = IF pending' = <<>> THEN Never ELSE Armed(pending')
    /\ UNCHANGED <<addrs, socketVars, queue, running, call, crashed>>

OnTimer ==
    /\ running = NoCaller /\ tasks = <<>> /\ batch # <<>> /\ Head(batch) = TimerFd
    /\ batch' = Tail(batch)
    /\ tasks' = SubSeq(pending, 1, Due(pending, 0))
    /\ pending' = SubSeq(pending, Due(pending, 0) + 1, Len(pending))
    /\ armed' = IF pending' = <<>> THEN Never ELSE Armed(pending')
    /\ UNCHANGED <<addrs, socketVars, queue, running, call, crashed>>

\* A call-back: connect_hook's only resumes; the call's sets the flags of its
\* attempt.  When that has ended the flags of a later one may lie in their place.
RunTask ==
    /\ running = NoCaller /\ tasks # <<>>
    /\ tasks' = Tail(tasks)
    /\ LET e == Head(tasks)
           c == e.caller
       IN  /\ Resume(c)
           /\ \E hit \in IF e.kind = "connect" THEN {FALSE}
                         ELSE IF e.frame = Frame(c) /\ call[c].pc # "idle" THEN {TRUE}
                         ELSE BOOLEAN :
                call' = [call EXCEPT ![c].isTimeout = @ \/ hit, ![c].overTime = @ \/ hit]
    /\ UNCHANGED <<addrs, socketVars, timerVars, batch, queue, crashed>>

Loop == PopQueue \/ EpollWait \/ HandleSocket \/ OnTimer \/ RunTask

----------------------------------------------------------------------------
\* The kernel, the peers and the time.

Established ==
    /\ \E f \in Fds, state \in {"up", "refused"} :
        /\ sock[f].state = "syn"
        /\ sock' = [sock EXCEPT ![f].state = state]
    /\ UNCHANGED <<addrs, watch, cor, timerVars, loopVars, call, crashed>>

PeerReply ==
    /\ \E f \in Fds, c \in Callers :
        /\ sock[f].state = "up" /\ c \in sock[f].asked
        /\ sock' = [sock EXCEPT ![f].asked = @ \ {c}, ![f].answered = @ \cup {c}]
    /\ UNCHANGED <<addrs, watch, cor, timerVars, loopVars, call, crashed>>

PeerClose ==
    /\ "peerCloses" \in faults
    /\ \E f \in Fds :
        /\ sock[f].state = "up"
        /\ sock' = [sock EXCEPT ![f].state = "closed", ![f].asked = {}]
    /\ UNCHANGED <<addrs, watch, cor, timerVars, loopVars, call, crashed>>

Tick ==
    /\ running = NoCaller
    /\ "batched" \in faults \/ (LoopFree /\ queue = <<>> /\ Ready = {})
    /\ "connectSlow" \in faults \/ \A f \in Fds : sock[f].state # "syn"
    /\ pending # <<>> \/ armed > 0
    /\ pending' = [i \in DOMAIN pending |-> [pending[i] EXCEPT !.at = Later(@)]]
    /\ armed' = IF armed > 0 THEN armed - 1 ELSE armed
    /\ call' = [c \in Callers |-> [call[c] EXCEPT !.left = Later(@), !.connectAt = Later(@)]]
    /\ UNCHANGED <<addrs, socketVars, loopVars, crashed>>

Thread == (\E c \in Callers : Step(c)) \/ Loop

Next ==
    /\ crashed = "no"
    /\ (\E c \in Callers : Begin(c)) \/ Thread \/ Established \/ PeerReply \/ PeerClose \/ Tick
    /\ UNCHANGED faults

Spec == Init /\ [][Next]_vars

FairSpec ==
    /\ Spec
    /\ WF_vars(crashed = "no" /\ Thread /\ UNCHANGED faults)
    /\ WF_vars(crashed = "no" /\ "connectSlow" \notin faults /\ Established /\ UNCHANGED faults)
    /\ WF_vars(crashed = "no" /\ Tick /\ UNCHANGED faults)

----------------------------------------------------------------------------

(***************************************************************************)
(* Properties.  Faults are studied one at a time: a property names the     *)
(* ones under which the code does not have it.                             *)
(***************************************************************************)
InCall(c) == call[c].pc # "idle"

\* The time-out call-backs hold references to the stack frame of one attempt
\* (rpc_channel.cpp and tcp_client.cpp): whenever one is pending or about to run,
\* its caller is still in that attempt.  Not when events are batched or a
\* connection is slow: the attempt may end between OnTimer and the call-back, or
\* DelTimerEvent takes another call's event.
CallbackInFrame ==
    Cardinality(faults) = 1 /\ faults \cap {"batched", "connectSlow"} = {} =>
        \A e \in ToSet(pending) \cup ToSet(tasks) :
            InCall(e.caller) /\ e.frame = Frame(e.caller)

\* The task queue never holds a descriptor whose FdEvent has lost its coroutine
\* (Resume would follow a null pointer).  Not when events are batched: one
\* epoll_wait then reports both the reply and the time-out.
NullCoroutine == Cardinality(faults) = 1 /\ "batched" \notin faults => crashed # "null coroutine"

\* A call ends as timed out only when its time is up: no flag of another attempt,
\* of another call or of the connection's own time-out ends it.
TimeoutNotEarly ==
    [][\A c \in Callers : Cardinality(faults) = 1 /\ InCall(c) /\ call'[c].result = "timeout" => call[c].left <= 0]_vars

\* A caller that connects, sends or reads works on a socket it made itself,
\* and its client and its connection agree on the number.
OwnSocket ==
    Cardinality(faults) = 1 => \A c \in Callers : call[c].pc \in {"connect", "connecting", "send", "recv", "receiving"}
        => sock[call[c].fd].owner = c /\ call[c].connFd = call[c].fd

\* Every call ends, with a reply, an error or the crash on the missing reply.
\* Not when connections are slow or events batched: an attempt that begins
\* with no time left has a time-out that is never armed.
CallReturns ==
    \A c \in Callers :
        InCall(c) /\ Cardinality(faults) = 1 /\ faults \cap {"batched", "connectSlow"} = {} ~> ~InCall(c) \/ crashed # "no"

\* Calls of one thread, which share its timer, queue and descriptors, keep apart.
Sound == TypeOK /\ CallbackInFrame /\ NullCoroutine /\ OwnSocket

=============================================================================
