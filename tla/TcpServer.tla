----------------------------- MODULE TcpServer -----------------------------
(***************************************************************************)
(* The life of a server connection: the main thread accepts sockets into   *)
(* clients_, turns the time wheel that shuts idle connections down, and    *)
(* every ten seconds deletes the Closed ones; each connection's coroutine  *)
(* runs on an IO thread with a raw pointer to its TcpConnection and closes *)
(* the socket itself.  The state of a connection and the number of its     *)
(* file descriptor are all that the two sides share.                       *)
(*                                                                         *)
(* Which thread runs a coroutine, and how a wait for the socket ends, is   *)
(* the subject of Scheduler; here a coroutine goes on when its socket has  *)
(* something for it.                                                       *)
(***************************************************************************)
EXTENDS Naturals, SequencesExt

CONSTANTS
    Conns,         \* TcpConnection objects (bounds the accepted sockets)
    Fds,           \* file descriptor numbers of accepted sockets
    MaxTasks,      \* bound: the Fresh tasks that busy peers pile up
    Buckets,       \* time_wheel.bucket_num
    HandlerShuts,  \* TRUE: a request handler may call ShutdownConnection
    NoConn, NoFd

ASSUME TcpServerAssumption ==
    /\ Buckets \in Nat \ {0} /\ MaxTasks \in Nat
    /\ HandlerShuts \in BOOLEAN
    /\ NoConn \notin Conns /\ NoFd \notin Fds

VARIABLES
    socket,   \* kernel: the connection an open fd belongs to
    input,    \* kernel: what recv finds: nothing, data, or the end
    clients,  \* TcpServer::clients_, null pointers left out
    life,     \* the TcpConnection object
    fd,       \* its fd_
    state,    \* its state_
    pc,       \* where its coroutine is
    wheel,    \* TcpTimeWheel::wheel_, the slots in each bucket
    dropped,  \* slots of the popped bucket still to be released
    tasks,    \* the main reactor's pending tasks: slots to Fresh
    closing,  \* ShutdownConnection under way on the main thread
    age       \* history: turns of the wheel since a connection's last Fresh

kernelVars == <<socket, input>>
objVars    == <<life, fd>>
slotVars   == <<wheel, dropped, tasks, age>>
vars == <<kernelVars, clients, objVars, state, pc, slotVars, closing>>

CorState == {"none", "input", "fresh", "work", "close", "closed", "yield", "parked"}

\* The shape of the server's state; an object in the map is at its own fd.
TypeOK ==
    /\ socket \in [Fds -> Conns \cup {NoConn}]
    /\ input \in [Fds -> {"nothing", "data", "end"}]
    /\ clients \in [Fds -> Conns \cup {NoConn}]
    /\ \A f \in Fds : clients[f] # NoConn =>
          life[clients[f]] = "alive" /\ fd[clients[f]] = f
    /\ life \in [Conns -> {"new", "alive", "freed"}]
    /\ fd \in [Conns -> Fds \cup {NoFd}]
    /\ state \in [Conns -> {"NotConnected", "Connected", "HalfClosing", "Closed"}]
    /\ pc \in [Conns -> CorState]
    /\ wheel \in [1 .. Buckets -> SUBSET Conns]
    /\ dropped \in SUBSET Conns
    /\ tasks \in Seq(Conns)
    /\ closing \in [conn : Conns \cup {NoConn}, step : {"none", "set", "shutdown"}]
    /\ age \in [Conns -> 0 .. Buckets]

NotClosing == [conn |-> NoConn, step |-> "none"]

Init ==
    /\ socket = [f \in Fds |-> NoConn]
    /\ input = [f \in Fds |-> "nothing"]
    /\ clients = [f \in Fds |-> NoConn]
    /\ life = [c \in Conns |-> "new"]
    /\ fd = [c \in Conns |-> NoFd]
    /\ state = [c \in Conns |-> "NotConnected"]
    /\ pc = [c \in Conns |-> "none"]
    /\ wheel = [i \in 1 .. Buckets |-> {}]
    /\ dropped = {}
    /\ tasks = <<>>
    /\ closing = NotClosing
    /\ age = [c \in Conns |-> 0]

----------------------------------------------------------------------------
(* The main thread                                                         *)

\* Between two of its operations.
MainIdle == closing = NotClosing /\ dropped = {}

\* Mutant: a connection in the map under the same number is not replaced.
AcceptKeepsOld(c, f) ==
    /\ MainIdle
    /\ socket[f] = NoConn /\ life[c] = "new"
    /\ socket' = [socket EXCEPT ![f] = c]
    /\ input' = [input EXCEPT ![f] = "nothing"]
    /\ clients' = [clients EXCEPT ![f] = IF @ = NoConn THEN c ELSE @]
    /\ life' = [d \in Conns |-> CASE d = c          -> "alive"
                                  [] d = clients[f] -> "freed"
                                  [] OTHER          -> life[d]]
    /\ fd' = [fd EXCEPT ![c] = f]
    /\ state' = [state EXCEPT ![c] = "Connected"]
    /\ pc' = [pc EXCEPT ![c] = "input"]
    /\ tasks' = Append(tasks, c)
    /\ UNCHANGED <<wheel, dropped, age, closing>>

\* AddClient and InitServer for a new socket: a connection still in the map
\* under its number is destroyed; the new one's slot is to be put in the wheel.
Accept(c, f) ==
    /\ MainIdle
    /\ socket[f] = NoConn /\ life[c] = "new"
    /\ socket' = [socket EXCEPT ![f] = c]
    /\ input' = [input EXCEPT ![f] = "nothing"]
    /\ clients' = [clients EXCEPT ![f] = c]
    /\ life' = [d \in Conns |-> CASE d = c          -> "alive"
                                  [] d = clients[f] -> "freed"
                                  [] OTHER          -> life[d]]
    /\ fd' = [fd EXCEPT ![c] = f]
    /\ state' = [state EXCEPT ![c] = "Connected"]
    /\ pc' = [pc EXCEPT ![c] = "input"]
    /\ tasks' = Append(tasks, c)
    /\ UNCHANGED <<wheel, dropped, age, closing>>

\* A task of FreshTcpConnection: the slot goes into the last bucket too.
Fresh ==
    /\ MainIdle
    /\ tasks # <<>>
    /\ wheel' = [wheel EXCEPT ![Buckets] = @ \cup {Head(tasks)}]
    /\ age' = [age EXCEPT ![Head(tasks)] = 0]
    /\ tasks' = Tail(tasks)
    /\ UNCHANGED <<kernelVars, clients, objVars, state, pc, dropped, closing>>

\* LoopFunc: the wheel turns and the first bucket's slots are released.
LoopFunc ==
    /\ MainIdle
    /\ dropped' = wheel[1]
    /\ wheel' = [i \in 1 .. Buckets |-> IF i = Buckets THEN {} ELSE wheel[i + 1]]
    /\ age' = [c \in Conns |-> IF age[c] = Buckets THEN Buckets ELSE age[c] + 1]
    /\ UNCHANGED <<kernelVars, clients, objVars, state, pc, tasks, closing>>

\* The slot is held by a bucket or by a task.
Held(c) == c \in ToSet(tasks) \/ \E i \in 1 .. Buckets : c \in wheel[i]

\* Mutant: a slot released from one bucket is destroyed at once.
ReleaseSlotHeld(c) ==
    /\ closing = NotClosing
    /\ c \in dropped
    /\ dropped' = dropped \ {c}
    /\ closing' = IF life[c] # "alive" \/ state[c] = "Closed"
                  THEN closing ELSE [conn |-> c, step |-> "set"]
    /\ UNCHANGED <<kernelVars, clients, objVars, state, pc, wheel, tasks, age>>

\* One slot of the popped bucket.  When it was the last pointer to it the slot
\* is destroyed, which begins ShutdownConnection of a connection that still
\* exists: it is over when the state is Closed.
ReleaseSlot(c) ==
    /\ closing = NotClosing
    /\ c \in dropped
    /\ dropped' = dropped \ {c}
    /\ closing' = IF Held(c) \/ life[c] # "alive" \/ state[c] = "Closed"
                  THEN closing ELSE [conn |-> c, step |-> "set"]
    /\ UNCHANGED <<kernelVars, clients, objVars, state, pc, wheel, tasks, age>>

\* ShutdownConnection, after its look at the state, sets HalfClosing ...
SetHalfClosing ==
    /\ closing.step = "set"
    /\ state' = [state EXCEPT ![closing.conn] = "HalfClosing"]
    /\ closing' = [closing EXCEPT !.step = "shutdown"]
    /\ UNCHANGED <<kernelVars, clients, objVars, pc, slotVars>>

\* Mutant: only the sending half is shut down.
ShutdownSends ==
    /\ closing.step = "shutdown"
    /\ closing' = NotClosing
    /\ UNCHANGED <<kernelVars, clients, objVars, state, pc, slotVars>>

\* ... and shuts down whatever socket the number stands for.
Shutdown ==
    /\ closing.step = "shutdown"
    /\ LET f == fd[closing.conn] IN
       input' = IF socket[f] = NoConn THEN input
                                      ELSE [input EXCEPT ![f] = "end"]
    /\ closing' = NotClosing
    /\ UNCHANGED <<socket, clients, objVars, state, pc, slotVars>>

\* ClearClientTimerFunc: the connections that are Closed are deleted.
ClearClientTimerFunc ==
    /\ MainIdle
    /\ LET gone == {f \in Fds : clients[f] # NoConn /\ state[clients[f]] = "Closed"} IN
       /\ gone # {}
       /\ life' = [c \in Conns |-> IF \E f \in gone : clients[f] = c
                                   THEN "freed" ELSE life[c]]
       /\ clients' = [f \in Fds |-> IF f \in gone THEN NoConn ELSE clients[f]]
    /\ UNCHANGED <<kernelVars, fd, state, pc, slotVars, closing>>

----------------------------------------------------------------------------
(* The connection's coroutine, on an IO thread                             *)

\* Input: recv_hook returns bytes, or none at all for the end of the stream.
Input(c) ==
    /\ pc[c] = "input"
    /\ LET f == fd[c] IN
       /\ input[f] # "nothing"
       /\ pc' = [pc EXCEPT ![c] = IF input[f] = "data" THEN "fresh" ELSE "close"]
       /\ input' = IF input[f] = "data" THEN [input EXCEPT ![f] = "nothing"] ELSE input
    /\ UNCHANGED <<socket, clients, objVars, state, slotVars, closing>>

\* The end of Input: while the slot exists it is to be put in the wheel again.
\* A slot of the popped bucket exists until it is released.
FreshTcpConnection(c) ==
    /\ pc[c] = "fresh"
    /\ tasks' = IF Held(c) \/ c \in dropped THEN Append(tasks, c) ELSE tasks
    /\ pc' = [pc EXCEPT ![c] = "work"]
    /\ UNCHANGED <<kernelVars, clients, objVars, state, wheel, dropped, age, closing>>

\* Execute and Output: back to Input.
Work(c) ==
    /\ pc[c] = "work"
    /\ pc' = [pc EXCEPT ![c] = "input"]
    /\ UNCHANGED <<kernelVars, clients, objVars, state, slotVars, closing>>

\* A handler ends its own connection (HttpDispatcher).
HandlerShutdown(c) ==
    /\ HandlerShuts
    /\ pc[c] = "work"
    /\ state' = [state EXCEPT ![c] = "HalfClosing"]
    /\ input' = [input EXCEPT ![fd[c]] = "end"]
    /\ pc' = [pc EXCEPT ![c] = "input"]
    /\ UNCHANGED <<socket, clients, objVars, slotVars, closing>>

\* ClearClient: the socket is unregistered and closed ...
ClearClient(c) ==
    /\ pc[c] = "close"
    /\ socket' = [socket EXCEPT ![fd[c]] = NoConn]
    /\ input' = [input EXCEPT ![fd[c]] = "nothing"]
    /\ pc' = [pc EXCEPT ![c] = "closed"]
    /\ UNCHANGED <<clients, objVars, state, slotVars, closing>>

\* ... and then the connection is marked.
SetClosed(c) ==
    /\ pc[c] = "closed"
    /\ state' = [state EXCEPT ![c] = "Closed"]
    /\ pc' = [pc EXCEPT ![c] = "yield"]
    /\ UNCHANGED <<kernelVars, clients, objVars, slotVars, closing>>

\* The last Yield: nobody resumes this coroutine again.
YieldForever(c) ==
    /\ pc[c] = "yield"
    /\ pc' = [pc EXCEPT ![c] = "parked"]
    /\ UNCHANGED <<kernelVars, clients, objVars, state, slotVars, closing>>

----------------------------------------------------------------------------

\* The peers send and close.
PeerSend(f) ==
    /\ socket[f] \in Conns /\ input[f] = "nothing"
    /\ Len(tasks) < MaxTasks
    /\ input' = [input EXCEPT ![f] = "data"]
    /\ UNCHANGED <<socket, clients, objVars, state, pc, slotVars, closing>>

PeerClose(f) ==
    /\ socket[f] \in Conns
    /\ input' = [input EXCEPT ![f] = "end"]
    /\ UNCHANGED <<socket, clients, objVars, state, pc, slotVars, closing>>

Release == (\E c \in Conns : ReleaseSlot(c)) \/ SetHalfClosing \/ Shutdown

CorStep(c) ==
    Input(c) \/ FreshTcpConnection(c) \/ Work(c) \/ HandlerShutdown(c)
    \/ ClearClient(c) \/ SetClosed(c) \/ YieldForever(c)

Next ==
    \/ \E c \in Conns, f \in Fds : Accept(c, f)
    \/ Fresh \/ LoopFunc \/ Release \/ ClearClientTimerFunc
    \/ \E c \in Conns : CorStep(c)
    \/ \E f \in Fds : PeerSend(f) \/ PeerClose(f)

Spec == Init /\ [][Next]_vars

\* The main thread serves its timers and its tasks in turn, so each of its
\* operations is done in the end however busy the others keep it, and an IO
\* thread runs each coroutine that can go on.  The peers owe nothing.
Fairness ==
    /\ SF_vars(Fresh) /\ SF_vars(LoopFunc) /\ SF_vars(ClearClientTimerFunc)
    /\ WF_vars(Release)
    /\ \A c \in Conns : WF_vars(CorStep(c))

FairSpec == Spec /\ Fairness

----------------------------------------------------------------------------

\* A connection is deleted by the timer, or by a later socket with its number,
\* only after its own socket was closed: the object owns the number till then.
DestroyedAfterClose ==
    \A c \in Conns : life[c] = "freed" => \A f \in Fds : socket[f] # c

\* Every open socket is served by the connection the map holds for it.
OpenIsMapped == \A f \in Fds : socket[f] \in Conns => clients[f] = socket[f]

\* The wheel shuts a connection down only after a full turn without a Fresh,
\* however the activity of the IO thread and the turns interleave.
IdleForATurn ==
    closing.step = "set" => /\ age[closing.conn] = Buckets
                            /\ closing.conn \notin ToSet(tasks)

\* The comment in ShutdownConnection: after the shutdown the connection is set
\* CLOSED, and a CLOSED connection is deleted.  Not so when its coroutine closes
\* it between the look at its state and the setting of HalfClosing, which then
\* replaces Closed.
ShutThenDeleted == \A c \in Conns : state[c] = "HalfClosing" ~> life[c] = "freed"

\* A connection whose peer falls silent, or closes, is closed and deleted, but
\* for one that was marked HalfClosing after its close.
EventuallyDeleted ==
    \A c \in Conns : life[c] = "alive" ~>
        \/ life[c] = "freed"
        \/ pc[c] = "fresh"
        \/ pc[c] = "parked" /\ state[c] = "HalfClosing"

\* The map and the objects keep their shape, and an open socket has its connection.
Sound == TypeOK /\ OpenIsMapped /\ DestroyedAfterClose

=============================================================================
