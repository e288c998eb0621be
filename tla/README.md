# Verification of tirpc

tirpc is a C++ RPC framework: a TCP server whose connections are served by
coroutines on a pool of IO threads, each with an epoll reactor; system calls
are hooked so that a coroutine that would block yields to its reactor; idle
IO threads steal runnable coroutines from busy ones; RPC and HTTP codecs,
dispatchers, a client, a service register and an asynchronous logger sit on
top. This directory holds TLA+ models of these parts, the TLC configurations that
check them, and proofs checked by TLAPS. Paths below are relative to
`src/tirpc/`.

## 1. Inventory

| Component | State | Operations | Talks to |
|---|---|---|---|
| Reactor loop, coroutine task queue (`net/base/reactor`) | epoll set `fds_`, pending adds and deletes, `pending_tasks_`, one queue of FdEvents per thread | `Loop`, `AddEvent`, `DelEvent`, `AddTask`, `AddCoroutine`, `Push`/`PopSome`/`Steal` | FdEvents, coroutines, timer; other threads' queues |
| FdEvent and container (`net/base/fd_event`) | reactor, interest, waiting coroutine per fd | `SetReactor`, `AddListenEvents`, `UnregisterFromReactor` | shared by hooks and reactors of all threads |
| Hooks (`coroutine/coroutine_hook`) | none of their own | `recv`, `send`, `accept`, `connect`, `sleep`: try, `toEpoll`, `Yield`, try again | FdEvent, timer, coroutine |
| Coroutines (`coroutine/coroutine`, `coctx`) | saved context, `is_in_cofunc_`, the thread's current coroutine | `Resume`, `Yield`, `SetCallBack` | everyone |
| Coroutine pool, memory (`coroutine/coroutine_pool`, `memory`) | free list, blocks | `GetCoroutineInstanse`, `ReturnCoroutine` | connections, io threads, async channel |
| Timer (`net/base/timer`) | time-ordered multimap, timerfd, cancel marks | `AddTimerEvent`, `DelTimerEvent`, `ResetArriveTime`, `OnTimer` | its reactor; callers on any thread |
| Coroutine mutex (`common/mutex`) | `lock_`, `sleep_cors_` | `Lock`, `Unlock` | reactor tasks, coroutines |
| TCP buffer (`net/tcp/tcp_buffer`) | byte vector, read and write index | `WriteToBuffer`, `ReadFromBuffer`, `RecycleRead/Write`, `ResizeBuffer`, `AdjustBuffer` | connection, codec |
| TCP connection (`net/tcp/tcp_connection`) | state, buffers, coroutine, slot of the wheel, replies | `Input`, `Execute`, `Output`, `ClearClient`, `ShutdownConnection` | hooks, codec, dispatcher, server, wheel |
| TCP server, acceptor (`net/tcp/tcp_server`) | map fd to connection | `AddClient`, `ClearClientTimerFunc`, `FreshTcpConnection` | connections, io threads, wheel, timer |
| Time wheel (`net/tcp/tcp_connection_time_wheel`) | queue of buckets of slots | `Fresh`, `LoopFunc` | connections (through slot destructors) |
| IO threads (`net/tcp/io_thread`) | reactors, semaphores, round-robin index | start handshake, `AddCoroutineTo...` | reactors |
| TCP client, RPC channels (`net/tcp/tcp_client`, `net/rpc/rpc_channel`, `rpc_async_channel`) | socket, replies by message number, time-out flag, finished flag | `SendAndRecvTinyPb`, `CallMethod`, `Wait` | hooks, timer, codec, io threads |
| Codecs, dispatchers, servlets (`net/rpc`, `net/http`) | partial packages in the buffer, servlet registry | `Encode`, `Decode`, `Dispatch` | buffer, connection |
| Service register, load balance (`net/service_register`, `common/zk_util`, `net/tcp/load_balance`) | ZooKeeper session, cached children, selector | `register`, `discover`, `select` | ZooKeeper (external), channel |
| Logger, thread pool, message numbers (`common`) | buffers and task queues, counters | `Push`, `LoopFunc`, `Stop`; `AddTask`; `GenMsgNumber` | all threads |
| Configuration (`common/config`) | typed variables, listeners, a lock each | `Lookup`, `SetValue`, `LoadFromYaml` | any thread; YAML (external) |
| Generator (`generator/tirpc_generator.py`) | the files of a generated project | one run over a `.proto` file | the user's edits; the file system |
| MySQL, sockets, addresses, utilities, start-up, examples | none that interleaves | wrappers, conversions | |

What makes the system hard:

* **Hand-over of coroutines.** A coroutine is named by the FdEvent it waits
  on, which moves from an epoll instance to a queue to a thief's batch. No
  lock covers the whole way. Correct means: one thread runs a stack at a time,
  every wait has exactly one wake-up, and whatever is ready runs eventually.
* **Timers.** `OnTimer`, additions and deletions interleave at the granularity
  of their locks, and one timerfd stands for all events. Correct means: no
  event is lost, run twice, early, after its deletion, or left unarmed.
* **Connection life cycle.** The coroutine closes, the main thread shuts down,
  replaces and deletes, and the kernel reuses fd numbers at once. Correct
  means: nothing is deleted while in use, nobody else's socket is touched,
  and every connection is deleted in the end.
* **Locks between coroutines.** A wake-up posted as a task runs later than the
  unlock that posted it.
* **Index arithmetic** over a buffer that is compacted under its user.
* **Framing.** Requests are cut anywhere, share a read with others and with junk,
  and the buffer that holds them moves. Correct means: each is handled once, in
  order, and answered without waiting for more input.
* **Calls with time-outs and retries**, where an answer, a time-out and a close
  race, and call-backs refer to the stack frame of the attempt they belong to.
  Correct means: a call ends once, not early, on its own socket.
* **Stacks that are passed on.** A coroutine of the pool outlives the call that
  took it by a few statements. Correct means: one owner per stack, and every
  stack comes back.
* **Threads that wait** for a semaphore, a condition or a byte of the eventfd.
  Correct means: what they wait for was not signalled just before.
* **Caches of something remote** (ZooKeeper's children), kept fresh by watches
  that fire once. Correct means: the cache is what ZooKeeper has, unless a change
  is on its way.

`PROJECT.json` lists each hazard at its line with the properties that cover it,
or why none does.

## 2. Modules

| Module | Models | Depends on |
|---|---|---|
| `Scheduler` | sub-reactor loop, task queues and stealing, FdEvents, hooks, context switches | |
| `IOThread` | start, stop and join of an IO thread; what others hand to its reactor | |
| `Timer` | timer of one reactor and a second thread that uses it | |
| `CoroutineMutex` | coroutine mutex, on the reactor's task list | |
| `ByteQueue` | abstract: a queue of bytes | |
| `TcpBuffer` | vector and indices; implements `ByteQueue` | `ByteQueue` |
| `RpcCodec`, `HttpCodec` | how a package, a request is laid out and found in the read buffer | |
| `RequestChannel` | abstract: requests handled once and in order, replies in order | |
| `TcpConnection` | `Input`, `Execute`, `Output` with codec and dispatcher; implements `RequestChannel` | codecs, `RequestChannel` |
| `TcpServer` | server map, time wheel, connection life cycle, fd reuse | |
| `RpcCall` | `RpcChannel` and `TcpClient`: retries, time-outs, connect, shared timer and descriptors | |
| `AsyncCall` | `RpcAsyncChannel` over the coroutine pool and its stacks | |
| `Registry` | service register on ZooKeeper, watches and cache | |
| `LoadBalance`, `MsgReq` | round robin and consistent hashing; message numbers | |
| `ThreadPool`, `AsyncLog` | worker threads; logger, its writers and their files | |
| `Config` | typed variables, YAML documents, the two locks of `SetValue` | |
| `Generator` | the files of generated projects over several runs | |
| `MCBackground` | one behaviour of the mutex, a pool or the logger | `CoroutineMutex`, `ThreadPool`, `AsyncLog` |
| `MCAsync` | one behaviour of a call or of an IO thread | `AsyncCall`, `IOThread` |
| `MCParts` | one behaviour of one of six parts | `TcpBuffer`, `Registry`, `Config`, `LoadBalance`, `MsgReq`, `Generator` |
| `MCScheduler`, `MCTimer`, `MCTcpServer`, `MCTcpConnection`, `MCRpcCall`, `MCCoroutineMutex` | instances for the runs | their module |
| `SequenceElements` | lemmas on elements, prefixes and disjointness of sequences, on the places of what is inserted, removed and cut, on least and greatest numbers of a set | |
| `SchedulerProofs`, `TimerProofs`, `RpcCallProofs`, `TcpConnectionProofs` | proofs | their module, `SequenceElements` |
| `BackgroundProofs` | proofs | `CoroutineMutex`, `AsyncLog` |
| `AsyncProofs` | proofs | `AsyncCall`, `IOThread` |
| `PartsProofs` | proofs | `TcpServer`, `TcpBuffer`, `LoadBalance`, `MsgReq`, `Generator`, `Registry` |

`MCBackground`, `MCAsync` and `MCParts` put modules that share nothing into one
run: a variable `part` chooses one of them at the start, and only its actions are
taken. This composes no behaviour; it saves runs.

### Scheduler

One `pc` per IO thread follows `Reactor::Loop`: `top`, `steal`/`stolen` or
`pop`/`popped`, `tasks`/`runTasks`, `wait`, `events`, `apply`. A thread whose
`current` is a coroutine executes that coroutine's step instead of the loop's.
One `at` per coroutine follows a hooked call: `run`, `arm` (missed, before
`toEpoll`), `yield` (registered, before its context is saved), `parked`,
`woken`, `reread`, then `run` again or `close`, `closing`, `done`.

| Action | Code |
|---|---|
| `LoopTop`, `StealFrom`, `StealDone`, `PopSome`, `ResumeTask`, `BatchDone` | start of a turn of `Loop`, `CoroutineTaskQueue` |
| `SwapTasks`, `RunTask`, `TasksDone` | `pending_tasks_` |
| `EpollWait`, `HandleEvent`, `HandleErrorEvent`, `TimerFires`, `EventsDone` | the events of one `epoll_wait`, in any order |
| `ApplyPending` | pending adds and deletes of other threads |
| `RecvReady`, `RecvMiss`, `ToEpoll`, `Yield`, `Disarm`, `Reread` | a hook |
| `ClearClient`, `YieldForever` | end of a connection's coroutine |
| `Sleep`, `OpenClient`, `CloseClient` | what a handler may do |
| `Accept`, `PeerSend`, `PeerClose`, `PeerReset` | main thread and peers |

Socket data is abstracted to readiness; read and write interest, never held
together, to one interest; the order of hooked calls inside a request is free.
An `Accept` only takes a free coroutine: `AsyncCall` has the pool.

### IOThread

The start with its two semaphores, then the loop: `BeginLoop`, `ResetStop` (the
assignment that loses an earlier `Stop`), `Turn`, `SwapTasks`, `RunTask`, the wait with
`Woken` or `TimesOut`, `Update` (pending additions, then removals, as the code
does). Other threads call `AddTask`, `AddEvent`, `DelEvent` and `Stop`; the
write of the eventfd (`Wakeup`) is a step after the change it is about. `Join` is
the destructor, which waits for nobody but the thread; who still uses the reactor then is not
followed beyond it.

### Timer

`pending` is the time-ordered sequence of the multimap. By its `pc` a thread is idle, or
stands between two of the locks: after the copy of `pending_events_` in
`ResetArriveTime`, after the cancel mark in `DelTimerEvent`, after collecting,
after re-adding repeated events, or at each task of `OnTimer`. An event is made, with its
arrival time, before it is added. It may be deleted while it is in the map, while
`OnTimer` has its task, after that has run, or although it repeats: `EraseFound` and
`EraseNext` are the two ends of `DelTimerEvent`'s search, and `lost` remembers the event that
was erased in another's place. `Tick` is the clock
and the kernel's timerfd. The task of a time-out may add and delete events.

### TcpServer

One main thread (accept, `ClearClientTimerFunc`, `LoopFunc`, tasks posted by
`FreshTcpConnection`) and one step sequence per connection's coroutine
(`Input`, refresh, `Work`, `ClearClient`, `SetClosed`, `YieldForever`). A slot lives while a
bucket or a posted task refers to it; its destructor calls `ShutdownConnection`,
whose look at the state, write of the state and use of the number are three
steps, as are the close, the mark and the `Yield` of the coroutine; any of the other
side's may come between. `socket` says which connection the kernel means by a
number. Client sockets, which take numbers from the same table, are left out.

### TcpConnection, RpcCodec, HttpCodec

A peer sends up to `MaxStream` requests (`PeerSend`). `Recv` takes any number of
their cells up to the room of the read buffer, which it first moves or resizes as
`Input` does; `RecvEnd` is the end of the stream, where the connection is closed.
`Execute` is one turn of the loop over packages: `Decode`, dispatch, `Encode` of the
reply. `Output` sends a part of the replies, `OutputDone` goes back to `Input`; a send that
fails is left to `TcpBuffer`. `OtherConnection` is a request of another connection that makes a
servlet, which all share, close from then on. For RPC a cell is a byte: signed four-byte lengths, the search for the
start and end marks, what `Decode` reads behind the bytes that have arrived
(`Strays`), and the arrays its texts are copied to and cut at a zero byte (`UpToNul`); a package
whose lengths fit neither fails in the model, and `PackagesFit` says that none is met. For HTTP a cell is what the parser never cuts: the request line, a
line end, all headers, a byte of content. `RegisteredServlets`, `RegisteredGlobs` and
the choice between them follow `http_dispatcher.cpp`.

### RpcCall

`call[c].pc` follows one coroutine through `RpcChannel::CallMethod` (address, client,
attempt), `TcpClient::SendAndRecvTinyPb` (time-out event, connect, send, receive, error
path) and `connect_hook`. Everything the calls of a thread share is shared here:
`pending` and `armed` are its timer, `tasks` what `OnTimer` has collected, `batch` one
`epoll_wait`, `queue` the task queue, `sock`, `watch` and `cor` the descriptors with
their FdEvents, `addrs` the channel's addresses. Time is relative to now and, unless the
fault `batched` or `connectSlow` says otherwise, passes only while the thread has
nothing to do and no connection is under way; with `batched` one `epoll_wait` reports several
events. A null
pointer that is followed ends the behaviour (`crashed`).

### AsyncCall

`handler[h]` follows a handler through `CallMethod`, `Wait`, `Yield` and return;
`stage[h]` the coroutine that makes the call; `holders[h]` are the references to the
channel. `Free`, `GetBlock` and `BackBlock` are `GetCoroutineInstanse`,
`ReturnCoroutine` and the free list of `Memory`. The call-back is a task of the
handler's thread (`RunResume`, `RunCallback`, `EndCallback`). Without `SaveCallee` (`CallUnset`) the
destructor gives a null pointer to the pool, which ends the behaviour. A handler that is
resumed before it has yielded is `torn`, a coroutine that is resumed with a
context not its own is `lost`; what follows is undefined and ends the behaviour.

### CoroutineMutex

`Lock` up to the release of the thread mutex, `Yield`, `Unlock` and the posted
task are separate steps. `Pause` and `Continue` are any other reason for which
the holder yields (a hooked call inside the critical section).

### TcpBuffer

The bytes of the vector and both indices, at the granularity of the buffer's
methods; `AdjustBuffer` is part of each operation that calls it.
`ImplementsQueue` maps the bytes between the indices to `ByteQueue`.

### ThreadPool, AsyncLog

A worker of `ThreadPool` takes the mutex and waits or copies the front of the
queue (`Loop`, `CopyFront`) and removes the front without the mutex (`Pop`); removing
from an empty queue is undefined and ends the behaviour. That `pop` itself may overlap another
access to the queue, a data race, is left out.

`AsyncLog` has both kinds of log. `Swap` and `Push` are `Logger::LoopFunc` step by
step, by the timer and by the end of the program; `Stop` and `Join` are `Flush` and the
end. `Look`, `Sleep` and `Write` are `AsyncLogger::Execute`; `Write` chooses the
file by date, number and size, as the code does. A batch that the writer has in its hands stays
at the front of `batches` until it is written; `Tasks` is the queue without it. The copy that
`LoopFunc` makes of the RPC buffer before it takes the lock (log.cpp:274) goes with `Swap`.

### Registry

`todo` is what a process still has to do, one call of the ZooKeeper client at a
time: `LookForCreate` and `Make` (exists, create), `LookForDelete` and `Drop`,
`GetChildrenNodes`, `ReadChildren`, `Store`, `Prune`. `ServiceWatcher` and
`StoreAgain` run on the client library's thread. What a call does next is rewritten in
its place (`Becomes`, `Done`), and `Answer` is what `Discover` and `Clear` do with the list of
`GetChildrenNodes`. A process that has only discovered may clear too. `Fire` tells those who watch a
node's parent of its end; the event of a watch on the node itself is one that `ServiceWatcher`
ignores. Nodes, watches, events and sessions are ZooKeeper's (external).

### Config, LoadBalance, MsgReq, Generator

`Config` makes of a document's node a value of a variable's kind: an integer, a string, a
vector, a set or a map, or nothing where the code's conversion throws. An element of a sequence
is what YAML prints of it (`Shown`). `LoadFromYaml` lists the nodes of a
document and sets them one at a time, `SetValue` compares and then
writes, under two locks, whatever other threads do in between. `LoadBalance` has the shared
index and the ring with its integer hash. `MsgReq` increments the digits from the right.
`Generator` writes the files of one service one step at a time and may be killed, or ended by an
exception, between any two, also between the copy of the `.proto` file and `protoc`.

## 3. Runs

A property named `Sound` is a conjunction of a type invariant and the named parts
listed here; a mutant in `PROJECT.json` breaks it at a named part, not at the type.

| Run | Checks | Bounds |
|---|---|---|
| `scheduler_steal` | `ExclusiveRun`, `OneWakeup` (a wait has one wake-up, not none or two, and none comes without its coroutine), `NoSpuriousClose`, `NoWorkLeftAtWait`, `ResumeSaved`, `IndInv` | 2 threads, 2 fds, 3 coroutines |
| `scheduler_client` | `OneWakeup` when a handler waits on its own client socket and peers reset | 1 thread, 3 fds, 3 coroutines |
| `scheduler_live` | `EventuallyResumed`: what is ready is resumed, what is accepted is started | 2 threads, 2 fds, 2 coroutines |
| `timer` | two threads: `Sound` (`NothingLost`, `NeverTwice`), `RunsOnlyDue`. One thread alone: `PunctualAlone` (`TimerArmed`, `NotTooLate`), `AllRunAlone` | 3 events; 5 ticks alone, 3 otherwise |
| `server` | `Sound` (`OpenIsMapped`, `DestroyedAfterClose`), `IdleForATurn`, `EventuallyDeleted`, under every interleaving | 2 connections, 2 fds, 2 buckets |
| `server_leak` | `ShutThenDeleted` is violated | 1 connection, 1 fd, 1 bucket |
| `connection` | `Sound` (`NoRequestLeftBehind`), `PackagesFit`, `ImplementsChannel`, `EventuallyReplied`, `ShutIsClosed` | 2 requests out of 3 RPC or 4 HTTP ones, a buffer that starts at 24 |
| `rpc_call` | `Sound` (`CallbackInFrame`, `NullCoroutine`, `OwnSocket`), `TimeoutNotEarly`, `CallReturns` | 2 callers, 3 calls, 2 addresses, 2 fds, 1 retry, one fault |
| `background` | mutex: `Sound` (`WaitingOnce`). Pool: `PoolRunsAll`. Logger: `KeepsLines` (`WrittenInOrder`, `EndWritesAll`), `EndEnds` | 4 coroutines; 1 or 2 workers, 3 tasks; 3 lines, 2 days |
| `async_call` | `Sound` (`OneOwner`, `ResumesWaiting`, `AllComeBack`), `WaitReturns`; `ThreadSound` (`NothingStranded`, `TasksInOrder`, `WatchesAsAsked`), `ThreadServes` (`TaskDone`, `DestructorReturns`) | 2 calls, 2 threads, pool of 1; 1 owner, 1 user, 2 tasks, 2 updates |
| `parts` | `RegistrySound` (`CacheFresh`, `RegisteredIsListed`, `NothingLeft`), `ConfigLoaded`, `BalanceSound` (`InTurn`, `KeepsItsAddress`, `ChosenIsOffered`), `ImplementsQueue`, `CountsUp`, `GeneratorSound` | 2 processes; 3 documents, 2 threads; 4 lists, 3 keys; 12 bytes; 3 digits; 2 runs, 1 edit |
| `mutex_exclusion` | `MutualExclusion` is violated | 2 coroutines, 1 thread |

Why the bounds are enough: two threads are a thief and a victim, and a third
only adds another thief. Two sockets let events of one `epoll_wait` be handled
in either order; a number is reused by the third coroutine or connection of
`scheduler_steal`, and by a second one on the first's number elsewhere. `Batch` = 1 makes every queue longer than one batch.
Three timer events have a first, a middle and a last, which is all that
`ResetArriveTime` tells apart; the clock runs past every repetition of interest.
Two buckets are the smallest wheel in which a connection can be refreshed.
`MaxTasks` of `TcpServer` bounds the refreshes that busy peers pile up before the main
thread serves them: what an accept posts comes on top, so that an old one may wait behind a new one.
`server_leak` needs one connection only. Four coroutines give the
mutex three waiters. The buffer of `TcpBuffer` starts at 3 and doubles twice, so that a third
of it is read, moved and resized; that of `connection` is filled exactly by
one package, outgrown by the next and moved within. Two callers are one call and
another that shares its timer and may take its descriptor number; a third call
starts when addresses have been removed. A pool of one coroutine makes the
second call find it used up. Three log lines fill a file and begin the next.
Peers and clocks are not bounded otherwise.

Deadlock is checked for the mutex (in `background` the other two parts may
stutter, as a pool that was stopped and a program that has ended do nothing
more); the other runs end when every coroutine or call has been used and every peer is
gone, or when a bound is reached, and say `CHECK_DEADLOCK FALSE`.

### Disagreement between the code and what it says

Two runs are expected to be violated and are the findings in `PROJECT.json`:

* `mutex_exclusion`: `Unlock` clears the flag although it hands the mutex to the first
  waiter, so that another coroutine takes it before the waiter returns from `Lock`.
* `server_leak`: the comment in `ShutdownConnection` (tcp_connection.cpp:267-271) says that the
  connection will be set CLOSED and deleted; when its coroutine closes it between the look at the
  state and the write of HalfClosing, Closed is overwritten and it stays in the map for ever.

### What the passing runs leave out

Where the code does not have a property, the run restricts its environment by a
constant or the property names the faults under which it is not claimed. Each
restriction can be lifted; TLC then finds the counterexample named here.

| Restriction | Without it |
|---|---|
| `Scheduler`: `HandlersSleep` and `PeersReset` not both | `OneWakeup` fails: `epoll_wait` reports the timer before a hang-up of a sleeping handler's socket; the handler arms the socket again and the stale hang-up (reactor.cpp:272) removes it |
| `Scheduler`: client sockets only with one thread | `ExclusiveRun` fails: a stolen coroutine's other FdEvents still name the old reactor (reactor.cpp:280-291) |
| `Timer`, `PunctualAlone` while `alone`: no tick inside an operation, no other user, no zero interval | `TimerArmed` fails: a time left of zero or less leaves the timerfd disarmed (timer.cpp:94-99) |
| `Timer`: `NothingLost` excepts one other event for each deletion of an event that is no longer in the map or repeats; `RunsOnlyDue` the tasks that `OnTimer` has taken by then | deleting an event that has run erases another (timer.cpp:76-78), and so does deleting a repeated one while it is being added again; tasks run from a copy (timer.cpp:156-158) |
| `TcpServer`: `EventuallyDeleted` excepts a connection that was marked HalfClosing after its close; nothing is claimed of its coroutine's last statements, nor of the number that `Shutdown` uses | it is never deleted (`server_leak`); the main thread deletes a connection whose coroutine has closed but not yet yielded (tcp_connection.cpp:148-155); the number is by then another connection's, which is shut down (tcp_connection.cpp:259-272) |
| `TcpBuffer`, `SendFails = FALSE` | the indices leave the vector: -1 goes to `RecycleRead` (tcp_connection.cpp:219-224) |
| `TcpConnection`, `CutAfterLine = FALSE`: no read ends between an HTTP request line and its end of line | `EventuallyReplied` fails: the rest of the request is never decoded |
| `TcpConnection`: place `again` exempt | a read that fills the buffer exactly reads again before `Execute` (tcp_connection.cpp:137), so a request waits for bytes that may never come |
| `RpcCall`: one fault at a time, and `batched` or `connectSlow` exempt where a property says so | reply and time-out in one `epoll_wait` resume a null coroutine (coroutine.cpp:152); a retry with no time left arms nothing (rpc_channel.cpp:105, timer.cpp:96); the connect time-out deletes another call's event (coroutine_hook.cpp:303, timer.cpp:77) |
| `CoroutineMutex`, one thread | `WaitingOnce` fails: the waiter is queued before its `Yield` (mutex.cpp:37-43), and a task of another thread resumes it while it runs |
| `ThreadPool`, `PoolRunsAll` for one worker | two workers run one task twice and drop the next; `pop` on an empty queue is undefined |
| `AsyncLog`: `twoLoops`, `behind`, `preempted`, `exit`, `restarted` | lines are swapped; the writer ends after the first of two batches; `Stop`'s signal, sent without the mutex, is lost; the app log's thread is not joined by `Exit` (log.cpp:452); a full file of an earlier run grows |
| `AsyncCall`: `preempt`, `stolen`, `connections`, `unset` | a stack is given to the next call while its last statements run; a handler that was stolen is resumed while it runs elsewhere; the entry in which a closed connection stood is never used again (coroutine_pool.cpp:53); without `SaveCallee` the destructor returns a null coroutine (rpc_async_channel.cpp:29) |
| `IOThread`: `early`, `unheard`, `overlapped` | a `Stop` before `ResetStop` is lost and `join` never returns (reactor.cpp:339); additions from before the loop are seen after the first wait of ten seconds; a second addition is dropped and removals follow additions (reactor.cpp:93) |
| `Registry`: `expiry`, `preempt`, `clearing`, `blind` paths | an expired session keeps its cache and has no watches (zk_util.cpp:27); `Discover` stores an older list over the watcher's (zk_util.cpp:138-139, 165-166); another's `Clear` deletes the root only `Init` makes (zk_service_register.cpp:21, 73); asking for a missing node sets no watch and caches "empty" (zk_util.cpp:136-146) |
| `Config`: `Loaded` excepts variables that another thread sets while a document is loaded | the value is compared under one lock and written under the next (config.hpp:355-367) |
| `LoadBalance`: `InTurn` for lists of one length, `collision` exempt | one index serves all services (load_balance.hpp): lists used in turn may starve an address; two lists with one hash share a ring |
| `Generator`: files a killed run left empty, retyped methods, lower-camel names | later runs skip an empty file; stale files stay; `getAge` and `setAge` both become `etAge` (tirpc_generator.py:103-109) |

Also seen while modelling, and not a property of any run:

* `LockReturns` of `CoroutineMutex` fails with three coroutines: a waiter that was
  handed the mutex finds the flag clear when it unlocks and wakes nobody.
* After its peer's close `Input` of a client's connection closes the descriptor
  and yields for ever, so only the time-out ends the call; the error path then
  closes the number again, which may be another call's (tcp_client.cpp:150).
  `ResetFd` leaves the connection's copy at the old number (tcp_client.cpp:127).
* When every attempt fails the reply is null and is followed
  (rpc_channel.cpp:135); a reply that does not parse returns without
  `done->Run` (rpc_channel.cpp:138).
* An HTTP request without headers never completes, and one with an unsupported
  method blocks its connection. A reply to HTTP 1.0 is encoded and never sent.
* `Config::Lookup` refuses the digit 9 and upper case in names although it documents
  `[0-9a-z_.]`; `FromString` returns false on success too; a listener that sets its
  own variable deadlocks.
* `AsyncLog`: the default size of a log file is five bytes.
* `LoadBalance`: a ring's hash is kept as an `int` and compared with a `size_t`, so
  it is made anew nearly every time (load_balance.hpp:81), and a collision keeps a
  stale ring.

### Fairness

* Every IO thread of `Scheduler` takes steps (`WF` of `ThreadStep`): the operating system
  schedules it, and `epoll_wait` returns after ten seconds at the latest.
* Hooks yield only on a miss. A peer that always has data ready would keep its
  thread for ever, so `FairSpec` of `Scheduler` asks for strong fairness of a
  miss; it is an assumption about peers, not about the code.
* Some `epoll_wait` finds all sleepers due (strong fairness): sleeps are
  bounded, and `Timer` checks on its own that the timer does run them.
  `scheduler_live` has no sleepers, for size.
* `Timer`, alone: time passes, the thread runs, and the loop reads a ready
  timerfd (weak fairness).
* `TcpServer`: the main thread serves timers and posted tasks in turn, so each
  of its operations happens in the end however busy the others keep it (strong
  fairness: they exclude each other); a coroutine that can go on does (weak).
* `TcpConnection`: bytes that were sent arrive, and the coroutine is resumed when there
  are any (what `Scheduler` shows). A wheel that shuts the connection down is not
  assumed to.
* `RpcCall`: the thread runs, time passes, and, unless `connectSlow`, a connection is
  made or refused. Peers need not answer.
* `background`: every thread runs. Nobody is assumed to add tasks, push lines or end the
  program.
* `async_call`: what is under way goes on. Nothing is assumed of `epoll_wait`'s
  time-out, so that a missing `Wakeup` is not repaired by it.
* `parts`: none.

## 4. Proofs

TLAPS checks seven modules of proofs and `SequenceElements`, for every value of
the constants within the named assumptions. TLC evaluates the assumptions in the runs:
`SchedulerAssumption`, `TimerAssumption`, `TcpServerAssumption`,
`CoroutineMutexAssumption`, `TcpBufferAssumption` and `AsyncAssumption` give bounds and null
values their types; `AsyncLogAssumption` says that lines, sizes and days are
numbers; `RpcCallAssumption` that time-outs are above zero and that callers and descriptors are
finitely many, with a descriptor for every caller (a failed `socket` is only
logged); `TcpConnectionAssumption` and `RequestsAreBytes` that what RPC peers send are bytes; `BalanceAssumption` that lists are sequences that are not empty and that places on the ring are
numbers; `MsgReqAssumption` that digits go from zero to a greatest one;
`GeneratorAssumption` and `RegistryAssumption` that methods and services are finitely many.

**`SchedulerProofs`** rests on `SchedulerAssumption` only (the
sets of fds are disjoint, the null values are not members, `Batch` is positive).

* `TypeCorrect`: `Spec => []TypeOK`, with client sockets too. The type alone is not
  inductive: `ToEpoll` writes `reactor[waitFd[c]]`, so the invariant adds that a
  coroutine inside a hook has an fd (`HookFd`).
* `Inductive`: `Spec => []IndInv` when `ClientFds = {}`. Its idea: a socket, its
  FdEvent and its coroutine are one unit, and at any time one thread, queue,
  batch, task list or timer holds it. `ExclusiveRun` by itself says nothing of
  units that are queued, so the invariant has a part for each place:
  `OwnerInv` (socket to coroutine is one to one), `WaitInv` (an FdEvent names the
  coroutine waiting on it), `RunInv` (a running coroutine's socket names its
  thread's reactor), `EpollInv` (armed means waiting, on that thread only),
  `EventInv` (a reported event still has its registration), `QueueInv`,
  `TaskInv`, `TimerInv` (each holds a unit once, and no two hold the same).
  One lemma per action shows that it moves one unit from one place to another;
  frame lemmas carry the parts it does not touch.
* `Exclusion`, `OneRegistration`, `QueuedOnlyWaiting`, `Saved`: consequences of
  `IndInv`, the last one an action property. `scheduler_steal` checks `IndInv`
  with TLC. `ClientFds = {}` is necessary (section 3).
* `OneWakeupEach`: `Spec => []OneWakeup` when `ClientFds = {}` and handlers do not
  sleep or peers do not reset (without the latter it fails, section 3). That there are not
  two wake-ups is counting: `IndInv` makes each of the seven sets that
  `Wakeups` adds up have at most one element and no two of them be non-empty
  (`WakeupsSum`, `CountedOnce`). That there is one at all needs three
  invariants more: `PlaceInv` (a batch and the swapped tasks are used up before they
  are overwritten), `HangInv` (a hang-up reported earlier never meets a new
  registration) and `WakeInv` (who waits is on its FdEvent and is armed, queued, a
  task or timed; an FdEvent with interest left on it has a coroutine, so that
  `AddListenEvents` never skips the reactor for a new wait).
* `NeverClosedEarly`: `Spec => []NoSpuriousClose` when `ClientFds = {}`, from
  `ReadyInv`: between the event and the second read nobody but the coroutine
  takes the socket's readiness away.
* `NoneLeftBehind`: `Spec => []NoWorkLeftAtWait` with client sockets too, from
  `PlaceInv`: nobody but its own thread adds to a queue.

**`TimerProofs`** proves `SoundHolds` and `RunsOnlyDueHolds` for any number of threads and
events, whenever an event is deleted and whichever. `NothingLost` and `NeverTwice` are
not inductive: they do not say what a deletion that has marked its event will find.
`TimerInv` adds where an event is by its status (`NewInv`, `MadeInv`, `KeptInv`), in which two
places it may be at once (`OnceInv`), and what `OnTimer` holds at each of its steps (`LoopInv`).
A deletion may come at any time, so three parts follow it: `EraseInv` says that an event
between the two steps of its deletion is one thread's to erase, `LostInv` that an event erased in
another's place was lost to a deletion that is over, of an event that repeats or was no longer in
the map, and to no other event's, and `TaskInv` that what `OnTimer` holds has arrived
and that an event deleted before it was collected stays cancelled and is not held. The lemmas on
insertion, removal and cutting keep the map sorted by arrival time. Where a proof needs
induction over numbers it takes the smallest counterexample (`Smallest`, `UpTo`).

`PunctualAloneHolds` adds that all intervals are above zero (the code fails otherwise,
section 3): while the reactor's thread is the only user of its timer and the clock
does not tick inside an operation (`alone`), the timerfd is armed or has expired
whenever events are pending between operations, and no event is overdue by more than
the longest interval. `PunctualInv` is what makes it inductive: the
others do nothing (`CalmInv`), everything in the map lies ahead at the moment the
timerfd is about to be set (`AheadInv`), it is set for no later than an interval from now
(`ArmedInv`) and so no later than an interval after any event of the map (`LateInv`).

**`RpcCallProofs`** proves `SoundHolds` and `TimeoutNotEarlyHolds` of the client's calls, for any
number of callers, addresses, retries and calls and all time-outs. Both properties are claimed
under one fault at a time; the invariant `RpcInv` claims each of its parts under the faults that
leave it true:

* `Alone` and `Places`: a caller's place says what its descriptor is, who made the socket and
  what came on it; without overlapping calls the lowest number is the caller's. `OwnSocket` is a
  consequence; it is not inductive because the error path closes a number that `Input` may have
  closed before.
* `Cors` and `Queued`: an FdEvent names the coroutine that waits on it, and unless events are batched a
  thread has at most one thing collected, so that no resumption finds the coroutine gone
  (`NullCoroutine`).
* `PromptInv`, when neither events are batched nor a connection is slow: every event, pending or collected, is of
  an attempt that goes on and is there once; whoever is resumed without data has no time left
  and no event. `CallbackInFrame` follows.
* `SlowInv`, in the other cases: then events do outlive their attempts, with a call-back into a
  frame that is gone, and `CallbackInFrame` fails. `TimeoutNotEarly` holds
  all the same, for a reason that is not in the code's design: an event left over stands
  first in the map, its time-out lies in the past or is the one being handled, and the timerfd is not armed
  again for what is behind it (`StaleFirst`, `Dead`), so that a call-back which runs finds its own call without time
  left (`SlowTasks`, `SlowOver`).

That events are a sorted sequence is used through their places: `Due` counts those that
arrive by a time, `InsertPlaces` and `CutPlaces` of `SequenceElements` say where each is afterwards.

**`TcpConnectionProofs`** proves, for any requests, any services and servlets, any cut of
the stream into parts and any first size of the buffer:

* `SoundHolds`: `Spec /\ []PackagesFit => []Sound`. `NoRequestLeftBehind` speaks of the moment
  before a read only; `Quiet` adds the time in which `Output` sends. That `Execute` ends its loop with no
  request left is `DecodeFinds`: when marks and a length frame a package in the buffer, `Decode` takes one,
  and the bytes behind those that have arrived, which it reads as well, make none (`FramedStarts`,
  `PartialTakesNothing`). The indices stay in order because what `Decode` takes is at most what
  is there (`DecodedTakes`) and since `AdjustBuffer` and the resizing move the unread bytes as they
  are (`MovedKeeps`, `ReceiveKeeps`).
  The hypothesis is about what the peer sends: wherever `Decode` finds a start mark whose length has
  arrived, the fields fit into the package and the texts into the arrays of 50, 512 and 512 bytes
  they are copied to, and a length of which a part has arrived is not
  negative. Without it the property is false: a negative length moves the read index back, and after
  a package whose fields do not fit the loop ends although a whole one may follow. It is not a fact
  about each request alone, since `Decode` tries every byte 2 of what stands in the buffer
  as a start. `PackagesFit` is an invariant of the run `connection`, so that the
  theorem is not an empty one.
* `HttpSoundHolds`: `Spec /\ protocol = "http" => []Sound`, without a hypothesis: the HTTP decoder looks at
  unread cells only and takes at most what it has looked at (`HttpTakes`).
* `AnswersInOrder`: `Spec => [][UNCHANGED replies \/ Channel!Answer]_vars`, the sending half of
  `ImplementsChannel`, for any bytes: what has been sent and what is still to be sent are together the
  replies to the requests handled, each once and in order (`AnswerInv`), and a step of `Output` adds the
  next of them. `RepliesTo` is a recursive function over the requests; that one request more
  adds its reply and changes no other is shown by the least place where it would fail (`RepliesGrow`).

**`BackgroundProofs`** proves

* `SoundHolds` of the mutex when `Threads` is a singleton (section 3),
  for any number of coroutines: `OneRuns` (one coroutine runs) makes the window
  between queueing and `Yield` invisible to others, and `Placed` says that each
  waiter is in the queue or a task according to its place.
* `KeepsLinesHolds` of the logger, for any number of lines, sizes of files and days and
  any set of faults. `WrittenInOrder` says nothing of lines that are not written yet, so
  `LogInv` numbers them through: files, queue, what `LoopFunc` has moved and buffer
  follow one another without a gap (`InOrder`). `OneLoop` says what a `LoopFunc` holds between
  `Swap` and `Push`, `OneBatch` that the queue has at most one batch besides the one in the thread's
  hands, `EndCounts` that what was pushed before the end has left the
  buffer by the time of the joins, and `LastFile` that the open file is the last of its
  date, so that a full one is not chosen again. Each part is claimed only under the faults
  under which its property is.

**`AsyncProofs`** proves

* `AsyncSoundHolds`, for any number of calls and threads and any size of the pool.
  `OneOwner` speaks of stacks in use now; why a stack given back is nobody's any more
  needs to know who refers to it. `HolderInv` says which of handler, coroutine and call-back
  hold a channel at each of their places, `OwnerInv` that the stack of a channel that
  somebody holds is in use for this call only, and `UsedInv` the converse, from which
  `AllComeBack` follows. `PostedInv`, `OnceInv` and `CallbackInv` say that a task is posted
  once and for whom. Only `UndisturbedInv` needs that nothing is preempted: the
  call-back holds the channel until the coroutine has yielded. Only `StayInv`
  needs that the handler was not stolen.
* `ThreadSoundHolds`, for any number of users and however early a `Stop`
  comes: `WakeInv` says that what was added since the loop's last look is announced by the
  eventfd or by a caller about to write it, `TaskInv` numbers the tasks that ran, that are
  taken and that are pending, and `WatchInv` relates the pending addition and
  removal to the last call.

**`PartsProofs`** proves

* `BufferTypeCorrect` and the refinement `Implements` of `TcpBuffer` when no send fails: `Good`
  says that the indices are in order and in the vector, and each operation is
  shown to move, keep or shift the sequence of bytes between them.
* `BalanceSoundHolds`, for any lists, any ring and any number of choices: `TurnInv` says
  that the shared index is the place chosen last, whatever the lists' lengths, and
  `ChoiceInv` that one ring is kept and that what was chosen without a collision is what the offered
  list's own ring gives. That a key keeps its address when others leave is a fact about least points
  of a ring and of a part of it.
* `CountsUpHolds`, for every base and length: `Increment` adds one to the
  number that the digits stand for. `Value` is a recursive function; what it gives for two
  numbers that differ from one digit on is shown by taking the least digit at which
  the claim fails.
* `GeneratorSoundHolds`, for every finite set of methods and any number of runs,
  kills, edits and changes of the `.proto` file. `FitsTheProto` holds only when a run has
  ended; `GenRun` says for each file that it is as it should be or that a step of the
  run is left that will make it, `GenOrder` in which order steps are left, and
  `GenFiles` that a file which is open is empty and one that is neither open nor torn is
  whole.

Of `Registry` it proves `RegistrySoundHolds` for any number of processes, consumers,
services and calls, with deaths, preemption and clearing as the
behaviour's faults allow. `RegInv` claims nothing once a session has expired;
until then it has, for each property, what that property leaves open:

* `RegCalls` gives the shape of what is left of each kind of call: a `Clear` deletes
  its addresses, then looks at each path once. Without it nothing is known of a
  process between two calls of the client.
* `RegListed`, for `RegisteredIsListed`: while a `Register` is under way its parents are there, and
  nobody clears then unless the fault `clearing` says so.
* `RegOwned`: an address in the tree belongs to a process that registered it and has
  not deleted it yet; a node's parent is in the tree.
* `RegLeft`, for `NothingLeft`: while a service's node is there, some process will
  still look whether it is empty, and one that has just looked has seen that it was.
  This needs that a `Clear` reads ZooKeeper and not its cache, which is
  `RegUntouched`: a process that has discovered nothing has nothing cached of a path
  that its `Clear` has not read yet.
* `RegFresh`, for `CacheFresh`: what is watched, or was until an event that waits, is
  cached or about to be stored; and a list that was read is ZooKeeper's and
  watched, unless an event of its path waits or the path was asked for in vain.

Of `TcpServer` it proves, for any number of connections, numbers and buckets, under every
interleaving of the main thread and the coroutines:

* `SoundHolds` (the map has every open socket; nothing is deleted or replaced
  before its close) from `SocketInv`, which says for each place of a connection's
  life whether its socket is still its own;
* `IdleForATurnHolds` from `WheelInv`: a slot put in the wheel less than a turn ago is
  in the bucket that its age says, so that one which nothing holds has gone
  round.

Only model-checked:

* all liveness (`EventuallyResumed`, `AllRunAlone`, `EventuallyDeleted`, `EventuallyReplied`,
  `ShutIsClosed`, `CallReturns`, `PoolRunsAll`, `EndEnds`, `WaitReturns`, `ThreadServes`): out of the
  prover's reach;
* `ConfigLoaded`: the names of a document's nodes and the nodes themselves are recursive over
  nested documents, and what a recursive operator computes for every input needs an induction
  over data that the provers cannot do;
* the handling half of `ImplementsChannel`: that the requests handled are those that were sent,
  wherever reads cut them, is an induction over the bytes of the stream. `Sound` of `TcpConnection`
  for an RPC peer is proved only while `PackagesFit` holds, and that the requests sent have it
  is checked.

## 5. Plan

The order was: `Scheduler` with its proofs, `Timer`, `TcpServer`, `CoroutineMutex`,
`TcpBuffer`; then the connection with its codecs, the client's calls, the
asynchronous calls with the pool, IO threads, logger, pool, register and
the small parts; then the proofs of the server, the mutex, the buffer, the timer and
the IO thread; then those of the asynchronous call, the timer alone, the logger, load balance, message
numbers, the generator and the register; last those of the client's calls and of the connection.
What remains worth doing:

1. The handling half of `ImplementsChannel`: that what is unread, on the wire and to be written is
   the rest of the stream, for packages in which no byte 2 stands but at the start.
2. A composition of `RpcCall` with `Timer`: `RpcCall` has the timer's order of
   steps on its own thread, not the second thread of `Timer`.
3. A failed send that is passed on to `RecycleRead` (tcp_connection.cpp:219): `TcpBuffer` has it
   as `SendFails`, where its invariant fails; no run has the connection go on after it.

## 6. Not modelled

* MySQL: a wrapper that is compiled only with a plugin, and then does not compile
  (`g_rpc_config` is declared nowhere). Sockets, addresses, bytes, MD5, the random
  strategy, start-up: wrappers and conversions without interleaving or state.
* Examples and the code protoc generated for them: not part of the library, and
  the largest files of the repository.
* Register contents of `coctx_swap`: abstracted to saved or not saved. Memory
  ordering of the machine: a data race appears as an interleaving of the steps
  between locks.
* Logger: formatting, levels, a log file that cannot be opened, the signal handler's place on top
  of an interrupted thread, whose locks it takes again (log.cpp:36-50; the model gives it a thread
  of its own), and the race of `PushRpcLog` with the copy of the buffer (log.cpp:274).
* Thread pool: a `pop` of the queue that overlaps another access to it.
* Connection: what happens after a failed send, which the code logs and passes to `RecycleRead`
  (tcp_connection.cpp:219-224); `TcpBuffer` shows what it does to the indices.
* Server: client sockets, which take numbers from the table its connections do.
* Registry: the connected event that comes before `zoo_set_context` (zk_util.cpp:65-71)
  and several servers of one process that share one register (tcp_server.cpp:82).
* Configuration: listeners (nothing in the repository has one), `ToString`, and keys of its YAML
  files that no variable has.
* Generator: several services of one file, directories, the run script, and
  options (without `-o` line 52 indexes an empty string; `--output` of the help is
  rejected at line 641).
* Main reactor: an environment of `TcpServer`. Nothing steals from it.

## 7. Running

    tlc -workers 2 -config SchedulerSteal.cfg MCScheduler
    tlapm SchedulerProofs.tla

`PROJECT.json` names for every run its module, configuration and properties,
and for every property a mutated definition that breaks it.
