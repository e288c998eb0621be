------------------------------ MODULE Registry ------------------------------
(***************************************************************************)
(* ZkServiceRegister on ZkClient (zk_service_register.cpp, zk_util.cpp):   *)
(* processes list their addresses under their services in ZooKeeper, read  *)
(* the lists through a cache that one-shot child watches keep fresh, and   *)
(* take their nodes away when they end.  Each call of the C client is a    *)
(* step; ZooKeeper itself (nodes, watches, sessions) is external.          *)
(***************************************************************************)
EXTENDS Naturals, FiniteSets, SequencesExt

CONSTANTS
    Processes,      \* processes with a register each; also their addresses
    Consumers,      \* those that call Discover
    Services,       \* names of services
    RegistryFaults, \* the sets of faults a behaviour may meet
    MaxDiscovers    \* bound: calls of Discover of a process

ASSUME RegistryAssumption == IsFiniteSet(Services)

(* Faults:                                                                 *)
(*   expiry     one session may expire; until it is opened again its calls *)
(*              fail                                                       *)
(*   preempt    the watcher's thread may run between a read of the         *)
(*              children and the store into the cache                      *)
(*   clearing   a process may clear while another one registers, or has    *)
(*              started and not registered yet                             *)
(*   death      one process may die without clearing                       *)

VARIABLES
    faults,
    nodes,      \* ZooKeeper's tree: a node is the sequence of names below "/"
    watches,    \* <<process, path>>: the child watches that are set
    events,     \* paths of the child events a process has not handled, in order
    session,    \* the process's session: "new", "waiting", "open", "expired", "closed"
    todo,       \* what is left of the call of its application thread
    got,        \* the children that call has read
    watcher,    \* its watcher's thread: what it has read and for which path
    cache,      \* childrenNodesMap_: {} stands for no entry, {list} for one
    stage,      \* "new"; "registered" from its first Register or its Clear on;
                \* "cleared" or "dead"
    served,     \* serviceSet_; with the address it gives pathSet_
    blind,      \* paths it asked for while they did not exist, or whose node went
    discovers   \* calls of Discover

registryVars == <<faults, nodes, watches, events, session, todo, got, watcher, cache, stage,
                  served, blind, discovers>>

Root == <<"tirpc">>
ServicePath(s) == <<"tirpc", s>>
AddressPath(s, p) == <<"tirpc", s, p>>
Paths == {Root} \cup {ServicePath(s) : s \in Services}

Under(path) == {node \in nodes : Len(node) = Len(path) + 1 /\ Front(node) = path}
Children(path) == {Last(node) : node \in Under(path)}

\* The process is in a call, or rests between two.
Busy(p) == todo[p] # <<>>
Idle(p) == session[p] = "open" /\ ~Busy(p)

RegistryInit ==
    /\ faults \in RegistryFaults
    /\ nodes = {} /\ watches = {}
    /\ events = [p \in Processes |-> <<>>]
    /\ session = [p \in Processes |-> "new"]
    /\ todo = [p \in Processes |-> <<>>]
    /\ got = [p \in Processes |-> {}]
    /\ watcher = [p \in Processes |-> {}]
    /\ cache = [p \in Processes |-> [path \in Paths |-> {}]]
    /\ stage = [p \in Processes |-> "new"]
    /\ served = [p \in Processes |-> {}]
    /\ blind = [p \in Processes |-> {}]
    /\ discovers = [p \in Processes |-> 0]

----------------------------------------------------------------------------
\* ZooKeeper.

\* What a call can return: while the client connects it waits.
Reply(p) ==
    CASE session[p] = "open" -> {"ok"}
      [] session[p] = "expired" -> {"error"}
      [] OTHER -> {}

\* The tree has changed at this node: the watches on it and on its parent fire.
\* The event of a deleted node is not a child event, and serviceWatcher ignores it.
Fire(node, gone) ==
    LET told == {w \in watches : w[2] = Front(node)}
        over == {w \in watches : gone /\ w[2] = node}
    IN  /\ watches' = watches \ (told \cup over)
        /\ events' = [p \in Processes |-> IF <<p, Front(node)>> \in told
                                           THEN Append(events[p], Front(node)) ELSE events[p]]
        /\ blind' = [p \in Processes |-> IF <<p, node>> \in over THEN blind[p] \cup {node} ELSE blind[p]]

\* zoo_create and zoo_delete; a parent must be there, and a node with children
\* stays.
Creates(node) ==
    IF node \notin nodes /\ (node = Root \/ Front(node) \in nodes)
    THEN nodes' = nodes \cup {node} /\ Fire(node, FALSE)
    ELSE UNCHANGED <<nodes, watches, events, blind>>

Deletes(node) ==
    IF node \in nodes /\ Under(node) = {}
    THEN nodes' = nodes \ {node} /\ Fire(node, TRUE)
    ELSE UNCHANGED <<nodes, watches, events, blind>>

----------------------------------------------------------------------------
\* The client's calls; each is an operation on a path.

Next1(p, op) == Busy(p) /\ Head(todo[p])[1] = op
Path(p) == Head(todo[p])[2]
Becomes(p, op) == todo' = [todo EXCEPT ![p] = [@ EXCEPT ![1] = <<op, Path(p)>>]]
Done(p) == todo' = [todo EXCEPT ![p] = Tail(@)]
Clearing(p) == Busy(p) /\ Last(todo[p])[1] = "stop"
Treeless == UNCHANGED <<nodes, watches, events, blind>>
Rest == UNCHANGED <<faults, session, watcher, stage, served, discovers>>

\* create looks whether the node is there, and makes it if it knows it is not.
LookForCreate(p) ==
    /\ Next1(p, "create")
    /\ \E r \in Reply(p) :
          IF r = "ok" /\ Path(p) \notin nodes THEN Becomes(p, "make") ELSE Done(p)
    /\ Treeless /\ Rest /\ UNCHANGED <<got, cache>>

Make(p) ==
    /\ Next1(p, "make")
    /\ \E r \in Reply(p) : IF r = "ok" THEN Creates(Path(p)) ELSE Treeless
    /\ Done(p)
    /\ Rest /\ UNCHANGED <<got, cache>>

\* deleteNode looks, and deletes unless it knows that the node is not there.
LookForDelete(p) ==
    /\ Next1(p, "delete")
    /\ \E r \in Reply(p) :
          IF r = "ok" /\ Path(p) \notin nodes THEN Done(p) ELSE Becomes(p, "drop")
    /\ Treeless /\ Rest /\ UNCHANGED <<got, cache>>

Drop(p) ==
    /\ Next1(p, "drop")
    /\ \E r \in Reply(p) : IF r = "ok" THEN Deletes(Path(p)) ELSE Treeless
    /\ Done(p)
    /\ Rest /\ UNCHANGED <<got, cache>>

\* getChildrenNodes: what is cached is returned.  Discover is done then, Clear
\* looks at what it got.
Answer(p) == IF Clearing(p) THEN Becomes(p, "prune") ELSE Done(p)

GetChildrenNodes(p) ==
    /\ Next1(p, "children")
    /\ IF cache[p][Path(p)] # {}
       THEN got' = [got EXCEPT ![p] = UNION cache[p][Path(p)]] /\ Answer(p)
       ELSE Becomes(p, "read") /\ UNCHANGED got
    /\ Treeless /\ Rest /\ UNCHANGED cache

\* getChildren: a failure looks like an empty list; a watch is only set on a
\* node that is there.
GetChildren(p, path, r) ==
    /\ watches' = IF r = "ok" /\ path \in nodes THEN watches \cup {<<p, path>>} ELSE watches
    /\ blind' = IF path \notin nodes THEN [blind EXCEPT ![p] = @ \cup {path}] ELSE blind
    /\ UNCHANGED <<nodes, events>>

Listed(path, r) == IF r = "ok" THEN Children(path) ELSE {}

ReadChildren(p) ==
    /\ Next1(p, "read")
    /\ \E r \in Reply(p) :
          /\ GetChildren(p, Path(p), r)
          /\ got' = [got EXCEPT ![p] = Listed(Path(p), r)]
    /\ Becomes(p, "store")
    /\ Rest /\ UNCHANGED cache

Store(p) ==
    /\ Next1(p, "store")
    /\ cache' = [cache EXCEPT ![p][Path(p)] = {got[p]}]
    /\ Answer(p)
    /\ Treeless /\ Rest /\ UNCHANGED got

\* Clear deletes a service's node, and the root, when it has no children.
Prune(p) ==
    /\ Next1(p, "prune")
    /\ IF got[p] = {} THEN Becomes(p, "delete") ELSE Done(p)
    /\ Treeless /\ Rest /\ UNCHANGED <<got, cache>>

\* stop closes the session; what it watched is forgotten.
Stop(p) ==
    /\ Next1(p, "stop")
    /\ session' = [session EXCEPT ![p] = "closed"]
    /\ stage' = [stage EXCEPT ![p] = "cleared"]
    /\ watches' = {w \in watches : w[1] # p}
    /\ events' = [events EXCEPT ![p] = <<>>]
    /\ watcher' = [watcher EXCEPT ![p] = {}]
    /\ Done(p)
    /\ UNCHANGED <<faults, nodes, got, cache, served, blind, discovers>>

----------------------------------------------------------------------------
\* The register's calls.

Begin(p, steps) ==
    /\ todo' = [todo EXCEPT ![p] = steps]
    /\ Treeless /\ UNCHANGED <<faults, got, watcher, cache>>

\* It counts on the root, which only Init makes, or on its service's node.
Registering(p) ==
    \/ session[p] \in {"waiting", "open"} /\ stage[p] = "new"
    \/ Busy(p) /\ Last(todo[p])[1] \in {"create", "make"}
Undisturbed == "clearing" \in faults \/ \A q \in Processes : ~Clearing(q)

\* start and Init: the root is made once the session is there.
Start(p) ==
    /\ session[p] = "new" /\ Undisturbed
    /\ session' = [session EXCEPT ![p] = "waiting"]
    /\ Begin(p, <<<<"create", Root>>>>)
    /\ UNCHANGED <<stage, served, discovers>>

\* A path is made level by level.
Register(p, s) ==
    /\ Idle(p) /\ stage[p] \in {"new", "registered"} /\ s \notin served[p]
    /\ Undisturbed
    /\ Begin(p, <<<<"create", ServicePath(s)>>, <<"create", AddressPath(s, p)>>>>)
    /\ served' = [served EXCEPT ![p] = @ \cup {s}]
    /\ stage' = [stage EXCEPT ![p] = "registered"]
    /\ UNCHANGED <<session, discovers>>

Discover(p, s) ==
    /\ Idle(p) /\ p \in Consumers /\ discovers[p] < MaxDiscovers
    /\ discovers' = [discovers EXCEPT ![p] = @ + 1]
    /\ Begin(p, <<<<"children", ServicePath(s)>>>>)
    /\ UNCHANGED <<session, stage, served>>

\* A process that only discovered clears as well.
Clear(p) ==
    /\ Idle(p) /\ stage[p] \in {"new", "registered"}
    /\ "clearing" \in faults \/ \A q \in Processes \ {p} : ~Registering(q)
    /\ LET list == SetToSeq(served[p]) IN
       Begin(p, [i \in DOMAIN list |-> <<"delete", AddressPath(list[i], p)>>]
                \o [i \in DOMAIN list |-> <<"children", ServicePath(list[i])>>]
                \o <<<<"children", Root>>, <<"stop", Root>>>>)
    /\ stage' = [stage EXCEPT ![p] = "registered"]
    /\ UNCHANGED <<session, served, discovers>>

----------------------------------------------------------------------------
\* The watcher's thread of a process.

MayRun(p) == "preempt" \in faults \/ ~Next1(p, "store")

\* Mutant: the list is taken from an event without a new watch.
ReadAgainOnce(p, r) ==
    /\ watcher' = [watcher EXCEPT ![p] = {<<Head(events[p]), Listed(Head(events[p]), r)>>}]
    /\ UNCHANGED <<nodes, watches, blind>>

\* A child event has the children read, and watched, again.
ReadAgain(p, r) ==
    LET path == Head(events[p]) IN
    /\ watcher' = [watcher EXCEPT ![p] = {<<path, Listed(path, r)>>}]
    /\ watches' = IF r = "ok" /\ path \in nodes THEN watches \cup {<<p, path>>} ELSE watches
    /\ blind' = IF path \notin nodes THEN [blind EXCEPT ![p] = @ \cup {path}] ELSE blind
    /\ UNCHANGED nodes

ServiceWatcher(p) ==
    /\ session[p] # "closed" /\ watcher[p] = {} /\ events[p] # <<>> /\ MayRun(p)
    /\ \E r \in Reply(p) : ReadAgain(p, r)
    /\ events' = [events EXCEPT ![p] = Tail(@)]
    /\ UNCHANGED <<faults, session, todo, got, cache, stage, served, discovers>>

StoreAgain(p) ==
    /\ watcher[p] # {} /\ MayRun(p)
    /\ \E read \in watcher[p] : cache' = [cache EXCEPT ![p][read[1]] = {read[2]}]
    /\ watcher' = [watcher EXCEPT ![p] = {}]
    /\ Treeless /\ UNCHANGED <<faults, session, todo, got, stage, served, discovers>>

\* globalWatcher: the semaphore start waits for, and a new start when the
\* session has expired: a new handle, the cache as it is and no watch.
Connected(p) ==
    /\ session[p] = "waiting"
    /\ session' = [session EXCEPT ![p] = "open"]
    /\ Treeless /\ UNCHANGED <<faults, todo, got, watcher, cache, stage, served, discovers>>

Expire(p) ==
    /\ "expiry" \in faults /\ faults' = (faults \ {"expiry"}) \cup {"expired"}
    /\ session[p] = "open"
    /\ session' = [session EXCEPT ![p] = "expired"]
    /\ watches' = {w \in watches : w[1] # p}
    /\ UNCHANGED <<nodes, events, blind, todo, got, watcher, cache, stage, served, discovers>>

Restart(p) ==
    /\ session[p] = "expired" /\ events[p] = <<>> /\ watcher[p] = {}
    /\ session' = [session EXCEPT ![p] = "waiting"]
    /\ Treeless /\ UNCHANGED <<faults, todo, got, watcher, cache, stage, served, discovers>>

\* A process dies: its session ends, its nodes are not ephemeral.
Die(p) ==
    /\ "death" \in faults /\ faults' = (faults \ {"death"}) \cup {"dead"}
    /\ session[p] = "open" /\ stage[p] = "registered"
    /\ session' = [session EXCEPT ![p] = "closed"]
    /\ stage' = [stage EXCEPT ![p] = "dead"]
    /\ watches' = {w \in watches : w[1] # p}
    /\ events' = [events EXCEPT ![p] = <<>>]
    /\ watcher' = [watcher EXCEPT ![p] = {}]
    /\ todo' = [todo EXCEPT ![p] = <<>>]
    /\ UNCHANGED <<nodes, got, cache, served, blind, discovers>>

----------------------------------------------------------------------------
Call(p) ==
    \/ LookForCreate(p) \/ Make(p) \/ LookForDelete(p) \/ Drop(p)
    \/ GetChildrenNodes(p) \/ ReadChildren(p) \/ Store(p) \/ Prune(p) \/ Stop(p)

Watch(p) == ServiceWatcher(p) \/ StoreAgain(p) \/ Connected(p) \/ Restart(p)

RegistryNext ==
    \E p \in Processes :
        \/ Call(p) \/ Watch(p) \/ Start(p) \/ Clear(p) \/ Expire(p) \/ Die(p)
        \/ \E s \in Services : Register(p, s) \/ Discover(p, s)

----------------------------------------------------------------------------
\* When a process rests and has handled its events, its cache is what ZooKeeper
\* has, for every path that it found when it asked and that was not deleted
\* since: nobody watches those.
CacheFresh ==
    faults \cap {"expired", "preempt"} = {} =>
        \A p \in Processes : Idle(p) /\ events[p] = <<>> /\ watcher[p] = {} =>
            \A path \in Paths \ blind[p] : cache[p][path] \in {{}, {Children(path)}}

\* A process that has registered is listed, unless its call failed or another
\* process took the root or the service's node away under it: only Init makes
\* the root, and a path is not made in one step.
RegisteredIsListed ==
    faults \cap {"expired", "clearing"} = {} =>
        \A p \in Processes : Idle(p) => \A s \in served[p] : AddressPath(s, p) \in nodes

\* When every process that registered has cleared, nothing is left, unless one
\* had asked for the children before and was answered from its cache.
NothingLeft ==
    /\ "expired" \notin faults
    /\ \A p \in Processes : discovers[p] = 0 /\ stage[p] \in {"new", "cleared"}
    /\ \E p \in Processes : stage[p] = "cleared"
    => \A s \in Services : ServicePath(s) \notin nodes

\* Caches, the tree and what is left of it agree with what the processes did.
RegistrySound == CacheFresh /\ RegisteredIsListed /\ NothingLeft

=============================================================================
