----------------------------- MODULE LoadBalance -----------------------------
(***************************************************************************)
(* The strategies of load_balance.hpp that keep state: round robin, one    *)
(* index for every caller in the process, and consistent hashing, one ring *)
(* for every service, made anew when the list of addresses has changed.    *)
(* Each choice is made under the strategy's mutex.                         *)
(***************************************************************************)
EXTENDS Integers, FiniteSets, SequencesExt

CONSTANTS
    Lists,       \* lists of addresses that callers offer; none is empty
    Keys,        \* method and arguments of a request
    ItemHash,    \* address -> std::hash of it
    Replicas,    \* 160 in the code
    RingPoint,   \* <<address, replica>> -> its place on the ring
    KeyPoint,    \* key -> its place on the ring
    SizeBits, IntBits,   \* the widths of size_t and int
    MaxChoices   \* bound: choices made

ASSUME BalanceAssumption ==
    /\ \A list \in Lists : list \in Seq(Range(list)) /\ list # <<>>
    /\ Replicas \in Nat \ {0} /\ MaxChoices \in Nat
    /\ \A list \in Lists : \A a \in Range(list) : \A r \in 1 .. Replicas : RingPoint[<<a, r>>] \in Nat
    /\ \A key \in Keys : KeyPoint[key] \in Nat

VARIABLES
    index,      \* index_
    turns,      \* the choices of round robin, with the lists they were made from
    selector,   \* the ring kept for the service, as the list it was made of with
                \* the hash kept; {} when there is none
    choices     \* the choices of consistent hashing: list, key, address, collision

balanceVars == <<index, turns, selector, choices>>

BalanceInit == index = 0 /\ turns = <<>> /\ selector = {} /\ choices = {}

\* The round-robin strategy: one index, set back at the end of the list it meets.
SelectRound(list) ==
    /\ Len(turns) < MaxChoices
    /\ LET i == IF index >= Len(list) THEN 0 ELSE index IN
       /\ turns' = Append(turns, [list |-> list, place |-> i + 1])
       /\ index' = i + 1
    /\ UNCHANGED <<selector, choices>>

----------------------------------------------------------------------------
\* hashCode, a size_t.
HashCode(list) ==
    FoldLeft(LAMBDA r, item : (31 * r + ItemHash[item]) % (2 ^ SizeBits), 1, list)

\* The constructor takes the hash as an int and keeps it as a size_t.
Kept(hash) ==
    LET low == hash % (2 ^ IntBits) IN
    IF low < 2 ^ (IntBits - 1) THEN low ELSE low + 2 ^ SizeBits - 2 ^ IntBits

\* The ring: the last address of the list that has a point owns it.
Points(list) == {RingPoint[<<a, r>>] : a \in Range(list), r \in 1 .. Replicas}
PointOwner(list, point) ==
    LET i == CHOOSE i \in DOMAIN list :
                /\ \E r \in 1 .. Replicas : RingPoint[<<list[i], r>>] = point
                /\ \A j \in i + 1 .. Len(list) : \A r \in 1 .. Replicas : RingPoint[<<list[j], r>>] # point
    IN  list[i]

\* The first point at or behind the key's, else the first of all.
SelectForKey(list, key) ==
    LET behind == {p \in Points(list) : p >= KeyPoint[key]} IN
    PointOwner(list, Min(IF behind # {} THEN behind ELSE Points(list)))

\* Mutant: a selector that is there is kept.
MakeOnce(list) == IF selector = {} THEN {[list |-> list, hash |-> Kept(HashCode(list))]} ELSE selector

\* A selector whose hash differs is replaced.
MakeSelector(list) ==
    IF \E s \in selector : s.hash = HashCode(list) THEN selector
    ELSE {[list |-> list, hash |-> Kept(HashCode(list))]}

SelectHash(list, key) ==
    /\ Cardinality(choices) < MaxChoices
    /\ selector' = MakeSelector(list)
    /\ \E s \in selector' :
          choices' = choices \cup {[list |-> list, key |-> key, address |-> SelectForKey(s.list, key),
                                    collision |-> s.list # list /\ s.hash = HashCode(list)]}
    /\ UNCHANGED <<index, turns>>

BalanceNext ==
    \E list \in Lists : SelectRound(list) \/ \E key \in Keys : SelectHash(list, key)

----------------------------------------------------------------------------
\* Round robin chooses an address of the list, however long the lists were that
\* other callers offered, and as long as all offer lists of one length their
\* addresses come in turn. (With lists of different callers the turns are
\* shared: one list may always get the same place.)
InTurn ==
    /\ \A i \in DOMAIN turns : turns[i].place \in DOMAIN turns[i].list
    /\ \A i \in 2 .. Len(turns) :
          Len(turns[i].list) = Len(turns[i - 1].list) =>
              turns[i].place = (turns[i - 1].place % Len(turns[i].list)) + 1

\* Addresses have left the list x, and what remains is y, in its order.
Remain(x, y) ==
    \E place \in [DOMAIN y -> DOMAIN x] :
        /\ \A i, j \in DOMAIN y : i < j => place[i] < place[j]
        /\ \A i \in DOMAIN y : y[i] = x[place[i]]
        /\ \A i \in DOMAIN x : x[i] \in Range(y) => i \in Range(place)

\* Consistent hashing: a key keeps its address when others leave the list, and
\* what is chosen is offered, unless two lists have the same hash.
KeepsItsAddress ==
    \A x, y \in {c \in choices : ~c.collision} :
        x.key = y.key /\ x.address \in Range(y.list) /\ Remain(x.list, y.list)
        => y.address = x.address

ChosenIsOffered == \A c \in choices : c.collision \/ c.address \in Range(c.list)

\* Both strategies choose fairly, steadily, and from what is offered.
BalanceSound == InTurn /\ KeepsItsAddress /\ ChosenIsOffered

=============================================================================
