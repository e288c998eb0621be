------------------------------- MODULE Config -------------------------------
(***************************************************************************)
(* Config and ConfigVar (config.hpp, config.cpp): typed variables with a   *)
(* dotted name, set by the program or from YAML documents.  A document is  *)
(* a tree, a scalar its text; an int is its decimal text.  An element of a *)
(* sequence becomes the text the YAML emitter prints for it, which is not  *)
(* its own for a text that the emitter quotes.  No key of a document holds *)
(* a dot, none is there twice, none gives a map for a sequence, and no     *)
(* scalar's text, loaded for a sequence or a map, is one itself.          *)
(***************************************************************************)
EXTENDS Naturals, FiniteSets, SequencesExt

CONSTANTS
    Setters,        \* threads that set variables
    KindOf,         \* name -> "int", "string", "vector", "set" or "map"; a name
                    \* is the sequence of its parts
    Default,        \* name -> the default its Lookup gives
    Documents,      \* YAML documents that are loaded
    Settable,       \* name -> values the program sets
    Numbers,        \* texts that are an int
    BadKeys,        \* keys with a character that no name may have
    Printed,        \* texts that print otherwise than they are -> as what
    MaxCalls        \* bound: documents loaded and values set

Names == DOMAIN KindOf

\* A node: a scalar's text, a list's texts, a map's pairs of key and node.
Scalar(text) == [is |-> "scalar", text |-> text, list |-> <<>>, map |-> <<>>]
ListNode(texts) == [is |-> "list", text |-> "", list |-> texts, map |-> <<>>]
MapNode(pairs) == [is |-> "map", text |-> "", list |-> <<>>, map |-> pairs]

VARIABLES
    declared,     \* names in GetDatas()
    val,          \* val_ of each
    jobs,         \* what is left of the call of a thread
    document,     \* the document a thread loads
    before,       \* names declared when it began, with their values
    mixed,        \* names set by another call while it ran
    calls

configVars == <<declared, val, jobs, document, before, mixed, calls>>

NoDocument == Scalar("")

----------------------------------------------------------------------------
\* LexicalCast.

\* What the emitter prints for an element: a text that would not be read back as
\* itself is put in quotes, and the others are left as they are.
Shown(text) == IF text \in DOMAIN Printed THEN Printed[text] ELSE text

MapOf(node) == [key \in {node.map[i][1] : i \in DOMAIN node.map} |->
                    node.map[CHOOSE i \in DOMAIN node.map : node.map[i][1] = key][2]]

\* What a node is as a value of a kind: {} when the conversion throws.  A scalar
\* has no elements, a list has no keys, and a list or a map as a string is its
\* printed form.
FromScalar(kind, node) ==
    IF kind = "string" THEN {IF node.is = "scalar" THEN node.text ELSE ToString(node)}
    ELSE IF node.is = "scalar" /\ node.text \in Numbers THEN {node.text} ELSE {}

FromSequence(node) == {[i \in DOMAIN node.list |-> Shown(node.list[i])]}
FromSet(node) == {{Shown(text) : text \in Range(node.list)}}

FromMap(node) ==
    LET entries == MapOf(node) IN
    IF node.list # <<>> \/ \E key \in DOMAIN entries : FromScalar("int", entries[key]) = {} THEN {}
    ELSE {[key \in DOMAIN entries |-> entries[key].text]}

FromStr(kind, node) ==
    CASE kind = "vector" -> FromSequence(node)
      [] kind = "set" -> FromSet(node)
      [] kind = "map" -> FromMap(node)
      [] OTHER -> FromScalar(kind, node)

----------------------------------------------------------------------------
\* ListAllMember: a node before the nodes below it; an invalid name hides what
\* is below it.
RECURSIVE ListAllMember(_, _)
ListAllMember(prefix, node) ==
    IF \E i \in DOMAIN prefix : prefix[i] \in BadKeys THEN <<>>
    ELSE <<<<prefix, node>>>>
         \o FlattenSeq([i \in DOMAIN node.map |->
                           ListAllMember(Append(prefix, node.map[i][1]), node.map[i][2])])

----------------------------------------------------------------------------
ConfigInit ==
    /\ declared = {}
    /\ val = Default
    /\ jobs = [t \in Setters |-> <<>>]
    /\ document = [t \in Setters |-> NoDocument]
    /\ before = [t \in Setters |-> <<>>]
    /\ mixed = [t \in Setters |-> {}]
    /\ calls = 0

Idle(t) == jobs[t] = <<>>
Job(t, op) == jobs[t] # <<>> /\ Head(jobs[t])[1] = op
Name(t) == Head(jobs[t])[2]
Given(t) == Head(jobs[t])[3]
Becomes(t, more) == jobs' = [jobs EXCEPT ![t] = more \o Tail(@)]

\* Config::Lookup with a default: what exists is returned as it is.
Lookup(n) ==
    /\ n \notin declared
    /\ declared' = declared \cup {n}
    /\ UNCHANGED <<val, jobs, document, before, mixed, calls>>

Starts(t, steps, doc) ==
    /\ Idle(t) /\ calls < MaxCalls /\ calls' = calls + 1
    /\ jobs' = [jobs EXCEPT ![t] = steps]
    /\ document' = [document EXCEPT ![t] = doc]
    /\ before' = [before EXCEPT ![t] = [n \in declared |-> val[n]]]
    /\ mixed' = [mixed EXCEPT ![t] = {}]
    /\ UNCHANGED <<declared, val>>

\* LoadFromYaml and, inside it, FromString for each node with a variable.
LoadFromYaml(t, doc) ==
    LET all == ListAllMember(<<>>, doc) IN
    Starts(t, [i \in DOMAIN all |-> <<"node", all[i][1], all[i][2]>>], doc)

SetByProgram(t, n, v) == n \in declared /\ Starts(t, <<<<"set", n, v>>>>, NoDocument)

\* Mutant: the conversion gives the default when it fails.
FromStringDefaults(t) ==
    /\ Job(t, "node")
    /\ LET value == IF Name(t) \in declared THEN FromStr(KindOf[Name(t)], Given(t)) ELSE {} IN
       Becomes(t, IF Name(t) \in declared
                  THEN <<<<"set", Name(t), IF value = {} THEN Default[Name(t)] ELSE CHOOSE v \in value : TRUE>>>>
                  ELSE <<>>)
    /\ UNCHANGED <<declared, val, document, before, mixed, calls>>

\* A name that no variable has is passed over, and so is a value that does not
\* fit.
FromString(t) ==
    /\ Job(t, "node")
    /\ LET value == IF Name(t) \in declared THEN FromStr(KindOf[Name(t)], Given(t)) ELSE {} IN
       Becomes(t, IF value = {} THEN <<>> ELSE <<<<"set", Name(t), CHOOSE v \in value : TRUE>>>>)
    /\ UNCHANGED <<declared, val, document, before, mixed, calls>>

\* SetValue under the read lock: compare, and tell the listeners, ...
SetValue(t) ==
    /\ Job(t, "set")
    /\ Becomes(t, IF Given(t) = val[Name(t)] THEN <<>> ELSE <<<<"write", Name(t), Given(t)>>>>)
    /\ UNCHANGED <<declared, val, document, before, mixed, calls>>

\* ... and under the write lock: change.
Write(t) ==
    /\ Job(t, "write")
    /\ val' = [val EXCEPT ![Name(t)] = Given(t)]
    /\ mixed' = [u \in Setters |-> IF u # t THEN mixed[u] \cup {Name(t)} ELSE mixed[u]]
    /\ Becomes(t, <<>>)
    /\ UNCHANGED <<declared, document, before, calls>>

ConfigNext ==
    \/ \E n \in Names : Lookup(n)
    \/ \E t \in Setters :
          \/ FromString(t) \/ SetValue(t) \/ Write(t)
          \/ \E doc \in Documents : LoadFromYaml(t, doc)
          \/ \E n \in Names : \E v \in Settable[n] : SetByProgram(t, n, v)

----------------------------------------------------------------------------
\* What a document says at a name, walking down from its root.
RECURSIVE At(_, _)
At(node, name) ==
    IF name = <<>> THEN {node}
    ELSE UNION {At(node.map[i][2], Tail(name)) :
                    i \in {j \in DOMAIN node.map : node.map[j][1] = Head(name)}}

\* A load leaves every variable that was there with what the document says at
\* its name, or as it was when the document says nothing or nothing that fits;
\* whatever the order of the nodes, also when a variable is a map and its
\* entries are variables, and whatever another thread sets in between, but for
\* the variables it sets.
Loaded ==
    \A t \in Setters : Idle(t) /\ document[t] # NoDocument =>
        \A n \in DOMAIN before[t] \ mixed[t] :
            LET said == UNION {FromStr(KindOf[n], node) : node \in At(document[t], n)} IN
            \/ said = {} /\ val[n] = before[t][n]
            \/ val[n] \in said

=============================================================================
