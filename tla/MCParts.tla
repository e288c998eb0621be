------------------------------- MODULE MCParts -------------------------------
(* The parts that meet no other, on small instances: a behaviour is one of  *)
(* TcpBuffer, Registry, Config, LoadBalance, MsgReq or Generator.           *)
EXTENDS TcpBuffer, Registry, LoadBalance, MsgReq, Generator

CONSTANTS Setters, MaxCalls

VARIABLES
    part,    \* which of them
    declared, val, jobs, document, before, mixed, calls

configVars == <<declared, val, jobs, document, before, mixed, calls>>
allVars == <<part, bufferVars, registryVars, configVars, balanceVars, msgVars, generatorVars>>

----------------------------------------------------------------------------
OneService == {"service"}
FaultSets == {{}, {"expiry"}, {"preempt"}, {"clearing"}, {"death"}}

\* A map with an entry that is a variable of its own, a vector and a set.
VarKinds == (<<"a">> :> "map") @@ (<<"a", "b">> :> "int") @@ (<<"l">> :> "vector") @@ (<<"s">> :> "set")
Defaults == (<<"a">> :> [k \in {} |-> ""]) @@ (<<"a", "b">> :> "0") @@ (<<"l">> :> <<>>) @@ (<<"s">> :> {})
Values == (<<"a">> :> {}) @@ (<<"a", "b">> :> {"2"}) @@ (<<"l">> :> {<<"x", "">>}) @@ (<<"s">> :> {{"x", "y"}})

Node(is, text, list, map) == [is |-> is, text |-> text, list |-> list, map |-> map]
S(text) == Node("scalar", text, <<>>, <<>>)
L(list) == Node("list", "", list, <<>>)
M(map) == Node("map", "", <<>>, map)
Docs == {M(<< <<"a", M(<< <<"b", S("1")>> >>)>>, <<"A", S("1")>>, <<"l", L(<<"x", ": ">>)>> >>),
         M(<< <<"a", M(<< <<"b", S("x")>>, <<"c", S("2")>> >>)>>, <<"s", L(<<"y", "x", "y">>)>> >>),
         M(<< <<"l", S("x")>>, <<"a", L(<<"1">>)>> >>)}

Conf == INSTANCE Config WITH
    KindOf <- VarKinds, Default <- Defaults, Settable <- Values, Documents <- Docs,
    Numbers <- {"0", "1", "2"}, BadKeys <- {"A"},
    Printed <- (": " :> "\": \"")

\* Points that two addresses share, a hash that fits in an int and some that do not.
AddressLists == {<<"a", "b", "c">>, <<"a", "c">>, <<"b", "c">>, <<"b">>}
Hashes == ("a" :> 3) @@ ("b" :> 77) @@ ("c" :> 130)
Ring == (<<"a", 1>> :> 2) @@ (<<"a", 2>> :> 6) @@ (<<"b", 1>> :> 4) @@ (<<"b", 2>> :> 6)
        @@ (<<"c", 1>> :> 1) @@ (<<"c", 2>> :> 4)
KeyPlaces == ("k1" :> 3) @@ ("k2" :> 5) @@ ("k3" :> 7)

Name(style, head, tail) == [name |-> [style |-> style, head |-> head, tail |-> tail], types |-> 1]
ProtoMethods ==
    {Name("lower", "g", "etAge"), Name("lower", "s", "etAge"), Name("snake", "q", "uery_name")}

----------------------------------------------------------------------------
MCInit ==
    /\ part \in {"buffer", "register", "config", "balance", "message", "generator"}
    /\ BufferInit
    /\ RegistryInit /\ (part # "register" => faults = {})
    /\ Conf!ConfigInit
    /\ BalanceInit
    /\ MsgInit
    /\ GeneratorInit /\ (part # "generator" => Cardinality(proto) = 3)

Other(p) ==
    /\ part = p /\ UNCHANGED part
    /\ p # "buffer" => UNCHANGED bufferVars
    /\ p # "register" => UNCHANGED registryVars
    /\ p # "config" => UNCHANGED configVars
    /\ p # "balance" => UNCHANGED balanceVars
    /\ p # "message" => UNCHANGED msgVars
    /\ p # "generator" => UNCHANGED generatorVars

MCNext ==
    \/ Other("buffer") /\ BufferNext
    \/ Other("register") /\ RegistryNext
    \/ Other("config") /\ Conf!ConfigNext
    \/ Other("balance") /\ BalanceNext
    \/ Other("message") /\ GenMsgNumber
    \/ Other("generator") /\ GeneratorNext

MCSpec == MCInit /\ [][MCNext]_allVars

\* Variables have what the documents say.
ConfigLoaded == Conf!Loaded
=============================================================================
