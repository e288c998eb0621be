--------------------------- MODULE MCTcpConnection ---------------------------
(* TcpConnection on small instances: the requests and what is registered.    *)
EXTENDS TcpConnection

Package(seq, service, pb) ==
    [seq |-> <<seq>>, service |-> service, err |-> 0, err_info |-> <<>>, pb |-> pb]

\* A payload of marks; an unknown method and no payload; junk in front.
RpcSmall ==
    {[junk |-> <<>>, data |-> Package(65, <<83, Dot, 77>>, <<3, 2, 3>>)],
     [junk |-> <<>>, data |-> Package(66, <<83, Dot, 78>>, <<>>)],
     [junk |-> <<7, 2>>, data |-> Package(67, <<83, Dot, 77>>, <<4>>)]}

\* Exact servlet; glob with content; old version; URL without a path.
HttpSmall ==
    {[line |-> 1, content |-> 0, headers |-> TRUE], [line |-> 2, content |-> 2, headers |-> TRUE],
     [line |-> 3, content |-> 0, headers |-> TRUE], [line |-> 4, content |-> 0, headers |-> TRUE]}

ServicesPlain == [service \in {<<83>>} |-> {<<77>>}]
UnparsablePlain == {<<4>>}

\* A path registered twice, and a pattern that is registered again behind another.
ServletsPlain == <<[path |-> 1, servlet |-> "exact"], [path |-> 1, servlet |-> "second"]>>
GlobsPlain == <<[pattern |-> "3", paths |-> {3}, servlet |-> "first"],
                [pattern |-> "*", paths |-> {1, 2, 3}, servlet |-> "glob"],
                [pattern |-> "3", paths |-> {3}, servlet |-> "later"]>>
=============================================================================
