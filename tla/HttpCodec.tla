----------------------------- MODULE HttpCodec -----------------------------
(***************************************************************************)
(* HttpCodeC (http_codec.cpp).  A request is a sequence of cells: its      *)
(* request line, line ends, its headers (one cell), its body.  A cell is   *)
(* what the parser never looks into or cuts with one answer for all parts; *)
(* a read may end between any two cells.                                   *)
(***************************************************************************)
EXTENDS Integers, Sequences, FiniteSetsExt

CrLf == 10          \* g_crlf
Body == 20          \* one cell of content
HeaderBase == 30    \* HeaderBase + n: headers with Content-Length n
LineBase == 100     \* LineBase + k: the request line of kind k

\* Request lines: what ParseHttpRequestLine makes of them.  A path is a model
\* number; NoPath is the empty path of a URL that names only a host.
NoPath == 0
Lines ==
    [k \in 1 .. 5 |->
        CASE k = 1 -> [method |-> "GET", version |-> "1.1", path |-> 1]
          [] k = 2 -> [method |-> "POST", version |-> "1.1", path |-> 2]
          [] k = 3 -> [method |-> "GET", version |-> "1.0", path |-> 3]
          [] k = 4 -> [method |-> "GET", version |-> "1.1", path |-> NoPath]
          [] k = 5 -> [method |-> "PUT", version |-> "1.1", path |-> 1]]

\* The cells of a request of line k with the given content; a request without
\* headers has only the empty line after its request line.
Encode(k, content, headers) ==
    <<LineBase + k, CrLf>>
    \o (IF headers THEN <<HeaderBase + content, CrLf>> ELSE <<>>)
    \o <<CrLf>> \o [i \in 1 .. content |-> Body]

\* Where tmp.find(g_crlf) and tmp.find(g_crlf_double) find their first match.
LineEnds(s) == {i \in DOMAIN s : s[i] = CrLf}
HeaderEnds(s) == {i \in LineEnds(s) : i + 1 \in LineEnds(s)}

ParseHttpRequestLine(line) ==
    /\ Len(line) = 1 /\ line[1] - LineBase \in DOMAIN Lines
    /\ Lines[line[1] - LineBase].method \in {"GET", "POST"}

\* The value kept for Content-Length: the last one, when a headerless request
\* was read together with the one behind it.
ContentLength(header) ==
    LET lengths == {k \in DOMAIN header : header[k] - HeaderBase \in 0 .. 9} IN
    IF lengths = {} THEN 0 ELSE header[Max(lengths)] - HeaderBase

Failed == [ok |-> FALSE, take |-> 0]

\* Decode of the cells s between the indices.  The request line at the very
\* end of the data leaves the loop with success and an empty request.
Decode(s) ==
    LET i == Min(LineEnds(s))
        line == SubSeq(s, 1, i - 1)
        rest == SubSeq(s, i + 1, Len(s))
        j == Min(HeaderEnds(rest))
        header == SubSeq(rest, 1, j - 1)
        content == SubSeq(rest, j + 2, Len(rest))
        length == ContentLength(header)
        data == Lines[line[1] - LineBase]
        body == IF data.method = "POST" THEN length ELSE 0
    IN  CASE LineEnds(s) = {} -> Failed
          [] i = Len(s) -> [ok |-> TRUE, take |-> 0,
                            data |-> [method |-> "", version |-> "", path |-> NoPath]]
          [] ~ParseHttpRequestLine(line) -> Failed
          [] HeaderEnds(rest) = {} -> Failed
          [] Len(content) < length -> Failed
          [] OTHER -> [ok |-> TRUE, take |-> i + j + 1 + body, data |-> data]

=============================================================================
