--------------------------- MODULE RequestChannel ---------------------------
(***************************************************************************)
(* What a connection promises its peer: the requests that were sent are    *)
(* handled each once and in order, and replies come back each once and in  *)
(* order, never ahead of the request they answer.                          *)
(***************************************************************************)
EXTENDS Naturals, Sequences, SequencesExt

CONSTANTS
    Requests,      \* what a peer may ask
    Reply(_)       \* the sequence of replies to a request: one or none

VARIABLES
    sent,          \* requests the peer has sent
    handled,       \* requests that have been handled
    replies        \* replies the peer has received

vars == <<sent, handled, replies>>

Init == sent = <<>> /\ handled = <<>> /\ replies = <<>>

Send == /\ \E request \in Requests : sent' = Append(sent, request)
        /\ UNCHANGED <<handled, replies>>

Handle == /\ Len(handled) < Len(sent)
          /\ handled' = Append(handled, sent[Len(handled) + 1])
          /\ UNCHANGED <<sent, replies>>

\* The replies to the first i requests, and to all of them.
RepliesUpTo(requests) ==
    LET upTo[i \in 0 .. Len(requests)] ==
            IF i = 0 THEN <<>> ELSE upTo[i - 1] \o Reply(requests[i])
    IN  upTo
RepliesTo(requests) == RepliesUpTo(requests)[Len(requests)]

Answer == /\ IsStrictPrefix(replies, replies')
          /\ IsPrefix(replies', RepliesTo(handled))
          /\ UNCHANGED <<sent, handled>>

Spec == Init /\ [][Send \/ Handle \/ Answer]_vars

=============================================================================
