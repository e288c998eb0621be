------------------------------- MODULE MsgReq -------------------------------
(***************************************************************************)
(* MsgReqUtil::GenMsgNumber (msg_req.cpp) on one thread: the numbers of    *)
(* messages are strings of digits that start at random and count up.       *)
(***************************************************************************)
EXTENDS Naturals, Sequences, FiniteSetsExt

CONSTANTS
    Digits,     \* the greatest digit and those before: 0 .. 9
    MsgReqLen   \* msg_req_len

ASSUME MsgReqAssumption == Max(Digits) \in Nat /\ Digits = 0 .. Max(Digits) /\ MsgReqLen \in Nat

VARIABLES
    number,     \* t_msg_req_nu; <<>> before the first call
    largest,    \* t_max_msg_req_nu
    result      \* what the last call returned

msgVars == <<number, largest, result>>

Nine == Max(Digits)
MsgInit == number = <<>> /\ largest = <<>> /\ result = <<>>

\* A new start; reading too little from /dev/urandom changes nothing.
Randomize ==
    /\ number = <<>> \/ number = largest
    /\ \/ /\ number' \in [1 .. MsgReqLen -> Digits]
          /\ largest' = [i \in 1 .. MsgReqLen |-> Nine]
          /\ result' = number'
       \/ result' = <<>> /\ UNCHANGED <<number, largest>>

\* Mutant: the digits behind the one that grows stay.
IncrementOne ==
    /\ number # <<>> /\ number # largest
    /\ LET low == {i \in DOMAIN number : number[i] # Nine} IN
       number' = [i \in DOMAIN number |-> IF i = Max(low) THEN number[i] + 1 ELSE number[i]]
    /\ result' = number' /\ UNCHANGED largest

\* The last digit that is no nine grows, and those behind it become zero.
Increment ==
    /\ number # <<>> /\ number # largest
    /\ LET low == {i \in DOMAIN number : number[i] # Nine} IN
       number' = [i \in DOMAIN number |->
                     IF i = Max(low) THEN number[i] + 1 ELSE IF i > Max(low) THEN 0 ELSE number[i]]
    /\ result' = number' /\ UNCHANGED largest

GenMsgNumber == Randomize \/ Increment

----------------------------------------------------------------------------
\* The numbers that the first i digits of n stand for, and what all of them do.
ValueTo(n) ==
    LET v[i \in 0 .. Len(n)] == IF i = 0 THEN 0 ELSE v[i - 1] * (Nine + 1) + n[i] IN v
Value(n) == ValueTo(n)[Len(n)]

\* A thread's number is the successor of the one before until all are used up:
\* it gives none twice between two random starts.
CountsUp ==
    [][number # number' /\ number # <<>> /\ number # largest
       => Value(number') = Value(number) + 1 /\ Len(number') = Len(number)]_msgVars
=============================================================================
