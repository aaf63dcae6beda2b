------------------------------- MODULE TwsTokens -------------------------------
(* What the decoder of a TWS client may rely on: the bytes the server sends   *)
(* reach it as tokens, each ended by a NUL byte, whole, in order and once,    *)
(* however the stream is cut into reads.  TwsReadBuffer implements it.        *)
EXTENDS Integers, Sequences

CONSTANT Streams    \* byte streams: position i is TRUE where the byte is a NUL

VARIABLES
    stream,    \* what the server sends, over all connections
    sent,      \* how many bytes of it the client has received
    taken,     \* how many of those were decoded, or dropped
    token,     \* the positions of the bytes the decoder was given last
    authed     \* the login of this connection is decoded

vars == <<stream, sent, taken, token, authed>>

Init ==
    /\ stream \in Streams
    /\ sent = 0 /\ taken = 0 /\ token = <<>> /\ authed = FALSE

Receive ==
    /\ sent' \in sent+1..Len(stream)
    /\ UNCHANGED <<stream, taken, token, authed>>

\* The next token: up to the first NUL that is not taken.
Deliver ==
    \E e \in taken+1..sent :
        /\ stream[e] /\ \A i \in taken+1..e-1 : ~stream[i]
        /\ token' = [i \in 1..e-taken |-> taken + i]
        /\ taken' = e
        /\ UNCHANGED <<stream, sent, authed>>

\* The login is complete: TWS sends nothing more until START_API.
Login ==
    /\ ~authed /\ authed' = TRUE
    /\ taken' = sent
    /\ UNCHANGED <<stream, sent, token>>

\* The connection is gone: no token of the next one begins with its bytes.
Restart ==
    /\ taken' = sent /\ authed' \in {authed, FALSE}
    /\ UNCHANGED <<stream, sent, token>>

Next == Receive \/ Deliver \/ Login \/ Restart

Spec == Init /\ [][Next]_vars

\* A token that was received as a whole is decoded, or dropped with its connection.
FairSpec == Spec /\ WF_vars(Deliver)
================================================================================
