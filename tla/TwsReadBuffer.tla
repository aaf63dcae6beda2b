----------------------------- MODULE TwsReadBuffer -----------------------------
(* The read buffer of a TWS client: on_alloc_cb, on_read_cb and the offsets   *)
(* into rbuf that tws_decode_reset and _client_reconnect_start reset.  rbuf   *)
(* is a window that moves through an array: rstart and rlen delimit what was  *)
(* received and not decoded, p is where the search for the next NUL goes on.  *)
(* A byte is its position in the stream, 0 for a byte nothing was read into.  *)
EXTENDS Integers, Sequences

CONSTANTS
    BufSize,                  \* sizeof(rbuf), 4096 in C
    MAX_REQUEST_MESSAGE_SIZE, \* on_alloc_cb moves the window when less is free
    Streams                   \* see TwsTokens

ASSUME SizeAssumption == BufSize \in Nat \ {0} /\ MAX_REQUEST_MESSAGE_SIZE \in Nat \ {0}
ASSUME StreamsAssumption == Streams \subseteq Seq(BOOLEAN)

VARIABLES
    rbuf, rstart, rlen, p,
    handler,   \* on_read_cb: "idle", "scan" (its loop), "decode" (tws_decode_message)
    link,      \* "closed", "open", "closing"
    authed,    \* the client reached TWS_ST_AUTHED on this connection
    token,     \* what tws_decode_message was given last
    stream,    \* the bytes of the server
    sent       \* how many of them were received

window == <<rbuf, rstart, rlen, p>>
vars == <<window, handler, link, authed, token, stream, sent>>

Offsets == 0..BufSize-1
End == rstart + rlen
IsNul(i) == rbuf[i] = 0 \/ stream[rbuf[i]]

\* tws_decode_reset, its part here
DecodeReset == rstart' = 0 /\ rlen' = 0 /\ p' = 0

Init ==
    /\ rbuf = [i \in Offsets |-> 0] /\ rstart = 0 /\ rlen = 0 /\ p = 0
    /\ handler = "idle" /\ link = "closed" /\ authed = FALSE /\ token = <<>>
    /\ stream \in Streams /\ sent = 0

\* _client_connect
ConnectStart_Mutated == UNCHANGED <<rstart, rlen, p>>
ConnectStart == DecodeReset

Connect ==
    /\ link = "closed" /\ link' = "open" /\ authed' = FALSE
    /\ ConnectStart
    /\ UNCHANGED <<rbuf, handler, token, stream, sent>>

\* tws_client_close, from a callback of the decoder or between reads.
Close ==
    /\ link = "open" /\ handler # "scan" /\ link' = "closing"
    /\ UNCHANGED <<window, handler, authed, token, stream, sent>>

\* on_close_cb: _client_reconnect_start, if it is enabled, forgets the window but not p.
OnCloseCb ==
    /\ link = "closing" /\ handler = "idle" /\ link' = "closed"
    /\ \/ rstart' = 0 /\ rlen' = 0 /\ UNCHANGED <<rbuf, p>>
       \/ UNCHANGED window
    /\ UNCHANGED <<handler, authed, token, stream, sent>>

\* on_alloc_cb: where the window starts, and what rbuf holds, when libuv reads.
MustMove == BufSize - End < MAX_REQUEST_MESSAGE_SIZE
Base == IF MustMove THEN 0 ELSE rstart
Moved == [i \in Offsets |-> IF i < rlen THEN rbuf[i + (rstart - Base)] ELSE rbuf[i]]

MovedP_Mutated == p
MovedP == p - (rstart - Base)

Room_Mutated == BufSize - End
Room == BufSize - (Base + rlen)

\* libuv reads n bytes into the room.
Filled(n) ==
    [i \in Offsets |-> IF i \in Base + rlen .. Base + rlen + n - 1
                       THEN sent + 1 + (i - (Base + rlen)) ELSE
                       IF MustMove THEN Moved[i] ELSE rbuf[i]]

OnRead ==
    /\ link = "open" /\ handler = "idle"
    /\ \E n \in 1..Room :
          /\ sent + n <= Len(stream)
          /\ rbuf' = Filled(n)
          /\ rlen' = rlen + n /\ sent' = sent + n
    /\ rstart' = Base /\ p' = MovedP
    /\ handler' = "scan"
    /\ UNCHANGED <<link, authed, token, stream>>

\* No room: libuv reports UV_ENOBUFS, and on_read_cb closes the client.
NoBufs ==
    /\ link = "open" /\ handler = "idle" /\ Room <= 0 /\ sent < Len(stream)
    /\ rbuf' = (IF MustMove THEN Moved ELSE rbuf) /\ rstart' = Base /\ p' = MovedP
    /\ link' = "closing"
    /\ UNCHANGED <<rlen, handler, authed, token, stream, sent>>

\* The loop of on_read_cb up to the call of tws_decode_message ...
TokenFound ==
    /\ handler = "scan"
    /\ \E e \in p..End-1 :
          /\ IsNul(e) /\ \A i \in p..e-1 : ~IsNul(i)
          /\ p' = e + 1
          /\ token' = [i \in 1 .. e + 1 - rstart |-> rbuf[rstart + i - 1]]
    /\ handler' = "decode"
    /\ UNCHANGED <<rbuf, rstart, rlen, link, authed, stream, sent>>

\* ... or, without another NUL, to its end.
NoToken ==
    /\ handler = "scan" /\ \A i \in p..End-1 : ~IsNul(i)
    /\ p' = (IF p < End THEN End ELSE p)
    /\ handler' = "idle"
    /\ UNCHANGED <<rbuf, rstart, rlen, link, authed, token, stream, sent>>

\* tws_decode_message returns and the token is dropped from the window.
Consume_Mutated == rlen' = rlen - (p - rstart) /\ rstart' = p - 1
Consume == rlen' = rlen - (p - rstart) /\ rstart' = p

Decoded ==
    /\ handler = "decode" /\ handler' = "scan"
    /\ Consume
    /\ UNCHANGED <<rbuf, p, link, authed, token, stream, sent>>

\* ... after the token that completed the login: decode_login_package cleared the
\* buffer and reset the window, so that nothing is dropped here.
LoginDecoded ==
    /\ handler = "decode" /\ ~authed /\ authed' = TRUE
    /\ rbuf' = [i \in Offsets |-> 0] /\ DecodeReset
    /\ handler' = "scan"
    /\ UNCHANGED <<link, token, stream, sent>>

Scan == TokenFound \/ NoToken
Next ==
    \/ Connect \/ Close \/ OnCloseCb \/ OnRead \/ NoBufs
    \/ Scan \/ Decoded \/ LoginDecoded

Spec == Init /\ [][Next]_vars

--------------------------------------------------------------------------------
(* Properties                                                                 *)

TypeOK ==
    /\ rbuf \in [Offsets -> Nat] /\ rstart \in Nat /\ rlen \in Nat /\ p \in Nat
    /\ handler \in {"idle", "scan", "decode"} /\ link \in {"closed", "open", "closing"}
    /\ authed \in BOOLEAN /\ token \in Seq(Nat)
    /\ stream \in Seq(BOOLEAN) /\ sent \in 0..Len(stream)

\* The bytes before the window have been decoded or dropped; those before p searched.
Dropped == sent - rlen
Searched == Dropped + (p - rstart)

\* rstart, rlen and p stay inside rbuf.
OffsetsInv ==
    /\ End <= BufSize /\ rlen <= sent
    /\ link = "closed" => handler = "idle"
    /\ link # "closed" => rstart <= p /\ p <= End
    /\ link # "closed" /\ handler = "idle" => p = End

\* The window holds the bytes that were received last, in order.
ContentsInv == \A k \in 0..rlen-1 : rbuf[rstart + k] = Dropped + k + 1

\* The search for the end of the token neither passed it nor started too late.
SearchInv ==
    /\ link # "closed" /\ handler # "decode" => \A i \in Dropped+1..Searched : ~stream[i]
    /\ handler = "decode" => /\ rstart < p /\ stream[Searched]
                             /\ \A i \in Dropped+1..Searched-1 : ~stream[i]

(* The offsets, the contents of rbuf and the search agree with the stream     *)
(* between any two steps of on_alloc_cb and on_read_cb: in particular         *)
(* on_read_cb only returns when no complete token is left in the window.      *)
BufferInv == TypeOK /\ OffsetsInv /\ ContentsInv /\ SearchInv

(* on_alloc_cb leaves libuv without room only for a token that fills rbuf and *)
(* still has no end: a shorter one never costs the connection.                *)
OnlyLongTokensFail ==
    [][NoBufs => /\ rlen = BufSize
                 /\ \A i \in sent-BufSize+1..sent : ~stream[i]]_vars

\* What the decoder has been given, or will not be given any more.
Taken == IF handler = "decode" THEN Dropped + (p - rstart) ELSE Dropped

Tokens == INSTANCE TwsTokens WITH taken <- Taken

(* Tokens reach the decoder whole, in order and once, whatever the reads, the *)
(* moves of the window and the resets; no token starts in an old connection.  *)
ImplementsTokens == Tokens!Spec

(* ... and a token that was received as a whole does reach it, if on_read_cb  *)
(* runs to its end: see TwsReceive.                                           *)
ImplementsFairTokens == Tokens!FairSpec
================================================================================
