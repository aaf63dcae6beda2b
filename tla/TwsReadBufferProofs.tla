-------------------------- MODULE TwsReadBufferProofs --------------------------
(* Theorems about TwsReadBuffer for every size of the buffer and every stream.*)
EXTENDS TwsReadBuffer, SequenceTheorems, TLAPS

LEMMA TypeInit == Init => TypeOK
<1> SUFFICES ASSUME Init PROVE TypeOK
    OBVIOUS
<1>1. stream \in Seq(BOOLEAN) /\ sent \in 0..Len(stream)
    BY StreamsAssumption, LenProperties DEF Init
<1>2. rbuf \in [Offsets -> Nat] /\ rstart \in Nat /\ rlen \in Nat /\ p \in Nat
    BY DEF Init, Offsets
<1>3. token \in Seq(Nat)
    BY EmptySeq DEF Init
<1>4. authed \in BOOLEAN
    BY Zenon DEF Init
<1> QED BY <1>1, <1>2, <1>3, <1>4 DEF Init, TypeOK

LEMMA BufferInit == Init => BufferInv
<1> SUFFICES ASSUME Init PROVE BufferInv
    OBVIOUS
<1>1. TypeOK
    BY TypeInit
<1>2. OffsetsInv /\ ContentsInv /\ SearchInv
    BY SizeAssumption DEF Init, OffsetsInv, ContentsInv, SearchInv, End, Dropped, Searched
<1> QED BY <1>1, <1>2 DEF BufferInv

(* A byte of the window is a NUL exactly where the stream has one.            *)
LEMMA NulInStream ==
    ASSUME BufferInv, NEW i \in rstart..End-1
    PROVE  /\ rbuf[i] = Dropped + (i - rstart) + 1
           /\ i \in Offsets
           /\ IsNul(i) <=> stream[Dropped + (i - rstart) + 1]
<1> USE DEF BufferInv, TypeOK, End
<1>1. i - rstart \in 0..rlen-1 /\ rstart + (i - rstart) = i
    OBVIOUS
<1>2. rbuf[i] = Dropped + (i - rstart) + 1
    BY <1>1 DEF ContentsInv
<1>3. rbuf[i] # 0
    BY <1>1, <1>2 DEF OffsetsInv, Dropped
<1>4. i \in Offsets
    BY SizeAssumption DEF OffsetsInv, Offsets
<1> QED BY <1>2, <1>3, <1>4 DEF IsNul

--------------------------------------------------------------------------------
(* The invariant is inductive.                                                *)

\* Offsets, contents and search after a window moved and grew by n bytes.
LEMMA ReadStep ==
    ASSUME BufferInv, link = "open", handler = "idle",
           NEW n \in Nat, n <= Room,
           rstart' = Base, p' = MovedP, rlen' = rlen + n, sent' = sent + n,
           rbuf' = Filled(n) \/ (n = 0 /\ rbuf' = IF MustMove THEN Moved ELSE rbuf),
           stream' = stream, sent' <= Len(stream)
    PROVE  /\ rstart' \in Nat /\ p' \in Nat /\ rlen' \in Nat /\ sent' \in 0..Len(stream')
           /\ rbuf' \in [Offsets -> Nat]
           /\ End' <= BufSize /\ rlen' <= sent' /\ rstart' <= p' /\ p' <= End'
           /\ (n = 0 => p' = End')
           /\ ContentsInv'
           /\ Dropped' = Dropped /\ Searched' = Searched
<1> USE SizeAssumption DEF BufferInv, TypeOK, OffsetsInv, End
<1>0. Len(stream) \in Nat /\ sent \in Nat
    BY LenProperties
<1>1. /\ Base \in Nat /\ Base <= rstart /\ Base + rlen + n <= BufSize
      /\ (~MustMove => Base = rstart) /\ (MustMove => Base = 0)
    BY DEF Base, Room
<1>2. MovedP = p - (rstart - Base) /\ p = rstart + rlen
    BY DEF MovedP
<1>3. /\ rstart' \in Nat /\ p' \in Nat /\ rlen' \in Nat /\ sent' \in 0..Len(stream')
      /\ End' <= BufSize /\ rlen' <= sent' /\ rstart' <= p' /\ p' <= End'
      /\ (n = 0 => p' = End')
    BY <1>0, <1>1, <1>2
<1>4. Dropped' = Dropped /\ Searched' = Searched
    BY <1>0, <1>1, <1>2 DEF Dropped, Searched
<1>5. ASSUME NEW i \in Offsets, i < Base + rlen
      PROVE  rbuf'[i] = IF MustMove /\ i < rlen THEN rbuf[i + rstart] ELSE rbuf[i]
    BY <1>1, <1>5 DEF Filled, Moved, Base
<1>6. ASSUME NEW k \in Nat, k >= rlen, k < rlen + n
      PROVE  rbuf'[Base + k] = sent + 1 + (k - rlen)
    <2>1. /\ Base + k \in Base + rlen .. Base + rlen + n - 1 /\ n # 0
          /\ Base + k \in Offsets /\ (Base + k) - (Base + rlen) = k - rlen
        BY <1>1, <1>6 DEF Offsets
    <2>2. rbuf' = Filled(n)
        BY <2>1
    <2>3. Filled(n)[Base + k] = sent + 1 + ((Base + k) - (Base + rlen))
        BY <2>1 DEF Filled
    <2> QED BY <2>1, <2>2, <2>3
<1>7. rbuf' \in [Offsets -> Nat]
    <2>1. ASSUME NEW i \in Offsets, MustMove, i < rlen PROVE i + (rstart - Base) \in Offsets
        BY <1>1, <2>1 DEF Offsets
    <2>2. Moved \in [Offsets -> Nat] \/ ~MustMove
        BY <2>1 DEF Moved
    <2>3. ASSUME NEW i \in Base + rlen .. Base + rlen + n - 1
          PROVE  sent + 1 + (i - (Base + rlen)) \in Nat
        BY <1>0, <1>1
    <2>4. Filled(n) \in [Offsets -> Nat]
        BY <2>2, <2>3 DEF Filled
    <2> QED BY <2>2, <2>4
<1>8. ContentsInv'
    <2> SUFFICES ASSUME NEW k \in 0..rlen'-1 PROVE rbuf'[rstart' + k] = Dropped' + k + 1
        BY DEF ContentsInv
    <2>1. Base + k \in Offsets /\ k \in Nat /\ k < rlen + n
        BY <1>1 DEF Offsets
    <2>2. CASE k < rlen
        <3>a. rbuf'[Base + k] = IF MustMove /\ Base + k < rlen THEN rbuf[Base + k + rstart]
                                                              ELSE rbuf[Base + k]
            <4>1. Base + k < Base + rlen
                BY <1>1, <2>1, <2>2
            <4> QED BY <1>5, <2>1, <4>1
        <3>1. rbuf'[Base + k] = rbuf[rstart + k]
            <4>1. CASE MustMove
                <5>1. Base = 0 /\ Base + k = k /\ Base + k + rstart = rstart + k
                    BY <1>1, <2>1, <4>1
                <5> QED BY <2>2, <3>a, <4>1, <5>1
            <4>2. CASE ~MustMove
                BY <1>1, <3>a, <4>2
            <4> QED BY <4>1, <4>2
        <3>2. rbuf[rstart + k] = Dropped + k + 1
            BY <2>1, <2>2 DEF ContentsInv
        <3> QED BY <1>4, <3>1, <3>2
    <2>3. CASE k >= rlen
        <3>1. rbuf'[Base + k] = sent + 1 + (k - rlen)
            BY <1>6, <2>1, <2>3
        <3>2. sent + 1 + (k - rlen) = Dropped + k + 1
            BY <1>0, <2>1 DEF Dropped
        <3> QED BY <1>4, <3>1, <3>2
    <2> QED BY <2>1, <2>2, <2>3
<1> QED BY <1>3, <1>4, <1>7, <1>8

\* ... and when nothing could be read.
LEMMA NoBufsStep ==
    ASSUME BufferInv, NoBufs
    PROVE  /\ rstart' \in Nat /\ p' \in Nat /\ rbuf' \in [Offsets -> Nat]
           /\ End' <= BufSize /\ rstart' <= p' /\ p' <= End'
           /\ ContentsInv'
           /\ Dropped' = Dropped /\ Searched' = Searched
<1>1. link = "open" /\ handler = "idle" /\ stream' = stream
    BY DEF NoBufs
<1>2. 0 <= Room
    BY SizeAssumption DEF BufferInv, TypeOK, OffsetsInv, Room, Base, End
<1>3. rlen \in Nat /\ sent \in Nat /\ sent <= Len(stream)
    BY LenProperties DEF BufferInv, TypeOK
<1>4. /\ rstart' = Base /\ p' = MovedP /\ rlen' = rlen + 0 /\ sent' = sent + 0
      /\ rbuf' = IF MustMove THEN Moved ELSE rbuf
    BY <1>3 DEF NoBufs
<1> QED BY <1>1, <1>2, <1>3, <1>4, ReadStep

LEMMA TypeStep == BufferInv /\ [Next]_vars => TypeOK'
<1> SUFFICES ASSUME BufferInv, [Next]_vars PROVE TypeOK'
    OBVIOUS
<1> USE SizeAssumption DEF BufferInv, TypeOK, vars, window, DecodeReset
<1>1. CASE Connect BY <1>1 DEF Connect, ConnectStart
<1>2. CASE Close BY <1>2 DEF Close
<1>3. CASE OnCloseCb BY <1>3 DEF OnCloseCb
<1>4. CASE OnRead
    <2>1. PICK n \in 1..Room :
              /\ sent + n <= Len(stream) /\ rbuf' = Filled(n)
              /\ rlen' = rlen + n /\ sent' = sent + n
        BY <1>4 DEF OnRead
    <2>2. n \in Nat /\ n <= Room
        BY DEF Room, Base, End
    <2>3. /\ rstart' \in Nat /\ p' \in Nat /\ rlen' \in Nat /\ sent' \in 0..Len(stream')
          /\ rbuf' \in [Offsets -> Nat]
        BY <1>4, <2>1, <2>2, ReadStep DEF OnRead
    <2> QED BY <1>4, <2>3 DEF OnRead
<1>5. CASE NoBufs
    <2>1. /\ rstart' \in Nat /\ p' \in Nat /\ rbuf' \in [Offsets -> Nat]
        BY <1>5, NoBufsStep
    <2> QED BY <1>5, <2>1 DEF NoBufs
<1>6. CASE TokenFound
    <2>1. PICK e \in p..End-1 :
              p' = e + 1 /\ token' = [i \in 1 .. e + 1 - rstart |-> rbuf[rstart + i - 1]]
        BY <1>6 DEF TokenFound
    <2>2. link # "closed" /\ rstart <= p
        BY <1>6 DEF TokenFound, OffsetsInv
    <2>3. ASSUME NEW i \in 1 .. e + 1 - rstart PROVE rbuf[rstart + i - 1] \in Nat
        <3>1. rstart + i - 1 \in rstart..End-1
            BY <2>2 DEF End
        <3> QED BY <3>1, NulInStream
    <2>4. e + 1 - rstart \in Nat
        BY <2>2 DEF End
    <2>5. token' \in Seq(Nat)
        BY <2>1, <2>3, <2>4
    <2> QED BY <1>6, <2>1, <2>5 DEF TokenFound, End
<1>7. CASE NoToken BY <1>7 DEF NoToken, End
<1>8. CASE Decoded BY <1>8 DEF Decoded, Consume, OffsetsInv, End
<1>9. CASE LoginDecoded BY <1>9 DEF LoginDecoded
<1>10. CASE UNCHANGED vars BY <1>10
<1> QED BY <1>1, <1>2, <1>3, <1>4, <1>5, <1>6, <1>7, <1>8, <1>9, <1>10 DEF Next, Scan

\* The step of an action that reads, in the form of ReadStep.
LEMMA OnReadStep ==
    ASSUME BufferInv, OnRead
    PROVE  /\ End' <= BufSize /\ rlen' <= sent' /\ rstart' <= p' /\ p' <= End'
           /\ ContentsInv' /\ Dropped' = Dropped /\ Searched' = Searched
           /\ sent' \in sent+1..Len(stream)
<1>1. PICK n \in 1..Room :
          /\ sent + n <= Len(stream) /\ rbuf' = Filled(n)
          /\ rlen' = rlen + n /\ sent' = sent + n
    BY DEF OnRead
<1>2. n \in Nat \ {0} /\ n <= Room
    BY DEF Room, Base, End
<1>3. sent' \in sent+1..Len(stream)
    BY <1>1, <1>2, LenProperties DEF BufferInv, TypeOK
<1> QED BY <1>1, <1>2, <1>3, ReadStep DEF OnRead

LEMMA OffsetsStep == BufferInv /\ [Next]_vars => OffsetsInv'
<1> SUFFICES ASSUME BufferInv, [Next]_vars PROVE OffsetsInv'
    OBVIOUS
<1> USE SizeAssumption DEF BufferInv, TypeOK, OffsetsInv, End, vars, window
<1>1. CASE Connect BY <1>1 DEF Connect, ConnectStart, DecodeReset
<1>2. CASE Close BY <1>2 DEF Close
<1>3. CASE OnCloseCb BY <1>3 DEF OnCloseCb
<1>4. CASE OnRead BY <1>4, OnReadStep DEF OnRead
<1>5. CASE NoBufs BY <1>5, NoBufsStep DEF NoBufs, MovedP
<1>6. CASE TokenFound BY <1>6 DEF TokenFound
<1>7. CASE NoToken BY <1>7 DEF NoToken
<1>8. CASE Decoded BY <1>8 DEF Decoded, Consume
<1>9. CASE LoginDecoded BY <1>9 DEF LoginDecoded, DecodeReset
<1>10. CASE UNCHANGED vars BY <1>10
<1> QED BY <1>1, <1>2, <1>3, <1>4, <1>5, <1>6, <1>7, <1>8, <1>9, <1>10 DEF Next, Scan

LEMMA ContentsStep == BufferInv /\ [Next]_vars => ContentsInv'
<1> SUFFICES ASSUME BufferInv, [Next]_vars PROVE ContentsInv'
    OBVIOUS
<1> USE DEF vars, window, ContentsInv
<1>1. CASE rlen' = 0
    BY <1>1
<1>2. CASE UNCHANGED <<rbuf, rstart, rlen, sent>>
    BY <1>2 DEF BufferInv, Dropped
<1>3. CASE OnRead BY <1>3, OnReadStep
<1>4. CASE NoBufs BY <1>4, NoBufsStep
<1>5. CASE Decoded
    <2> SUFFICES ASSUME NEW k \in 0..rlen'-1
                 PROVE  rbuf'[rstart' + k] = Dropped' + k + 1
        OBVIOUS
    <2> DEFINE j == k + (p - rstart)
    <2>1. /\ rstart < p /\ rstart \in Nat /\ p \in Nat /\ rlen \in Nat /\ sent \in Int
          /\ p <= rstart + rlen /\ rstart' = p /\ rlen' = rlen - (p - rstart)
          /\ rbuf' = rbuf /\ sent' = sent
        BY <1>5 DEF Decoded, Consume, BufferInv, TypeOK, OffsetsInv, SearchInv, End
    <2>2. j \in 0..rlen-1 /\ rstart + j = p + k
        BY <2>1
    <2>3. rbuf[rstart + j] = Dropped + j + 1
        BY <2>2 DEF BufferInv
    <2>4. Dropped + j + 1 = Dropped' + k + 1
        BY <2>1 DEF Dropped
    <2> QED BY <2>1, <2>2, <2>3, <2>4
<1> QED BY <1>1, <1>2, <1>3, <1>4, <1>5
        DEF Next, Scan, Connect, ConnectStart, DecodeReset, Close, OnCloseCb, TokenFound, NoToken,
            LoginDecoded

\* The search moves on within the window: the stream agrees with rbuf there.
LEMMA SearchOn ==
    ASSUME BufferInv, handler = "scan", NEW e \in p..End, \A i \in p..e-1 : ~IsNul(i)
    PROVE  \A j \in Dropped+1 .. Dropped + (e - rstart) : ~stream[j]
<1>1. /\ rstart \in Nat /\ p \in Nat /\ rlen \in Nat /\ sent \in Nat /\ rstart <= p
      /\ \A j \in Dropped+1..Searched : ~stream[j]
    BY DEF BufferInv, TypeOK, OffsetsInv, SearchInv
<1> SUFFICES ASSUME NEW j \in Dropped+1 .. Dropped + (e - rstart) PROVE ~stream[j]
    OBVIOUS
<1>2. CASE j <= Searched
    BY <1>1, <1>2
<1>3. CASE j > Searched
    <2> DEFINE i == rstart + (j - Dropped - 1)
    <2>1. i \in p..e-1 /\ i \in rstart..End-1 /\ Dropped + (i - rstart) + 1 = j
        BY <1>1, <1>3 DEF Searched, Dropped, End
    <2>2. ~IsNul(i)
        BY <2>1
    <2> QED BY <2>1, <2>2, NulInStream
<1> QED BY <1>1, <1>2, <1>3 DEF Searched, Dropped

LEMMA SearchStep == BufferInv /\ [Next]_vars => SearchInv'
<1> SUFFICES ASSUME BufferInv, [Next]_vars PROVE SearchInv'
    OBVIOUS
<1> USE DEF vars, window, SearchInv, BufferInv
<1>0. rstart \in Nat /\ p \in Nat /\ rlen \in Nat /\ sent \in Nat
    BY DEF TypeOK
<1>1. CASE Connect \/ LoginDecoded
    <2>1. /\ rstart' = 0 /\ rlen' = 0 /\ p' = 0 /\ sent' = sent /\ handler' # "decode"
        BY <1>1 DEF Connect, LoginDecoded, ConnectStart, DecodeReset, OffsetsInv
    <2>2. Searched' = Dropped'
        BY <1>0, <2>1 DEF Searched, Dropped
    <2> QED BY <1>0, <2>1, <2>2 DEF Dropped
<1>2. CASE Close
    BY <1>2 DEF Close, Searched, Dropped
<1>3. CASE OnCloseCb
    BY <1>3 DEF OnCloseCb
<1>4. CASE OnRead
    BY <1>4, OnReadStep DEF OnRead
<1>5. CASE NoBufs
    BY <1>5, NoBufsStep DEF NoBufs
<1>6. CASE TokenFound
    <2>1. PICK e \in p..End-1 : IsNul(e) /\ (\A i \in p..e-1 : ~IsNul(i)) /\ p' = e + 1
        BY <1>6 DEF TokenFound
    <2>2. rstart <= p /\ link # "closed" /\ handler' = "decode" /\ handler = "scan"
          /\ UNCHANGED <<rstart, rlen, sent, stream>>
        BY <1>6 DEF TokenFound, OffsetsInv
    <2>3. Dropped' = Dropped /\ Searched' = Dropped + (e - rstart) + 1 /\ rstart' < p'
        BY <1>0, <2>1, <2>2 DEF Searched, Dropped, End
    <2>4. stream[Dropped + (e - rstart) + 1]
        <3>1. e \in rstart..End-1
            BY <1>0, <2>2 DEF End
        <3> QED BY <2>1, <3>1, NulInStream
    <2>5. \A j \in Dropped+1 .. Dropped + (e - rstart) : ~stream[j]
        <3>1. e \in p..End
            BY <1>0 DEF End
        <3> QED BY <2>1, <2>2, <3>1, SearchOn
    <2>6. Searched' - 1 = Dropped + (e - rstart)
        BY <1>0, <2>1, <2>2 DEF Searched, Dropped, End
    <2> QED BY <2>2, <2>3, <2>4, <2>5, <2>6
<1>7. CASE NoToken
    <2>1. /\ link # "closed" /\ handler = "scan" /\ handler' = "idle" /\ p <= End
          /\ \A i \in p..End-1 : ~IsNul(i)
          /\ UNCHANGED <<rstart, rlen, sent, stream, link>>
        BY <1>7 DEF NoToken, OffsetsInv
    <2>2. p' = End
        BY <1>0, <1>7, <2>1 DEF NoToken, End
    <2>3. \A j \in Dropped+1 .. Dropped + (End - rstart) : ~stream[j]
        <3>1. End \in p..End
            BY <1>0, <2>1 DEF End
        <3> QED BY <2>1, <3>1, SearchOn
    <2>4. Dropped' = Dropped /\ Searched' = Dropped + (End - rstart)
        BY <1>0, <2>1, <2>2 DEF Searched, Dropped, End
    <2> QED BY <2>1, <2>3, <2>4
<1>8. CASE Decoded
    <2>1. /\ rstart' = p /\ rlen' = rlen - (p - rstart) /\ p' = p /\ handler' = "scan"
          /\ UNCHANGED <<sent, stream, link>>
        BY <1>8 DEF Decoded, Consume
    <2>2. Searched' = Dropped' /\ Dropped' \in Int
        BY <1>0, <2>1 DEF Searched, Dropped
    <2>3. ASSUME NEW i \in Dropped'+1..Searched' PROVE FALSE
        BY <1>0, <2>1 DEF Searched, Dropped
    <2> QED BY <2>1, <2>3
<1>9. CASE UNCHANGED vars
    BY <1>9 DEF Searched, Dropped
<1> QED BY <1>1, <1>2, <1>3, <1>4, <1>5, <1>6, <1>7, <1>8, <1>9 DEF Next, Scan

(* The offsets stay inside rbuf, the window holds the bytes received last,    *)
(* and on_read_cb leaves no complete token in it.                             *)
THEOREM BufferCorrect == Spec => []BufferInv
<1>1. BufferInv /\ [Next]_vars => BufferInv'
    BY TypeStep, OffsetsStep, ContentsStep, SearchStep DEF BufferInv
<1> QED BY BufferInit, <1>1, PTL DEF Spec

--------------------------------------------------------------------------------
(* A read without room meets a token that fills rbuf and has no end yet.      *)
THEOREM LongTokens == Spec => OnlyLongTokensFail
<1>1. ASSUME BufferInv, NoBufs
      PROVE  rlen = BufSize /\ \A i \in sent-BufSize+1..sent : ~stream[i]
    <2> USE SizeAssumption DEF BufferInv, TypeOK, OffsetsInv
    <2>1. link = "open" /\ handler = "idle" /\ Room <= 0 /\ p = End
        BY <1>1 DEF NoBufs
    <2>2. rlen = BufSize /\ rstart = 0
        BY <1>1, <2>1 DEF Room, Base, MustMove, End
    <2>3. Dropped = sent - BufSize /\ Searched = sent
        BY <1>1, <2>1, <2>2 DEF Dropped, Searched, End
    <2>4. \A i \in Dropped+1..Searched : ~stream[i]
        BY <1>1, <2>1 DEF SearchInv
    <2> QED BY <2>2, <2>3, <2>4
<1>2. BufferInv /\ [Next]_vars =>
        [NoBufs => /\ rlen = BufSize
                   /\ \A i \in sent-BufSize+1..sent : ~stream[i]]_vars
    BY <1>1
<1> QED BY <1>2, BufferCorrect, PTL DEF Spec, OnlyLongTokensFail

--------------------------------------------------------------------------------
(* TwsReadBuffer implements TwsTokens.                                        *)

\* A step that keeps what the abstract specification sees.
LEMMA TokensStutter ==
    ASSUME UNCHANGED <<stream, sent, token, authed>>, Taken' = Taken
    PROVE  UNCHANGED Tokens!vars
BY DEF Tokens!vars

LEMMA TokensRestart ==
    ASSUME UNCHANGED <<stream, sent, token>>, Taken' = sent, authed' = authed \/ authed' = FALSE
    PROVE  Tokens!Restart
BY Zenon DEF Tokens!Restart

LEMMA TokensStep ==
    ASSUME BufferInv, BufferInv', [Next]_vars
    PROVE  [Tokens!Next]_(Tokens!vars)
<1> USE DEF vars, window
<1>0. /\ rstart \in Nat /\ p \in Nat /\ rlen \in Nat /\ sent \in Nat
      /\ link = "closed" => handler = "idle"
    BY DEF BufferInv, TypeOK, OffsetsInv
<1>1. CASE Connect
    <2>1. rlen' = 0 /\ UNCHANGED <<sent, stream, token>> /\ handler' # "decode"
        BY <1>0, <1>1 DEF Connect, ConnectStart, DecodeReset
    <2>2. Taken' = sent
        BY <1>0, <2>1 DEF Taken, Dropped
    <2>3. authed' = FALSE
        BY <1>1 DEF Connect
    <2> QED BY <2>1, <2>2, <2>3, TokensRestart, Zenon DEF Tokens!Next
<1>2. CASE Close
    BY <1>2, TokensStutter DEF Close, Taken, Dropped
<1>3. CASE OnCloseCb
    <2>1. /\ UNCHANGED <<sent, stream, token>> /\ handler' # "decode" /\ handler # "decode"
          /\ rlen' = 0 \/ rlen' = rlen
        BY <1>3 DEF OnCloseCb
    <2>2. authed' = authed
        BY <1>3 DEF OnCloseCb
    <2>3. CASE rlen' = 0
        <3>1. Taken' = sent
            BY <1>0, <2>1, <2>3 DEF Taken, Dropped
        <3> QED BY <2>1, <2>2, <3>1, TokensRestart, Zenon DEF Tokens!Next
    <2>4. CASE rlen' = rlen
        <3>1. Taken' = Taken
            BY <2>1, <2>4 DEF Taken, Dropped
        <3> QED BY <2>1, <2>2, <3>1, TokensStutter
    <2> QED BY <2>1, <2>3, <2>4
<1>4. CASE OnRead
    <2>1. /\ UNCHANGED <<stream, token, authed>> /\ handler' # "decode" /\ handler # "decode"
          /\ sent' \in sent+1..Len(stream) /\ Dropped' = Dropped
        BY <1>4, OnReadStep DEF OnRead
    <2>2. Taken' = Taken
        BY <2>1 DEF Taken
    <2> QED BY <2>1, <2>2 DEF Tokens!Next, Tokens!Receive
<1>5. CASE NoBufs
    <2>1. Dropped' = Dropped /\ UNCHANGED <<stream, sent, token, authed, handler>>
          /\ handler = "idle"
        BY <1>5, NoBufsStep DEF NoBufs
    <2> QED BY <2>1, TokensStutter DEF Taken
<1>6. CASE TokenFound
    <2>1. PICK e \in p..End-1 :
              /\ IsNul(e) /\ (\A i \in p..e-1 : ~IsNul(i)) /\ p' = e + 1
              /\ token' = [i \in 1 .. e + 1 - rstart |-> rbuf[rstart + i - 1]]
        BY <1>6 DEF TokenFound
    <2>2. handler = "scan" /\ handler' = "decode" /\ UNCHANGED <<rstart, rlen, sent, stream, authed>>
        BY <1>6 DEF TokenFound
    <2>3. rstart <= p /\ rlen <= sent
        BY <2>2, <1>0 DEF BufferInv, OffsetsInv
    <2> DEFINE a == Dropped + (e - rstart) + 1
    <2>4. Taken = Dropped /\ Taken' = a /\ a \in Taken+1..sent
        BY <1>0, <2>1, <2>2, <2>3 DEF Taken, Dropped, End
    <2>5. stream[a]
        <3>1. e \in rstart..End-1
            BY <1>0, <2>3 DEF End
        <3> QED BY <2>1, <3>1, NulInStream
    <2>6. \A i \in Taken+1..a-1 : ~stream[i]
        <3>1. e \in p..End /\ a - 1 = Dropped + (e - rstart)
            BY <1>0 DEF End, Dropped
        <3>2. \A j \in Dropped+1 .. Dropped + (e - rstart) : ~stream[j]
            BY <2>1, <2>2, <3>1, SearchOn
        <3> QED BY <2>4, <3>1, <3>2
    <2>7. token' = [i \in 1..a-Taken |-> Taken + i]
        <3>1. a - Taken = e + 1 - rstart
            BY <1>0, <2>4 DEF End, Dropped
        <3>2. ASSUME NEW i \in 1 .. e + 1 - rstart PROVE rbuf[rstart + i - 1] = Taken + i
            <4>1. rstart + i - 1 \in rstart..End-1 /\ Dropped + ((rstart + i - 1) - rstart) + 1 = Dropped + i
                BY <1>0, <2>3 DEF End, Dropped
            <4> QED BY <2>4, <4>1, NulInStream
        <3> QED BY <2>1, <3>1, <3>2
    <2> HIDE DEF a
    <2>8. Tokens!Deliver
        BY <2>2, <2>4, <2>5, <2>6, <2>7 DEF Tokens!Deliver
    <2> QED BY <2>8 DEF Tokens!Next
<1>7. CASE NoToken
    BY <1>7, TokensStutter DEF NoToken, Taken, Dropped
<1>8. CASE Decoded
    <2>1. /\ handler = "decode" /\ handler' = "scan" /\ rlen' = rlen - (p - rstart)
          /\ UNCHANGED <<stream, sent, token, authed>>
        BY <1>8 DEF Decoded, Consume
    <2>2. Taken' = Taken
        BY <1>0, <2>1 DEF Taken, Dropped
    <2> QED BY <2>1, <2>2, TokensStutter
<1>9. CASE LoginDecoded
    <2>1. rlen' = 0 /\ handler' = "scan" /\ UNCHANGED <<stream, sent, token>>
        BY <1>9 DEF LoginDecoded, DecodeReset
    <2>2. Taken' = sent
        BY <1>0, <2>1 DEF Taken, Dropped
    <2>3. ~authed /\ authed' = TRUE
        BY <1>9 DEF LoginDecoded
    <2>4. Tokens!Login
        BY <2>1, <2>2, <2>3, Zenon DEF Tokens!Login
    <2> QED BY <2>4 DEF Tokens!Next
<1>10. CASE UNCHANGED vars
    BY <1>10, TokensStutter DEF Taken, Dropped
<1> QED BY <1>1, <1>2, <1>3, <1>4, <1>5, <1>6, <1>7, <1>8, <1>9, <1>10 DEF Next, Scan

(* Whatever the reads, the moves of the window and the resets, the decoder is *)
(* given the tokens of the stream: whole, in order and once.                  *)
THEOREM TokensImplemented == Spec => ImplementsTokens
<1>1. Init => Tokens!Init
    BY DEF Init, Tokens!Init, Taken, Dropped
<1>2. BufferInv /\ BufferInv' /\ [Next]_vars => [Tokens!Next]_(Tokens!vars)
    BY TokensStep
<1> QED BY <1>1, <1>2, BufferCorrect, PTL DEF Spec, ImplementsTokens, Tokens!Spec

================================================================================
