--------------------------- MODULE TwsReceiveProofs ----------------------------
(* Theorems about TwsReceive for every buffer, every table of packets and     *)
(* every life: the decoder behind the read buffer, which closes the client,   *)
(* ends the login and returns from callbacks when it likes, asks nothing of   *)
(* it that TwsReadBuffer does not allow.                                      *)
EXTENDS TwsReceive, TwsReadBufferProofs

LEMMA InitIsBufferInit == ReceiveInit => Init
BY Zenon DEF ReceiveInit

(* A step of the receiving side is a step of the read buffer, or none.        *)
LEMMA StepIsBufferStep == [ReceiveNext]_all => [Next]_vars
<1> SUFFICES ASSUME [ReceiveNext]_all PROVE [Next]_vars
    OBVIOUS
<1>1. CASE UNCHANGED all
      BY <1>1, Zenon DEF all
<1>2. CASE Dial
      BY <1>2, Zenon DEF Dial, Next
<1>3. CASE Lose \/ CloseInEvent
      BY <1>3, Zenon DEF Lose, CloseInEvent, Next
<1>4. CASE Closed
      BY <1>4, Zenon DEF Closed, Next
<1>5. CASE Read \/ OutOfRoom
      BY <1>5, Zenon DEF Read, OutOfRoom, Next
<1>6. CASE Search
      BY <1>6, Zenon DEF Search, Next
<1>7. CASE Decode
      BY <1>7, Zenon DEF Decode, NewPacket, TakeToken, Event, EventReturns, LoginEnds, Next
<1>8. CASE Exit
      BY <1>8, Zenon DEF Exit
<1> QED BY <1>1, <1>2, <1>3, <1>4, <1>5, <1>6, <1>7, <1>8, Zenon DEF ReceiveNext

(* The receiving side as a whole behaves as a read buffer.                    *)
THEOREM ReceiveIsBuffer == ReceiveSpec => Spec
BY InitIsBufferInit, StepIsBufferStep, PTL DEF ReceiveSpec, Spec

(* With the decoder behind it, the offsets, the contents of rbuf and the      *)
(* search agree with the stream between any two steps (tws_client.c:39-95).   *)
THEOREM ReceiveBufferCorrect == ReceiveSpec => []BufferInv
BY ReceiveIsBuffer, BufferCorrect, PTL

(* ... its tokens are delivered whole, in order and once, and only one that   *)
(* fills rbuf without an end costs the connection.                            *)
THEOREM ReceiveKeepsTokens == ReceiveSpec => ImplementsTokens /\ OnlyLongTokensFail
BY ReceiveIsBuffer, TokensImplemented, LongTokens, PTL

--------------------------------------------------------------------------------
(* What the decoder is given, and what the events are made of.                *)

(* The token in the decoder is the piece of the stream behind Dropped.        *)
TokenInv ==
    /\ calling => handler = "decode"
    /\ handler = "decode" => /\ Len(token) = p - rstart
                             /\ \A i \in 1..Len(token) : token[i] = Dropped + i

LifeInv == life \in Lives /\ stream = Nuls(life)

ReceiveInv == BufferInv /\ TokenInv /\ LifeInv

LEMMA ReceiveInit0 == ReceiveInit => ReceiveInv
<1> SUFFICES ASSUME ReceiveInit PROVE ReceiveInv
    OBVIOUS
<1>1. BufferInv
    BY InitIsBufferInit, BufferInit
<1>2. ~calling /\ handler = "idle" /\ LifeInv
    BY DEF ReceiveInit, Init, Decoder!ClientInit, LifeInv
<1> QED BY <1>1, <1>2 DEF ReceiveInv, TokenInv

LEMMA ReceiveStep ==
    ASSUME ReceiveInv, [ReceiveNext]_all
    PROVE  ReceiveInv'
<1>0. BufferInv /\ [Next]_vars
    BY StepIsBufferStep DEF ReceiveInv
<1>1. BufferInv'
    BY <1>0, TypeStep, OffsetsStep, ContentsStep, SearchStep DEF BufferInv
<1>2. LifeInv'
  <2>1. UNCHANGED <<life, stream>>
    <3>1. UNCHANGED stream
        BY <1>0 DEF Next, Connect, Close, OnCloseCb, OnRead, NoBufs, Scan, TokenFound, NoToken,
                    Decoded, LoginDecoded, vars
    <3>2. UNCHANGED life
        BY Zenon DEF ReceiveNext, Dial, Lose, CloseInEvent, Closed, Read, OutOfRoom, Search,
               Decode, NewPacket, TakeToken, Event, EventReturns, LoginEnds, Exit, all
    <3> QED BY <3>1, <3>2
  <2> QED BY <2>1 DEF ReceiveInv, LifeInv
<1>3. /\ rstart \in Nat /\ p \in Nat /\ rlen \in Nat /\ sent \in Nat
      /\ handler \in {"idle", "scan", "decode"}
    <2>1. Len(stream) \in Nat BY <1>0, LenProperties DEF BufferInv, TypeOK
    <2> QED BY <1>0, <2>1 DEF BufferInv, TypeOK
<1>4. CASE handler' # "decode"
  <2>1. calling' => handler' = "decode"
    <3> SUFFICES ASSUME calling' PROVE FALSE
        BY <1>4
    <3>1. calling => handler = "decode"
        BY DEF ReceiveInv, TokenInv
    <3> USE DEF Decoder!Takes, Decoder!Resumes
    <3>2. CASE UNCHANGED all
        BY <1>4, <3>1, <3>2 DEF all, vars, decoder
    <3>3. CASE Dial
        BY <1>4, <3>1, <3>3 DEF Dial, Decoder!Reconnect
    <3>4. CASE Lose \/ CloseInEvent \/ Closed
        BY <1>4, <3>1, <3>4 DEF Lose, CloseInEvent, Closed, Close, OnCloseCb, decoder
    <3>5. CASE Read \/ OutOfRoom
        BY <1>4, <3>1, <3>5 DEF Read, OutOfRoom, OnRead, NoBufs, decoder
    <3>6. CASE Search
        BY <1>4, <3>1, <3>6 DEF Search, Scan, TokenFound, NoToken, decoder
    <3>7. CASE NewPacket
        BY <1>4, <3>1, <3>7 DEF NewPacket, Decoder!PacketId
    <3>8. CASE TakeToken
        BY <3>8 DEF TakeToken
    <3>9. CASE Event
        BY <1>4, <3>9 DEF Event, vars
    <3>10. CASE EventReturns
        BY <3>10 DEF EventReturns, Decoder!End
    <3>11. CASE LoginEnds
        BY <1>4, <3>1, <3>11 DEF LoginEnds, Decoder!LoginDone
    <3>12. CASE Exit
        BY <1>4, <3>1, <3>12 DEF Exit, Decoder!UnknownPacket, vars
    <3> QED BY <3>2, <3>3, <3>4, <3>5, <3>6, <3>7, <3>8, <3>9, <3>10, <3>11, <3>12
            DEF ReceiveNext, Decode
  <2> QED BY <1>1, <1>2, <1>4, <2>1 DEF ReceiveInv, TokenInv
<1>5. CASE handler' = "decode" /\ handler = "decode"
  <2>1. UNCHANGED <<rstart, rlen, p, token, sent>>
      BY <1>0, <1>5 DEF Next, Connect, Close, OnCloseCb, OnRead, NoBufs, Scan, TokenFound, NoToken,
                    Decoded, LoginDecoded, vars, window, BufferInv, OffsetsInv
  <2> QED BY <1>1, <1>2, <1>5, <2>1 DEF ReceiveInv, TokenInv, Dropped
<1>6. CASE handler' = "decode" /\ handler # "decode"
  <2>1. TokenFound
      BY <1>0, <1>6 DEF Next, Connect, Close, OnCloseCb, OnRead, NoBufs, Scan, NoToken,
                    Decoded, LoginDecoded, vars
  <2>2. PICK e \in p..End-1 :
            /\ p' = e + 1
            /\ token' = [i \in 1 .. e + 1 - rstart |-> rbuf[rstart + i - 1]]
            /\ UNCHANGED <<rbuf, rstart, rlen, sent>>
      BY <2>1 DEF TokenFound
  <2>3. link # "closed" /\ rstart <= p
      BY <1>0, <2>1 DEF TokenFound, BufferInv, OffsetsInv
  <2>4. e \in Nat /\ e + 1 - rstart \in Nat /\ Len(token') = e + 1 - rstart /\ e + 1 <= End
      BY <1>3, <2>2, <2>3 DEF End
  <2>5. ASSUME NEW i \in 1..Len(token') PROVE token'[i] = Dropped' + i
    <3>1. i \in 1 .. e + 1 - rstart /\ i - 1 \in 0..rlen-1 /\ rstart + (i - 1) = rstart + i - 1
        BY <1>3, <2>4 DEF End
    <3>2. rbuf[rstart + (i - 1)] = Dropped + (i - 1) + 1
        BY <1>0, <3>1 DEF BufferInv, ContentsInv
    <3> QED BY <1>3, <2>2, <3>1, <3>2 DEF Dropped
  <2>6. Len(token') = p' - rstart'
    BY <1>3, <2>2, <2>4
  <2>7. TokenInv'
    BY <1>6, <2>5, <2>6 DEF TokenInv
  <2> QED BY <1>1, <1>2, <2>7 DEF ReceiveInv
<1> QED BY <1>3, <1>4, <1>5, <1>6

LEMMA ReceiveInvariant == ReceiveSpec => []ReceiveInv
BY ReceiveInit0, ReceiveStep, PTL DEF ReceiveSpec

--------------------------------------------------------------------------------
(* The decoder behind the read buffer.                                        *)

LEMMA ShapesFit ==
    Shapes \subseteq [cmd : DOMAIN Packets \cup {Decoder!UNKNOWN}, version : Nat, count : Nat,
                      flag : {0, 1}, odd : STRING \X STRING, filled : {0, 1}]
BY DEF Shapes, Decoder!UNKNOWN

(* atoi of a token is a number.                                               *)
LEMMA NumberIsNat ==
    ASSUME ReceiveInv, handler = "decode"
    PROVE  Number \in Nat
<1>1. life.bytes \in Seq(Nat) /\ stream = [i \in DOMAIN life.bytes |-> life.bytes[i] = 0]
    BY LivesAssumption DEF ReceiveInv, LifeInv, Nuls
<1>2. Len(stream) \in Nat /\ DOMAIN stream = 1..Len(stream)
    BY LenProperties DEF ReceiveInv, BufferInv, TypeOK
<1>3. /\ rstart \in Nat /\ p \in Nat /\ rlen \in Nat /\ sent \in 0..Len(stream)
      /\ rstart < p /\ p <= End /\ rlen <= sent
      /\ Len(token) = p - rstart /\ \A i \in 1..Len(token) : token[i] = Dropped + i
  <2>1. link # "closed" BY DEF ReceiveInv, BufferInv, OffsetsInv
  <2> QED BY <2>1 DEF ReceiveInv, TokenInv, BufferInv, TypeOK, OffsetsInv, SearchInv
<1>4. token[1] = Dropped + 1 /\ Dropped + 1 \in 1..Len(stream)
  <2>1. 1 \in 1..Len(token) BY <1>2, <1>3
  <2>2. Dropped + 1 \in 1..Len(stream) BY <1>2, <1>3 DEF Dropped, End
  <2> QED BY <1>3, <2>1, <2>2
<1>5. life.bytes[token[1]] \in Nat
  <2>1. DOMAIN stream = DOMAIN life.bytes BY <1>1, Zenon
  <2>2. token[1] \in DOMAIN life.bytes BY <1>2, <1>4, <2>1
  <2> QED BY <1>1, <2>2
<1> QED BY <1>5 DEF Number

LEMMA CommandIsKnown ==
    ASSUME NEW n
    PROVE  Command(n) \in DOMAIN Packets \cup {"", Decoder!UNKNOWN}
<1> DEFINE known == {c \in DOMAIN Packets \cap DOMAIN Decoder!PacketIds : Decoder!PacketIds[c] = n}
<1>1. known # {} => (CHOOSE c \in known : TRUE) \in DOMAIN Packets
    BY Zenon
<1> QED BY <1>1, Zenon DEF Command

LEMMA DecoderStep ==
    ASSUME ReceiveInv, Decoder!DecodeInv, [ReceiveNext]_all
    PROVE  Decoder!DecodeInv'
<1>0. authed \in BOOLEAN
    BY DEF ReceiveInv, BufferInv, TypeOK
<1>1. CASE Dial
  <2>1. Decoder!Reconnect /\ authed' = FALSE BY <1>1 DEF Dial, Connect
  <2> QED BY <2>1, PacketsAssumption, ShapesFit, Decoder!EndDecode
<1>2. CASE Lose \/ CloseInEvent \/ Closed \/ Read \/ OutOfRoom \/ Search \/ UNCHANGED all
  <2>1. UNCHANGED <<authed, cmd, pt, val, mem, lost, calling, process>>
      BY <1>2 DEF Lose, CloseInEvent, Closed, Read, OutOfRoom, Search, Close, OnCloseCb, OnRead, NoBufs,
            Scan, TokenFound, NoToken, decoder, all, vars
  <2> QED BY <2>1, PacketsAssumption, ShapesFit, Decoder!StutterDecode
<1>3. CASE NewPacket
  <2>1. Decoder!PacketId(Command(Number)) /\ UNCHANGED authed
      BY <1>3 DEF NewPacket, Decoded
  <2>2. \E id \in DOMAIN Packets \cup {"", Decoder!UNKNOWN} : Decoder!PacketId(id)
      BY <2>1, CommandIsKnown, Zenon
  <2> QED BY <2>1, <2>2, PacketsAssumption, ShapesFit, Decoder!DispatchDecode
<1>4. CASE TakeToken \/ Event
  <2>1. Decoder!TakeToken(Number) /\ UNCHANGED authed /\ Number \in Nat
      BY <1>4, NumberIsNat DEF TakeToken, Event, Decoded, vars
  <2> QED BY <2>1, PacketsAssumption, ShapesFit, Decoder!TokenDecode
<1>5. CASE EventReturns
  <2>1. Decoder!End /\ authed' = authed BY <1>5 DEF EventReturns, Decoded
  <2> QED BY <1>0, <2>1, PacketsAssumption, ShapesFit, Decoder!EndDecode
<1>6. CASE LoginEnds
  <2>1. Decoder!LoginDone(Number) /\ authed' = TRUE BY <1>6 DEF LoginEnds, LoginDecoded
  <2> QED BY <2>1, PacketsAssumption, ShapesFit, Decoder!EndDecode
<1>7. CASE Exit
  <2>1. Decoder!UnknownPacket /\ UNCHANGED authed BY <1>7 DEF Exit, vars
  <2> QED BY <2>1, PacketsAssumption, ShapesFit, Decoder!DispatchDecode
<1> QED BY <1>1, <1>2, <1>3, <1>4, <1>5, <1>6, <1>7 DEF ReceiveNext, Decode

(* Whatever bytes TWS sends, lawful or not, in whatever pieces: a decoder     *)
(* waits at a step of its packet's table, and in an element of an array only  *)
(* while the packet said there is one (the loops of tws_decode.c).            *)
THEOREM ReceiveStaysInTable == ReceiveSpec => []DecodesInTable
<1>1. ReceiveInit => Decoder!DecodeInv
  <2> SUFFICES ASSUME ReceiveInit PROVE Decoder!DecodeInv
      OBVIOUS
  <2>1. authed \in BOOLEAN BY Zenon DEF ReceiveInit, Init
  <2>2. Decoder!ClientInit BY DEF ReceiveInit
  <2> QED BY <2>1, <2>2, PacketsAssumption, ShapesFit, Decoder!InitDecode
<1>2. Decoder!DecodeInv => DecodesInTable
    BY Zenon DEF Decoder!DecodeInv, DecodesInTable
<1> QED BY <1>1, <1>2, DecoderStep, ReceiveInvariant, PTL DEF ReceiveSpec

(* ... and its slots hold what the steps taken so far made of them.           *)
LEMMA SlotsStep ==
    ASSUME ReceiveInv, Decoder!DecodeInv, Decoder!MemInv, [ReceiveNext]_all
    PROVE  Decoder!MemInv' /\ (Decoder!Frees /\ Decoder!LostInv => Decoder!LostInv')
<1>1. CASE Dial \/ LoginEnds \/ EventReturns
  <2>1. \/ Decoder!Reconnect \/ Decoder!LoginDone(Number) \/ Decoder!End
      BY <1>1 DEF Dial, LoginEnds, EventReturns
  <2>2. /\ Decoder!PtInit = pt' /\ Decoder!NoPacket
        /\ calling' = FALSE \/ (~calling /\ calling' = calling)
      BY <2>1 DEF Decoder!Reconnect, Decoder!LoginDone, Decoder!End, Decoder!DecodeReset,
                  Decoder!PacketDone, Decoder!Resumes, Decoder!Takes
  <2>3. ~calling' BY <2>2, Zenon
  <2> QED BY <2>2, <2>3, PacketsAssumption, ShapesFit, Decoder!ResetMem
<1>2. CASE Lose \/ CloseInEvent \/ Closed \/ Read \/ OutOfRoom \/ Search \/ Exit \/ UNCHANGED all
  <2>1. UNCHANGED <<authed, cmd, pt, val, mem, lost, calling>>
      BY <1>2 DEF Lose, CloseInEvent, Closed, Read, OutOfRoom, Search, Exit, Close, OnCloseCb, OnRead,
            NoBufs, Scan, TokenFound, NoToken, Decoder!UnknownPacket, Decoder!packet, decoder, all, vars
  <2> QED BY <2>1, PacketsAssumption, ShapesFit, Decoder!StutterMem
<1>3. CASE NewPacket
  <2>1. Decoder!PacketId(Command(Number)) /\ UNCHANGED authed
      BY <1>3 DEF NewPacket, Decoded
  <2> QED BY <2>1, PacketsAssumption, ShapesFit, Decoder!DispatchMem
<1>4. CASE TakeToken \/ Event
  <2>1. Decoder!TakeToken(Number) /\ UNCHANGED authed /\ Number \in Nat
      BY <1>4, NumberIsNat DEF TakeToken, Event, Decoded, vars
  <2>2. Decoder!MemInv' BY <2>1, PacketsAssumption, ShapesFit, Decoder!TokenMem
  <2>3. Decoder!Frees /\ Decoder!LostInv => Decoder!LostInv'
      BY <2>1, PacketsAssumption, ShapesFit, Decoder!TokenLost
  <2> QED BY <2>2, <2>3
<1> QED BY <1>1, <1>2, <1>3, <1>4 DEF ReceiveNext, Decode

LEMMA SlotsInvariant ==
    ReceiveSpec => []Decoder!DecodeInv /\ []Decoder!MemInv /\ [](Decoder!Frees => Decoder!LostInv)
<1>1. ReceiveInit => Decoder!DecodeInv /\ Decoder!MemInv /\ Decoder!LostInv
  <2> SUFFICES ASSUME ReceiveInit PROVE Decoder!DecodeInv /\ Decoder!MemInv /\ Decoder!LostInv
      OBVIOUS
  <2>1. authed \in BOOLEAN BY Zenon DEF ReceiveInit, Init
  <2>2. Decoder!ClientInit BY DEF ReceiveInit
  <2> QED BY <2>1, <2>2, PacketsAssumption, ShapesFit, Decoder!InitDecode, Decoder!InitMem
<1>2. ASSUME ReceiveInv, Decoder!DecodeInv, Decoder!MemInv, Decoder!Frees => Decoder!LostInv,
             [ReceiveNext]_all
      PROVE  /\ Decoder!DecodeInv' /\ Decoder!MemInv'
             /\ (Decoder!Frees => Decoder!LostInv)'
  <2>1. Decoder!Frees' <=> Decoder!Frees BY DEF Decoder!Frees
  <2> QED BY <1>2, <2>1, DecoderStep, SlotsStep
<1> QED BY <1>1, <1>2, ReceiveInvariant, PTL DEF ReceiveSpec

(* Whatever bytes TWS sends, then: with tables that assign what they show, an *)
(* event never shows what an earlier packet, or the packet of a connection    *)
(* that was lost, left in the union, but for KnownStale; with tables that     *)
(* free what they allocate, all of it is freed after the callback, but for    *)
(* KnownLeaks.                                                                *)
THEOREM ReceiveShowsOwnValues ==
    Decoder!Initialises => (ReceiveSpec => []Decoder!EventIsInitialised)
<1> SUFFICES ASSUME Decoder!Initialises
             PROVE  ReceiveSpec => []Decoder!EventIsInitialised
    OBVIOUS
<1>1. Decoder!DecodeInv /\ Decoder!MemInv => Decoder!EventIsInitialised
    BY PacketsAssumption, ShapesFit, Decoder!ShowsOwn
<1> QED BY <1>1, SlotsInvariant, PTL

THEOREM ReceiveFreesAll == Decoder!Frees => (ReceiveSpec => []Decoder!FreesAll)
<1> SUFFICES ASSUME Decoder!Frees PROVE ReceiveSpec => []Decoder!FreesAll
    OBVIOUS
<1>1. Decoder!DecodeInv /\ Decoder!MemInv /\ (Decoder!Frees => Decoder!LostInv)
          => Decoder!FreesAll
    BY PacketsAssumption, ShapesFit, Decoder!FreesOwn
<1> QED BY <1>1, SlotsInvariant, PTL

--------------------------------------------------------------------------------
(* The bytes of the events.                                                   *)

(* The bytes heard of a packet are those in front of Dropped.                 *)
HeardInv ==
    /\ heard \in Seq(Nat)
    /\ link # "closed" => \A i \in 1..Len(heard) : heard[i] = Dropped - Len(heard) + i

(* The last event's bytes are in front of them; while its callback runs, its  *)
(* last token is still in the window.                                         *)
ShownInv ==
    /\ shown \in Seq(Nat)
    /\ calling => heard = <<>>
    /\ shown # <<>> => shown[Len(shown)] + Len(heard) <= IF calling THEN Taken ELSE Dropped

EventsInv == HeardInv /\ ShownInv

LEMMA HeardMore ==
    ASSUME ReceiveInv, EventsInv, handler = "decode", link # "closed"
    PROVE  /\ heard \o token \in Seq(Nat) /\ Len(heard \o token) = Len(heard) + (p - rstart)
           /\ Len(heard \o token) > 0 /\ Len(heard) \in Nat /\ Dropped \in Nat
           /\ rstart \in Nat /\ p \in Nat /\ rstart < p /\ Taken = Dropped + (p - rstart)
           /\ \A i \in 1..Len(heard \o token) : (heard \o token)[i] = Dropped - Len(heard) + i
<1>1. /\ heard \in Seq(Nat) /\ token \in Seq(Nat) /\ Len(heard) \in Nat
      /\ Len(token) = p - rstart
      /\ \A i \in 1..Len(token) : token[i] = Dropped + i
      /\ \A i \in 1..Len(heard) : heard[i] = Dropped - Len(heard) + i
    BY LenProperties DEF EventsInv, HeardInv, ReceiveInv, TokenInv, BufferInv, TypeOK
<1>2. /\ rstart \in Nat /\ p \in Nat /\ rstart < p /\ Dropped \in Nat
      /\ Taken = Dropped + (p - rstart)
    <2>1. Len(stream) \in Nat BY LenProperties DEF ReceiveInv, BufferInv, TypeOK
    <2> QED BY <2>1 DEF ReceiveInv, BufferInv, TypeOK, OffsetsInv, SearchInv, Taken, Dropped
<1> DEFINE m == Len(heard)
           n == Len(token)
           d == Dropped
<1>3. /\ heard \o token \in Seq(Nat) /\ Len(heard \o token) = m + n
      /\ \A i \in 1..m + n : (heard \o token)[i] = IF i <= m THEN heard[i] ELSE token[i - m]
    BY <1>1, ConcatProperties
<1>4. m \in Nat /\ n \in Nat \ {0} /\ d \in Nat
    BY <1>1, <1>2
<1>5. ASSUME NEW i \in 1..Len(heard \o token)
      PROVE  (heard \o token)[i] = d - m + i
  <2>1. i \in 1..m + n BY <1>3
  <2>2. CASE i <= m
    <3>1. heard[i] = d - m + i BY <1>1, <1>4, <2>1, <2>2
    <3> QED BY <1>3, <2>1, <2>2, <3>1
  <2>3. CASE ~(i <= m)
    <3> HIDE DEF m, n, d
    <3>1. i - m \in 1..n BY <1>4, <2>1, <2>3
    <3>2. token[i - m] = d + (i - m) BY <1>1, <3>1 DEF n, d
    <3>3. (heard \o token)[i] = token[i - m] BY <1>3, <2>1, <2>3
    <3> QED BY <1>4, <2>1, <3>2, <3>3
  <2> QED BY <2>2, <2>3
<1> QED BY <1>1, <1>2, <1>3, <1>4, <1>5

LEMMA EventsInit == ReceiveInit => EventsInv
<1> SUFFICES ASSUME ReceiveInit PROVE EventsInv
    OBVIOUS
<1>1. heard = <<>> /\ shown = <<>> /\ ~calling
    BY DEF ReceiveInit, Decoder!ClientInit
<1> QED BY <1>1 DEF EventsInv, HeardInv, ShownInv

LEMMA EventsStep ==
    ASSUME ReceiveInv, EventsInv, [ReceiveNext]_all
    PROVE  EventsInv'
<1>0. /\ rstart \in Nat /\ p \in Nat /\ rlen \in Nat /\ sent \in Nat /\ rlen <= sent
      /\ heard \in Seq(Nat) /\ Len(heard) \in Nat /\ shown \in Seq(Nat)
      /\ shown # <<>> => shown[Len(shown)] \in Nat
      /\ calling => handler = "decode" /\ heard = <<>>
      /\ handler = "decode" => link # "closed"
  <2>1. Len(stream) \in Nat BY LenProperties DEF ReceiveInv, BufferInv, TypeOK
  <2>2. heard \in Seq(Nat) /\ shown \in Seq(Nat) BY DEF EventsInv, HeardInv, ShownInv
  <2>3. shown # <<>> => Len(shown) \in 1..Len(shown) BY <2>2, LenProperties
  <2>4. shown # <<>> => shown[Len(shown)] \in Nat BY <2>2, <2>3, ElementOfSeq
  <2> QED BY <2>1, <2>2, <2>4, LenProperties
          DEF ReceiveInv, BufferInv, TypeOK, OffsetsInv, TokenInv, EventsInv, ShownInv
<1>1. ASSUME UNCHANGED <<heard, shown, calling>>, Dropped' \in Int, Dropped <= Dropped',
             link' # "closed" => link # "closed" /\ Dropped' = Dropped,
             calling => Taken' = Taken
      PROVE  EventsInv'
  <2>1. HeardInv'
      BY <1>1 DEF EventsInv, HeardInv
  <2>2. ShownInv'
      BY <1>0, <1>1 DEF EventsInv, ShownInv, Dropped
  <2> QED BY <2>1, <2>2 DEF EventsInv
<1>2. CASE Dial
  <2>1. /\ link = "closed" /\ heard' = <<>> /\ shown' = shown /\ ~calling'
        /\ rlen' = 0 /\ sent' = sent
      BY <1>2 DEF Dial, Connect, ConnectStart, DecodeReset, Decoder!Reconnect,
                  Decoder!Takes
  <2>2. ~calling BY <1>0, <2>1
  <2>3. shown # <<>> => shown[Len(shown)] <= Dropped'
      BY <1>0, <2>1, <2>2 DEF EventsInv, ShownInv, Dropped
  <2> QED BY <1>0, <2>1, <2>3 DEF EventsInv, HeardInv, ShownInv
<1>3. CASE Lose \/ CloseInEvent \/ Search \/ Exit \/ UNCHANGED all
  <2>1. /\ UNCHANGED <<heard, shown, rlen, sent>>
        /\ link' # "closed" => link # "closed"
      BY <1>3 DEF Lose, CloseInEvent, Search, Exit, Close, Scan, TokenFound, NoToken, window,
                  events, all, vars
  <2>2. calling' = calling
      BY <1>3 DEF Lose, CloseInEvent, Search, Exit, Decoder!UnknownPacket, decoder, all
  <2>3. calling => UNCHANGED <<handler, p, rstart>>
      BY <1>0, <1>3 DEF Lose, CloseInEvent, Search, Exit, Close, Scan, TokenFound, NoToken, window,
                  all, vars
  <2> QED BY <1>0, <1>1, <2>1, <2>2, <2>3 DEF Dropped, Taken
<1>4. CASE Closed
  <2>1. UNCHANGED <<heard, shown, calling, sent>> /\ rlen' \in {0, rlen} /\ link' = "closed"
        /\ handler = "idle"
      BY <1>4 DEF Closed, OnCloseCb, window, decoder, events
  <2>2. ~calling BY <1>0, <2>1, Zenon
  <2>3. Dropped' \in Int /\ Dropped <= Dropped'
    <3>1. rlen' = 0 \/ rlen' = rlen BY <2>1
    <3>2. sent' = sent BY <2>1
    <3> QED BY <1>0, <3>1, <3>2 DEF Dropped
  <2> QED BY <1>1, <2>1, <2>2, <2>3
<1>5. CASE Read \/ OutOfRoom
  <2>1. PICK n \in Int : n >= 0 /\ rlen' = rlen + n /\ sent' = sent + n
    <3>1. CASE Read BY <1>0, <3>1 DEF Read, OnRead, Room, Base, End
    <3>2. CASE OutOfRoom BY <1>0, <3>2 DEF OutOfRoom, NoBufs
    <3> QED BY <1>5, <3>1, <3>2
  <2>2. UNCHANGED <<heard, shown, calling>> /\ handler = "idle" /\ link = "open"
      BY <1>5 DEF Read, OutOfRoom, OnRead, NoBufs, decoder, events
  <2> QED BY <1>0, <1>1, <2>1, <2>2 DEF Dropped
<1>6. CASE NewPacket \/ TakeToken
  <2>1. /\ handler = "decode" /\ ~calling /\ ~calling' /\ Decoded
        /\ heard' = heard \o token /\ shown' = shown
    <3>1. CASE NewPacket
      <4>1. ~calling /\ calling' = calling
          BY <3>1, Zenon DEF NewPacket, Decoder!PacketId, Decoder!Takes
      <4> QED BY <3>1, <4>1, Zenon DEF NewPacket, Hears
    <3>2. CASE TakeToken
      <4>1. ~calling
          BY <3>2, Zenon DEF TakeToken, Decoder!TakeToken, Decoder!Resumes, Decoder!Takes
      <4> QED BY <3>2, <4>1, Zenon DEF TakeToken, Hears
    <3> QED BY <1>6, <3>1, <3>2
  <2>2. Dropped' = Dropped + (p - rstart) /\ link' = link /\ link # "closed"
      BY <1>0, <2>1 DEF Decoded, Consume, Dropped
  <2>3. HeardInv'
    <3>1. heard' \in Seq(Nat) /\ Len(heard') = Len(heard) + (p - rstart)
        BY <2>1, <2>2, HeardMore
    <3>2. \A i \in 1..Len(heard') : heard'[i] = Dropped - Len(heard) + i
        BY <2>1, <2>2, HeardMore
    <3>3. Dropped' - Len(heard') = Dropped - Len(heard)
        BY <1>0, <2>2, <3>1 DEF Dropped
    <3> QED BY <3>1, <3>2, <3>3 DEF HeardInv
  <2>4. ShownInv'
      BY <1>0, <2>1, <2>2, HeardMore DEF EventsInv, ShownInv
  <2> QED BY <2>3, <2>4 DEF EventsInv
<1>7. CASE Event
  <2>1. /\ handler = "decode" /\ calling' /\ heard' = <<>> /\ shown' = heard \o token
        /\ Taken' = Taken /\ link # "closed"
      BY <1>0, <1>7 DEF Event, vars, window, Taken, Dropped
  <2>2. /\ shown' \in Seq(Nat) /\ Len(shown') = Len(heard) + (p - rstart) /\ Len(shown') > 0
        /\ Dropped \in Nat /\ rstart < p /\ Taken = Dropped + (p - rstart)
      BY <2>1, HeardMore
  <2>3. \A i \in 1..Len(shown') : shown'[i] = Dropped - Len(heard) + i
      BY <2>1, HeardMore
  <2>4. Len(shown') \in 1..Len(shown') BY <1>0, <2>2
  <2>5. shown'[Len(shown')] = Taken /\ Taken \in Nat
      BY <1>0, <2>2, <2>3, <2>4
  <2> QED BY <1>0, <2>1, <2>2, <2>5 DEF EventsInv, HeardInv, ShownInv
<1>8. CASE EventReturns
  <2>1. /\ handler = "decode" /\ calling /\ ~calling' /\ UNCHANGED <<heard, shown>>
        /\ Dropped' = Taken /\ heard = <<>>
      BY <1>0, <1>8 DEF EventReturns, Decoder!End, Decoded, Consume, Dropped, Taken, events
  <2> QED BY <1>0, <2>1 DEF EventsInv, HeardInv, ShownInv
<1>9. CASE LoginEnds
  <2>1. /\ ~calling /\ ~calling' /\ heard' = <<>> /\ shown' = shown
        /\ Dropped' = sent
      BY <1>0, <1>9 DEF LoginEnds, LoginDecoded, DecodeReset, Decoder!LoginDone,
                        Decoder!Resumes, Decoder!Takes, Dropped
  <2>2. Dropped <= sent BY <1>0 DEF Dropped
  <2> QED BY <1>0, <2>1, <2>2 DEF EventsInv, HeardInv, ShownInv, Dropped
<1> QED BY <1>2, <1>3, <1>4, <1>5, <1>6, <1>7, <1>8, <1>9 DEF ReceiveNext, Decode

(* Whatever TWS sends and wherever the connections are lost: the bytes of an  *)
(* event are consecutive, and behind those of every event before it.          *)
THEOREM EventsInOrder == ReceiveSpec => EventsAdvance
<1> DEFINE Advances ==
        shown' # shown =>
            /\ Consecutive(shown')
            /\ shown # <<>> => shown'[1] > shown[Len(shown)]
<1>1. ASSUME ReceiveInv, EventsInv, [ReceiveNext]_all
      PROVE  [Advances]_all
  <2> SUFFICES ASSUME shown' # shown PROVE Advances
      OBVIOUS
  <2>1. Event
      BY <1>1 DEF ReceiveNext, Decode, Dial, Lose, CloseInEvent, Closed, Read, OutOfRoom, Search,
                  NewPacket, TakeToken, Hears, EventReturns, LoginEnds, Exit, events, all
  <2>2. handler = "decode" /\ ~calling /\ shown' = heard \o token /\ link # "closed"
      BY <1>1, <2>1 DEF Event, Decoder!TakeToken, Decoder!Resumes, Decoder!Takes, ReceiveInv,
                         BufferInv, OffsetsInv
  <2>3. /\ shown' \in Seq(Nat) /\ Len(shown') > 0 /\ Dropped \in Nat /\ Len(heard) \in Nat
      BY <1>1, <2>2, HeardMore
  <2>4. \A i \in 1..Len(shown') : shown'[i] = Dropped - Len(heard) + i
      BY <1>1, <2>2, HeardMore
  <2>5. Len(shown') \in Nat
      BY <2>3, LenProperties
  <2>6. shown'[1] = Dropped - Len(heard) + 1
      BY <2>3, <2>4, <2>5
  <2>7. Consecutive(shown')
      BY <2>3, <2>4, <2>5, <2>6 DEF Consecutive
  <2>8. ASSUME shown # <<>> PROVE shown'[1] > shown[Len(shown)]
    <3>1. shown \in Seq(Nat) /\ shown[Len(shown)] + Len(heard) <= Dropped
        BY <1>1, <2>2, <2>8 DEF EventsInv, ShownInv
    <3>2. Len(shown) \in 1..Len(shown) BY <2>8, <3>1, LenProperties
    <3>3. shown[Len(shown)] \in Nat BY <3>1, <3>2, ElementOfSeq
    <3> QED BY <2>3, <2>6, <3>1, <3>3
  <2> QED BY <2>7, <2>8
<1>2. ReceiveSpec => []EventsInv
    BY EventsInit, EventsStep, ReceiveInvariant, PTL DEF ReceiveSpec
<1> QED BY <1>1, <1>2, ReceiveInvariant, PTL DEF ReceiveSpec, EventsAdvance

--------------------------------------------------------------------------------
(* The packets of the bytes.                                                  *)

(* The connection was received from its first byte on, as a whole when it is  *)
(* not open any more; one that closes has no token left in the window.        *)
ConnectionInv ==
    /\ conn \in 0..Len(life.conns)
    /\ conn = 0 => link = "closed" /\ sent = 0
    /\ conn > 0 => /\ Past(life, conn) \in Nat /\ sent \in Past(life, conn)..Connection.end
                   /\ link # "open" => sent = Connection.end
                   /\ link # "closed" => Past(life, conn) =< Dropped
                   /\ link # "closed" /\ ~authed => sent =< Connection.greeting
    /\ link = "closing" => /\ handler = "decode" => calling
                           /\ \A i \in p..End-1 : ~IsNul(i)

(* The user was told of the packets that end with the bytes decoded so far.   *)
Done == IF link = "closed" THEN sent ELSE IF calling THEN Taken ELSE Dropped

ToldInv ==
    conn > 0 =>
        /\ told \in 0..Len(Connection.packets)
        /\ \A k \in DOMAIN Connection.packets : k =< told <=> Connection.packets[k].last =< Done

(* The decoder waits for the field that begins with the first of the others,  *)
(* and knows what the packet said before it.                                  *)
Expects(f) ==
    /\ f.sh \in Shapes /\ Decoder!Yields(f.sh) /\ (f.sh.cmd = Decoder!LOGIN <=> ~authed)
    /\ f.begin \in Nat /\ Len(heard) = Dropped + 1 - f.begin
    /\ IF f.at = Decoder!Start THEN authed /\ cmd = "" /\ pt = Decoder!PtInit /\ val = <<>>
       ELSE Decoder!KnowsPlace(f.sh, f.at)

PlaceInv ==
    conn > 0 /\ link = "open" /\ process = "running" =>
        IF calling THEN authed => Begins(Connection, Taken, Decoder!Start)
        ELSE Dropped < Connection.end =>
                 /\ Dropped + 1 \in DOMAIN Connection.fields
                 /\ Expects(Connection.fields[Dropped + 1])

(* A process that ended does not read on.                                     *)
ExitInv ==
    /\ process = "running" \/ (process = "exit" /\ handler = "decode" /\ ~calling)
    /\ ExitsOnUnknown

ParseInv == ConnectionInv /\ ToldInv /\ PlaceInv /\ ExitInv

LEMMA ConnectionFacts ==
    ASSUME ReceiveInv, LawfulLives
    PROVE  /\ Len(life.conns) \in Nat /\ DOMAIN life.conns = 1..Len(life.conns)
           /\ \A i \in DOMAIN life.conns : LawfulConnection(life, life.conns[i], Past(life, i))
BY DEF ReceiveInv, LifeInv, LawfulLives

LEMMA StreamFacts ==
    ASSUME ReceiveInv
    PROVE  /\ Len(life.bytes) \in Nat
           /\ \A i \in 1..Len(life.bytes) : stream[i] <=> life.bytes[i] = 0
           /\ sent \in Nat /\ Dropped \in Nat /\ Dropped =< sent
           /\ link = "closed" => handler = "idle"
           /\ handler = "idle" /\ link # "closed" => \A i \in Dropped+1..sent : ~stream[i]
           /\ handler = "decode" => /\ Taken \in Nat /\ Dropped < Taken /\ Taken =< sent
                                    /\ stream[Taken] /\ \A i \in Dropped+1..Taken-1 : ~stream[i]
                                    /\ Len(token) = Taken - Dropped
                                    /\ token[1] = Dropped + 1
<1>1. life.bytes \in Seq(Nat) /\ stream = [i \in DOMAIN life.bytes |-> life.bytes[i] = 0]
    BY LivesAssumption DEF ReceiveInv, LifeInv, Nuls
<1>2. Len(life.bytes) \in Nat /\ DOMAIN life.bytes = 1..Len(life.bytes) /\ Len(stream) \in Nat
    BY <1>1, LenProperties DEF ReceiveInv, BufferInv, TypeOK
<1>3. /\ rstart \in Nat /\ p \in Nat /\ rlen \in Nat /\ sent \in Nat /\ rlen =< sent
      /\ link = "closed" => handler = "idle"
      /\ link # "closed" => rstart =< p /\ p =< End
      /\ link # "closed" /\ handler = "idle" => p = End
    BY <1>2 DEF ReceiveInv, BufferInv, TypeOK, OffsetsInv
<1>4. SearchInv
    BY DEF ReceiveInv, BufferInv
<1>5. Dropped \in Nat /\ Dropped =< sent
    BY <1>3 DEF Dropped
<1>6. ASSUME handler = "idle", link # "closed" PROVE \A i \in Dropped+1..sent : ~stream[i]
  <2>1. Searched = sent BY <1>3, <1>6 DEF Searched, Dropped, End
  <2> QED BY <1>4, <1>6, <2>1 DEF SearchInv
<1>7. ASSUME handler = "decode"
      PROVE  /\ Taken \in Nat /\ Dropped < Taken /\ Taken =< sent
             /\ stream[Taken] /\ \A i \in Dropped+1..Taken-1 : ~stream[i]
             /\ Len(token) = Taken - Dropped
             /\ token[1] = Dropped + 1
  <2>1. Taken = Searched /\ Taken = Dropped + (p - rstart) BY <1>7 DEF Taken, Searched
  <2>2. rstart < p /\ p =< End BY <1>3, <1>4, <1>7 DEF SearchInv
  <2>3. Taken \in Nat /\ Dropped < Taken /\ Taken =< sent
      BY <1>3, <2>1, <2>2 DEF Dropped, End
  <2>4. Len(token) = Taken - Dropped /\ \A i \in 1..Len(token) : token[i] = Dropped + i
      BY <1>3, <1>5, <1>7, <2>1 DEF ReceiveInv, TokenInv
  <2>5. token[1] = Dropped + 1
    <3>1. 1 \in 1..Len(token) BY <1>5, <2>3, <2>4
    <3> QED BY <2>4, <3>1
  <2> QED BY <1>4, <1>7, <2>1, <2>3, <2>4, <2>5 DEF SearchInv
<1>8. \A i \in 1..Len(life.bytes) : stream[i] <=> life.bytes[i] = 0
    BY <1>1, <1>2
<1> QED BY <1>2, <1>3, <1>5, <1>6, <1>7, <1>8

(* The token that a decoder waits for, as TWS sent it.                        *)
LEMMA TokenSent ==
    ASSUME ReceiveInv, ParseInv, LawfulLives, handler = "decode", Decoder!Takes
    PROVE  LET f == Connection.fields[Dropped + 1]
           IN  /\ conn \in DOMAIN life.conns /\ link = "open"
               /\ sent =< Connection.end /\ Expects(f)
               /\ \/ IdSent(Connection, f, Number, Taken)
                  \/ FieldSent(Connection, f, Number, Taken)
                  \/ UnknownSent(life, Connection, f, Taken)
<1>1. process = "running" /\ ~calling
    BY DEF Decoder!Takes
<1>2. link = "open" /\ conn > 0 /\ conn \in DOMAIN life.conns
  <2>1. link # "closed" /\ link \in {"closed", "open", "closing"}
      BY DEF ReceiveInv, BufferInv, TypeOK, OffsetsInv
  <2>2. link # "closing" BY <1>1 DEF ParseInv, ConnectionInv
  <2>3. conn \in 0..Len(life.conns) /\ conn # 0
      BY <2>1 DEF ParseInv, ConnectionInv
  <2> QED BY <2>1, <2>2, <2>3, ConnectionFacts
<1>3. LawfulConnection(life, Connection, Past(life, conn))
    BY <1>2, ConnectionFacts DEF Connection
<1>4. /\ Connection.end \in Nat /\ Connection.end =< Len(life.bytes) /\ sent =< Connection.end
    BY <1>2, <1>3, StreamFacts DEF ParseInv, ConnectionInv, LawfulConnection
<1> DEFINE s == Dropped + 1
           e == Taken
<1>5. /\ Dropped \in Nat /\ e \in Nat /\ Dropped < e /\ e =< sent /\ stream[e]
      /\ \A i \in s..e-1 : ~stream[i]
    BY StreamFacts
<1>6. s \in DOMAIN Connection.fields /\ Expects(Connection.fields[s])
  <2>1. Dropped < Connection.end BY <1>4, <1>5, StreamFacts
  <2> QED BY <1>1, <1>2, <2>1 DEF ParseInv, PlaceInv
<1>7. life.bytes[e] = 0 /\ (\A i \in s..e-1 : life.bytes[i] # 0) /\ e \in s..Connection.end
  <2>1. e \in 1..Len(life.bytes) /\ s \in 1..Len(life.bytes) /\ e \in s..Connection.end
      BY <1>4, <1>5, StreamFacts
  <2>2. \A i \in s..e-1 : i \in 1..Len(life.bytes) BY <1>4, <1>5, <2>1
  <2> QED BY <1>5, <2>1, <2>2, StreamFacts
<1>8. Number = life.bytes[s]
  <2>1. Len(token) = e - Dropped /\ token[1] = s BY StreamFacts
  <2>2. Len(token) = 1 => e = s
    <3>1. e - Dropped = 1 => e = Dropped + 1 BY <1>5
    <3> QED BY <2>1, <3>1
  <2> QED BY <1>7, <2>1, <2>2 DEF Number
<1> HIDE DEF s, e
<1>9. LET f == Connection.fields[s]
          n == life.bytes[s]
      IN  IdSent(Connection, f, n, e) \/ FieldSent(Connection, f, n, e)
            \/ UnknownSent(life, Connection, f, e)
    BY <1>3, <1>6, <1>7 DEF LawfulConnection
<1> QED BY <1>2, <1>4, <1>6, <1>8, <1>9 DEF s, e

(* No packet ends inside a token, nor behind the last of them.                *)
LEMMA LastFacts ==
    ASSUME ReceiveInv, ParseInv, LawfulLives, conn > 0, NEW e \in Nat, Dropped =< e, e =< sent,
           \A i \in Dropped+1..e-1 : ~stream[i],
           NEW k \in DOMAIN Connection.packets
    PROVE  LET last == Connection.packets[k].last
           IN  last \in Nat /\ (last =< e <=> last =< Dropped \/ last = e)
<1> DEFINE last == Connection.packets[k].last
<1>1. conn \in DOMAIN life.conns
    BY ConnectionFacts DEF ParseInv, ConnectionInv
<1>2. LawfulConnection(life, Connection, Past(life, conn))
    BY <1>1, ConnectionFacts DEF Connection
<1>3. last \in Nat
  <2>1. Connection.packets \in Seq([first : Nat, last : Nat]) BY <1>2 DEF LawfulConnection
  <2>2. k \in 1..Len(Connection.packets) BY <2>1, LenProperties
  <2>3. Connection.packets[k] \in [first : Nat, last : Nat] BY <2>1, <2>2, ElementOfSeq
  <2> QED BY <2>3
<1>4. /\ Connection.end \in Nat /\ Connection.end =< Len(life.bytes) /\ sent =< Connection.end
      /\ Past(life, conn) \in Nat /\ Past(life, conn) < last
    BY <1>2, StreamFacts DEF ParseInv, ConnectionInv, LawfulConnection
<1>5. ASSUME last =< e PROVE stream[last]
  <2>1. last =< Connection.end /\ last \in 1..Len(life.bytes)
      BY <1>3, <1>4, <1>5, StreamFacts
  <2>2. life.bytes[last] = 0 BY <1>2, <2>1 DEF LawfulConnection
  <2> QED BY <2>1, <2>2, StreamFacts
<1>6. Dropped \in Nat
    BY StreamFacts
<1> HIDE DEF last
<1>7. last =< e <=> last =< Dropped \/ last = e
  <2>1. last \in Dropped+1..e-1 => ~stream[last] OBVIOUS
  <2> QED BY <1>3, <1>5, <1>6, <2>1
<1> QED BY <1>3, <1>7 DEF last

(* A token, or the rest of the login, with which no packet ends.              *)
LEMMA ToldSame ==
    ASSUME ReceiveInv, ParseInv, LawfulLives, conn > 0, NEW e \in Nat, Dropped =< e, e =< sent,
           \A i \in Dropped+1..e-1 : ~stream[i], Done = Dropped,
           e = Dropped \/ ~Ends(Connection, e)
    PROVE  /\ told \in 0..Len(Connection.packets)
           /\ \A k \in DOMAIN Connection.packets : k =< told <=> Connection.packets[k].last =< e
<1>1. /\ told \in 0..Len(Connection.packets)
      /\ \A k \in DOMAIN Connection.packets : k =< told <=> Connection.packets[k].last =< Dropped
    BY DEF ParseInv, ToldInv
<1>2. ASSUME NEW k \in DOMAIN Connection.packets PROVE k =< told <=> Connection.packets[k].last =< e
  <2>1. /\ Connection.packets[k].last \in Nat
        /\ Connection.packets[k].last =< e <=>
              Connection.packets[k].last =< Dropped \/ Connection.packets[k].last = e
      BY LastFacts
  <2>2. e = Dropped \/ Connection.packets[k].last # e BY DEF Ends
  <2> QED BY <1>1, <2>1, <2>2
<1> QED BY <1>1, <1>2

(* The token with which a packet ends: it is the one that is due.             *)
LEMMA ToldNext ==
    ASSUME ReceiveInv, ParseInv, LawfulLives, conn > 0, NEW e \in Nat, Dropped < e, e =< sent,
           \A i \in Dropped+1..e-1 : ~stream[i], Done = Dropped,
           NEW n \in DOMAIN Connection.packets, Connection.packets[n].last = e
    PROVE  /\ n = told + 1 /\ told + 1 \in 0..Len(Connection.packets)
           /\ \A k \in DOMAIN Connection.packets : k =< told + 1 <=> Connection.packets[k].last =< e
<1> DEFINE packets == Connection.packets
<1>1. /\ told \in 0..Len(packets)
      /\ \A k \in DOMAIN packets : k =< told <=> packets[k].last =< Dropped
    BY DEF ParseInv, ToldInv
<1>2. conn \in DOMAIN life.conns
    BY ConnectionFacts DEF ParseInv, ConnectionInv
<1>3. /\ packets \in Seq([first : Nat, last : Nat])
      /\ \A k \in DOMAIN packets : \A i \in 1..k-1 : packets[i].last < packets[k].last
  <2>1. LawfulConnection(life, Connection, Past(life, conn))
      BY <1>2, ConnectionFacts DEF Connection
  <2> QED BY <2>1 DEF LawfulConnection
<1>4. Len(packets) \in Nat /\ DOMAIN packets = 1..Len(packets)
    BY <1>3, LenProperties
<1>5. \A k \in DOMAIN packets :
          /\ packets[k].last \in Nat
          /\ packets[k].last =< e <=> packets[k].last =< Dropped \/ packets[k].last = e
  <2>1. Dropped =< e BY StreamFacts
  <2> QED BY <2>1, LastFacts
<1>6. Dropped \in Nat
    BY StreamFacts
<1> HIDE DEF packets
<1>7. told < n
    BY <1>1, <1>4, <1>6 DEF packets
<1>8. ASSUME NEW k \in 1..n-1 PROVE k =< told
  <2>0. n \in DOMAIN packets /\ packets[n].last = e BY DEF packets
  <2>1. k \in DOMAIN packets /\ packets[k].last < e BY <1>3, <1>4, <2>0
  <2>2. packets[k].last =< Dropped BY <1>5, <2>1
  <2> QED BY <1>1, <2>1, <2>2
<1>9. n = told + 1
  <2>1. n \in Nat \ {0} /\ told \in Nat BY <1>1, <1>4 DEF packets
  <2>2. n - 1 # 0 => n - 1 \in 1..n-1 BY <2>1
  <2> QED BY <1>7, <1>8, <2>1, <2>2
<1>10. ASSUME NEW k \in DOMAIN packets PROVE k =< told + 1 <=> packets[k].last =< e
  <2>1. CASE k < n BY <1>1, <1>4, <1>5, <1>9, <2>1
  <2>2. CASE k = n BY <1>4, <1>5, <1>9, <2>2 DEF packets
  <2>3. CASE k > n
    <3>1. n \in 1..k-1 BY <1>4, <2>3 DEF packets
    <3>2. e < packets[k].last BY <1>3, <3>1 DEF packets
    <3> QED BY <1>1, <1>4, <1>5, <1>9, <2>3, <3>2
  <2> QED BY <1>4, <2>1, <2>2, <2>3 DEF packets
<1> QED BY <1>1, <1>4, <1>9, <1>10 DEF packets

--------------------------------------------------------------------------------
(* The invariant is inductive: the user, the connection and the reads.        *)

LEMMA PlaceFrame ==
    ASSUME PlaceInv, UNCHANGED <<life, conn, cmd, pt, val, calling, process, authed, heard>>,
           link' = "open" => link = "open" /\ Dropped' = Dropped,
           calling => Taken' = Taken
    PROVE  PlaceInv'
<1> SUFFICES ASSUME conn' > 0, link' = "open", process' = "running"
             PROVE  PlaceInv'
    BY DEF PlaceInv
<1>1. conn > 0 /\ link = "open" /\ process = "running" /\ Connection' = Connection
      /\ Dropped' = Dropped
    BY DEF Connection
<1>2. CASE calling
  <2>1. authed => Begins(Connection, Taken, Decoder!Start)
      BY <1>1, <1>2 DEF PlaceInv
  <2>2. authed' => Begins(Connection, Taken, Decoder!Start)'
      BY <1>1, <1>2, <2>1 DEF Begins
  <2> QED BY <1>2, <2>2 DEF PlaceInv
<1>3. CASE ~calling
  <2> PICK f : f = Connection.fields[Dropped + 1]
      OBVIOUS
  <2>1. Dropped < Connection.end => Dropped + 1 \in DOMAIN Connection.fields /\ Expects(f)
      BY <1>1, <1>3 DEF PlaceInv
  <2>2. Expects(f) => Expects(f)'
      BY <1>1 DEF Expects, Decoder!KnowsPlace, Decoder!Receiver, Decoder!At
  <2>3. f = (Connection.fields[Dropped + 1])'
      BY <1>1
  <2>4. Expects(f)' <=> Expects(Connection.fields[Dropped + 1])'
      BY <2>3 DEF Expects, Decoder!KnowsPlace
  <2> QED BY <1>1, <1>3, <2>1, <2>2, <2>4 DEF PlaceInv
<1> QED BY <1>2, <1>3

(* The user was told of the packets up to the byte e.                         *)
LEMMA ToldStep ==
    ASSUME UNCHANGED <<life, conn>>, NEW e, Done' = e,
           conn > 0 =>
              /\ told' \in 0..Len(Connection.packets)
              /\ \A k \in DOMAIN Connection.packets : k =< told' <=> Connection.packets[k].last =< e
    PROVE  ToldInv'
<1>1. Connection' = Connection
    BY DEF Connection
<1> QED BY <1>1 DEF ToldInv

(* What does not touch the decoder.                                           *)
LEMMA ParseSurroundings ==
    ASSUME ReceiveInv, ReceiveInv', ParseInv, LawfulLives,
           Lose \/ CloseInEvent \/ Closed \/ Read \/ OutOfRoom \/ Search
    PROVE  ParseInv'
<1>1. UNCHANGED <<life, conn, cmd, pt, val, calling, process, authed, heard, told, stream>>
    BY DEF Lose, CloseInEvent, Closed, Read, OutOfRoom, Search, Close, OnCloseCb, OnRead, NoBufs,
           Scan, TokenFound, NoToken, decoder, events
<1>2. process = "running" /\ (calling => handler = "decode") /\ Connection' = Connection
  <2>1. handler # "decode" \/ calling
      BY DEF Lose, CloseInEvent, Closed, Read, OutOfRoom, Search, OnCloseCb, OnRead, NoBufs,
           Scan, TokenFound, NoToken
  <2> QED BY <1>1, <2>1 DEF ReceiveInv, TokenInv, ParseInv, ExitInv, Connection
<1>3. /\ rstart \in Nat /\ p \in Nat /\ rlen \in Nat /\ sent \in Nat
      /\ link # "closed" /\ handler = "idle" => p = End
      /\ (link # "closed" /\ handler = "idle" => p = End)'
    BY LenProperties DEF ReceiveInv, BufferInv, TypeOK, OffsetsInv
<1>4. ExitInv'
    BY <1>1, <1>2 DEF ExitInv, ExitsOnUnknown
<1>5. CASE Lose \/ CloseInEvent
  <2>1. UNCHANGED <<rbuf, rstart, rlen, p, handler, sent>> /\ link = "open" /\ link' = "closing"
        /\ conn > 0 /\ sent = Connection.end
      BY <1>5 DEF Lose, CloseInEvent, Close, window, Received
  <2>2. (handler = "decode" => calling) /\ \A i \in p..End-1 : ~IsNul(i)
      BY <1>2, <1>3, <1>5, <2>1 DEF Lose, CloseInEvent
  <2>3. Dropped' = Dropped /\ Taken' = Taken BY <2>1 DEF Dropped, Taken
  <2>4. ConnectionInv'
    <3>1. \A i \in p..End-1 : IsNul(i)' <=> IsNul(i) BY <1>1, <2>1 DEF IsNul
    <3>2. Past(life, conn)' = Past(life, conn) BY <1>1 DEF Past
    <3>3. (\A i \in p..End-1 : ~IsNul(i))' BY <2>1, <2>2, <3>1 DEF End
    <3> QED BY <1>1, <1>2, <2>1, <2>2, <2>3, <3>2, <3>3 DEF ParseInv, ConnectionInv
  <2>5. ToldInv'
      BY <1>1, <1>2, <2>1, <2>3 DEF ParseInv, ToldInv, Done
  <2>6. PlaceInv' BY <2>1 DEF PlaceInv
  <2> QED BY <1>4, <2>4, <2>5, <2>6 DEF ParseInv
<1>6. CASE Closed
  <2>1. /\ UNCHANGED <<sent, handler>> /\ handler = "idle" /\ link = "closing" /\ link' = "closed"
      BY <1>6 DEF Closed, OnCloseCb, window
  <2>2. conn > 0 /\ sent = Connection.end
      BY <2>1 DEF ParseInv, ConnectionInv
  <2>3. ConnectionInv'
    <3>1. Past(life, conn)' = Past(life, conn) BY <1>1 DEF Past
    <3> QED BY <1>1, <1>2, <2>1, <2>2, <3>1 DEF ParseInv, ConnectionInv
  <2>4. ToldInv'
    <3>1. Done' = sent /\ Done = Dropped BY <1>2, <2>1 DEF Done
    <3>2. \A i \in Dropped+1..sent : ~stream[i] BY <2>1, StreamFacts
    <3>3. sent = Dropped \/ ~Ends(Connection, sent)
      <4> SUFFICES ASSUME sent # Dropped, NEW k \in DOMAIN Connection.packets,
                          Connection.packets[k].last = sent
                   PROVE  FALSE
          BY DEF Ends
      <4>1. sent \in Dropped+1..sent BY StreamFacts
      <4>2. LawfulConnection(life, Connection, Past(life, conn))
          BY <2>2, ConnectionFacts DEF Connection, ParseInv, ConnectionInv
      <4>3. life.bytes[sent] = 0 /\ sent =< Len(life.bytes)
        <5>1. sent =< Connection.end BY <2>2, StreamFacts
        <5>2. Connection.packets[k].last =< Connection.end =>
                  life.bytes[Connection.packets[k].last] = 0
            BY <4>2 DEF LawfulConnection
        <5>3. Past(life, conn) \in Nat BY <2>2 DEF ParseInv, ConnectionInv
        <5>4. Connection.end =< Len(life.bytes) BY <4>2, <5>3, StreamFacts DEF LawfulConnection
        <5> QED BY <2>2, <5>1, <5>2, <5>4
      <4>4. sent \in 1..Len(life.bytes) BY <4>1, <4>3, StreamFacts
      <4> QED BY <3>2, <4>1, <4>3, <4>4, StreamFacts
    <3>4. /\ told \in 0..Len(Connection.packets)
          /\ \A k \in DOMAIN Connection.packets : k =< told <=> Connection.packets[k].last =< sent
        BY <2>2, <3>1, <3>2, <3>3, StreamFacts, ToldSame
    <3> QED BY <1>1, <1>3, <3>1, <3>4, ToldStep
  <2>5. PlaceInv' BY <2>1 DEF PlaceInv
  <2> QED BY <1>4, <2>3, <2>4, <2>5 DEF ParseInv
<1>7. CASE Read \/ OutOfRoom
  <2>1. PICK n \in Nat : rlen' = rlen + n /\ sent' = sent + n
    <3>1. CASE Read BY <1>3, <3>1 DEF Read, OnRead, Room, Base, End
    <3>2. CASE OutOfRoom BY <1>3, <3>2 DEF OutOfRoom, NoBufs
    <3> QED BY <1>7, <3>1, <3>2
  <2>2. /\ link = "open" /\ handler = "idle" /\ ~calling /\ conn > 0 /\ handler' # "decode"
        /\ link' \in {"open", "closing"}
        /\ sent' =< Connection.end /\ (~authed => sent' =< Connection.greeting)
        /\ link' # "open" => sent' = Connection.end /\ handler' = "idle"
    <3>1. CASE Read BY <1>2, <3>1 DEF Read, OnRead
    <3>2. CASE OutOfRoom
      <4>1. /\ link = "open" /\ handler = "idle" /\ ~calling /\ conn > 0 /\ handler' = "idle"
            /\ link' = "closing" /\ sent' = sent /\ sent = Connection.end
          BY <1>2, <3>2 DEF OutOfRoom, NoBufs, Received
      <4>2. ~authed => sent =< Connection.greeting
          BY <4>1 DEF ParseInv, ConnectionInv
      <4> QED BY <1>3, <4>1, <4>2
    <3> QED BY <1>7, <3>1, <3>2
  <2>3. Dropped' = Dropped BY <1>3, <2>1 DEF Dropped
  <2>4. ConnectionInv'
    <3>1. Past(life, conn)' = Past(life, conn) BY <1>1 DEF Past
    <3>2. link' = "closing" => p' = End' BY <1>3, <2>2
    <3>3. link' = "closing" => \A i \in p'..End'-1 : FALSE
      <4> SUFFICES ASSUME link' = "closing" PROVE \A i \in p'..End'-1 : FALSE
          OBVIOUS
      <4> PICK x : x = p'
          OBVIOUS
      <4>1. End' = x /\ x \in Nat BY <3>2 DEF ReceiveInv, BufferInv, TypeOK
      <4>2. \A y \in Nat : \A i \in y..y-1 : FALSE OBVIOUS
      <4> QED BY <4>1, <4>2
    <3>4. Past(life, conn) \in Nat /\ sent \in Past(life, conn)..Connection.end
          /\ Past(life, conn) =< Dropped /\ conn \in 0..Len(life.conns)
        BY <2>2 DEF ParseInv, ConnectionInv
    <3>5. Connection.end \in Int
      <4>1. LawfulConnection(life, Connection, Past(life, conn))
          BY <2>2, <3>4, ConnectionFacts DEF Connection
      <4> QED BY <3>4, <4>1, StreamFacts DEF LawfulConnection
    <3>6. sent' \in Past(life, conn)..Connection.end
        BY <1>3, <2>1, <2>2, <3>4, <3>5
    <3> QED BY <1>1, <1>2, <2>2, <2>3, <3>1, <3>3, <3>4, <3>6 DEF ConnectionInv
  <2>5. ToldInv'
      BY <1>1, <1>2, <2>2, <2>3 DEF ParseInv, ToldInv, Done
  <2>6. PlaceInv'
      BY <1>1, <2>2, <2>3, PlaceFrame DEF ParseInv
  <2> QED BY <1>4, <2>4, <2>5, <2>6 DEF ParseInv
<1>8. CASE Search
  <2>1. /\ UNCHANGED <<rbuf, rstart, rlen, sent, link>> /\ handler = "scan" /\ link # "closed"
        /\ TokenFound \/ NoToken
      BY <1>8, StreamFacts DEF Search, Scan, TokenFound, NoToken
  <2>2. Dropped' = Dropped /\ ~calling BY <1>2, <2>1 DEF Dropped
  <2>3. ConnectionInv'
    <3>1. Past(life, conn)' = Past(life, conn) BY <1>1 DEF Past
    <3>2. link = "closing" => handler' # "decode" /\ \A i \in p'..End'-1 : ~IsNul(i)'
      <4> SUFFICES ASSUME link = "closing"
                   PROVE  handler' # "decode" /\ \A i \in p'..End'-1 : ~IsNul(i)'
          OBVIOUS
      <4>1. \A i \in p..End-1 : ~IsNul(i) BY DEF ParseInv, ConnectionInv
      <4>2. NoToken BY <2>1, <4>1 DEF TokenFound
      <4>3. handler' = "idle" /\ p' = (IF p < End THEN End ELSE p) /\ End' = End /\ End \in Nat
          BY <1>3, <2>1, <4>2 DEF NoToken, End
      <4> QED BY <1>3, <4>3
    <3> QED BY <1>1, <1>2, <2>1, <2>2, <3>1, <3>2 DEF ParseInv, ConnectionInv
  <2>4. ToldInv'
      BY <1>1, <1>2, <2>1, <2>2 DEF ParseInv, ToldInv, Done
  <2>5. PlaceInv'
      BY <1>1, <2>1, <2>2, PlaceFrame DEF ParseInv
  <2> QED BY <1>4, <2>3, <2>4, <2>5 DEF ParseInv
<1> QED BY <1>5, <1>6, <1>7, <1>8

--------------------------------------------------------------------------------
(* ... the decoder.                                                           *)

(* It goes on in the packet of the field f, behind the byte e.                *)
LEMMA PlaceOn ==
    ASSUME UNCHANGED <<life, conn>>, NEW c, c = Connection, NEW f, NEW e, NEW next,
           next # Decoder!Start, GoesOn(c, e, f, next), Dropped' = e, ~calling',
           f.sh \in Shapes, Decoder!Yields(f.sh), (f.sh.cmd = Decoder!LOGIN <=> ~authed'),
           f.begin \in Nat, Len(heard') = e + 1 - f.begin, Decoder!KnowsPlace(f.sh, next)'
    PROVE  PlaceInv'
<1> SUFFICES ASSUME e < c.end
             PROVE  /\ e + 1 \in DOMAIN c.fields
                    /\ Expects(c.fields[e + 1])'
  <2>1. Connection' = c BY DEF Connection
  <2>2. Expects(c.fields[e + 1])' <=> Expects(Connection.fields[Dropped + 1])'
      BY <2>1 DEF Expects, Decoder!KnowsPlace
  <2> QED BY <2>1, <2>2 DEF PlaceInv
<1>1. e + 1 \in DOMAIN c.fields
      /\ c.fields[e + 1] = [sh |-> f.sh, at |-> next, begin |-> f.begin]
    BY DEF GoesOn
<1> PICK g : g = c.fields[e + 1]
    OBVIOUS
<1>2. g.sh = f.sh /\ g.at = next /\ g.begin = f.begin
    BY <1>1
<1>3. Decoder!KnowsPlace(g.sh, g.at)'
    BY <1>2 DEF Decoder!KnowsPlace
<1>4. Expects(g)'
    BY <1>2, <1>3 DEF Expects
<1> QED BY <1>1, <1>4 DEF Expects, Decoder!KnowsPlace

LEMMA ByteBehind == \A e \in Nat : e + 1 \in Nat /\ e + 1 - (e + 1) = 0
OBVIOUS

(* ... or it waits for another packet behind it.                              *)
LEMMA PlaceBetween ==
    ASSUME UNCHANGED <<life, conn>>, NEW c, c = Connection, NEW e \in Nat,
           link' = "open" => Begins(c, e, Decoder!Start) /\ authed' = TRUE,
           Dropped' = e, ~calling', heard' = <<>>,
           cmd' = "", pt' = Decoder!PtInit, val' = <<>>
    PROVE  PlaceInv'
<1>0. e + 1 \in Nat /\ e + 1 - (e + 1) = 0
    BY ByteBehind, Zenon
<1> SUFFICES ASSUME e < c.end, link' = "open"
             PROVE  /\ e + 1 \in DOMAIN c.fields
                    /\ Expects(c.fields[e + 1])'
  <2>1. Connection' = c BY DEF Connection
  <2>2. Expects(c.fields[e + 1])' <=> Expects(Connection.fields[Dropped + 1])'
      BY <2>1 DEF Expects, Decoder!KnowsPlace
  <2> QED BY <2>1, <2>2 DEF PlaceInv
<1> PICK g : g = c.fields[e + 1]
    OBVIOUS
<1>1. /\ e + 1 \in DOMAIN c.fields
      /\ g.sh \in Shapes /\ Decoder!Yields(g.sh) /\ g.sh.cmd # Decoder!LOGIN
      /\ g.at = Decoder!Start /\ g.begin = e + 1
    BY DEF Begins
<1>2. Len(heard') = e + 1 - g.begin
  <2>1. Len(<<>>) = 0 OBVIOUS
  <2>2. e + 1 - g.begin = 0 BY <1>0, <1>1, Zenon
  <2> QED BY <2>1, <2>2
<1>3. Expects(g)'
  <2>1. g.begin \in Nat BY <1>0, <1>1, Zenon
  <2> QED BY <1>1, <1>2, <2>1 DEF Expects
<1> QED BY <1>1, <1>3 DEF Expects, Decoder!KnowsPlace

(* What a token changes of the window and the bytes heard.                    *)
LEMMA DecodedFacts ==
    ASSUME ReceiveInv, EventsInv, handler = "decode", Decoded, UNCHANGED <<life, conn>>
    PROVE  /\ Dropped' = Taken /\ handler' = "scan" /\ link # "closed"
           /\ UNCHANGED <<link, authed, stream, sent, rbuf, p>> /\ End' = End
           /\ Len(heard \o token) = Len(heard) + (Taken - Dropped) /\ Len(heard) \in Nat
           /\ Connection' = Connection /\ Past(life, conn)' = Past(life, conn)
<1>1. handler' = "scan" /\ rlen' = rlen - (p - rstart) /\ rstart' = p
      /\ UNCHANGED <<link, authed, stream, sent, rbuf, p>> /\ link # "closed"
    BY StreamFacts DEF Decoded, Consume
<1>2. /\ rstart \in Nat /\ p \in Nat /\ rlen \in Nat /\ sent \in Nat
      /\ Taken = Dropped + (p - rstart)
      /\ Len(heard \o token) = Len(heard) + (p - rstart) /\ Len(heard) \in Nat
    BY <1>1, HeardMore, StreamFacts DEF ReceiveInv, BufferInv, TypeOK
<1>3. Dropped' = Taken /\ End' = End
    BY <1>1, <1>2 DEF Dropped, End
<1>4. Taken - Dropped = p - rstart
    BY <1>2, StreamFacts
<1> QED BY <1>1, <1>2, <1>3, <1>4 DEF Connection, Past

LEMMA ConnectionDecoded ==
    ASSUME ReceiveInv, EventsInv, ParseInv, handler = "decode", Decoded, UNCHANGED <<life, conn>>
    PROVE  ConnectionInv'
<1>1. Dropped \in Nat /\ Taken \in Nat /\ Dropped < Taken
    BY StreamFacts
<1>2. ASSUME link = "closing" PROVE (\A i \in p..End-1 : ~IsNul(i))'
  <2>1. \A i \in p..End-1 : ~IsNul(i) BY <1>2 DEF ParseInv, ConnectionInv
  <2>2. rbuf' = rbuf /\ stream' = stream /\ p' = p /\ End' = End BY DecodedFacts
  <2>3. \A i \in p..End-1 : IsNul(i)' <=> IsNul(i) BY <2>2 DEF IsNul
  <2> QED BY <2>1, <2>2, <2>3
<1>3. conn > 0 => Past(life, conn) \in Nat /\ Past(life, conn) =< Dropped
    BY DecodedFacts DEF ParseInv, ConnectionInv
<1>4. conn > 0 => Past(life, conn) =< Taken
    BY <1>1, <1>3
<1> QED BY <1>2, <1>3, <1>4, DecodedFacts DEF ParseInv, ConnectionInv

LEMMA ToldDecoded ==
    ASSUME ReceiveInv, EventsInv, ParseInv, LawfulLives, handler = "decode", ~calling, ~calling',
           UNCHANGED <<life, conn, link, told>>, NEW e \in {Taken}, Dropped' = e,
           conn > 0 => ~Ends(Connection, e)
    PROVE  ToldInv'
<1>1. Done = Dropped /\ Done' = Dropped'
    BY StreamFacts DEF Done
<1>2. ASSUME conn > 0
      PROVE  /\ told \in 0..Len(Connection.packets)
             /\ \A k \in DOMAIN Connection.packets : k =< told <=> Connection.packets[k].last =< e
  <2>1. e = Taken /\ e \in Nat /\ Dropped =< e /\ e =< sent BY StreamFacts
  <2>2. \A i \in Dropped+1..e-1 : ~stream[i] BY <2>1, StreamFacts
  <2> QED BY <1>1, <1>2, <2>1, <2>2, ToldSame
<1> QED BY <1>1, <1>2, ToldStep

(* The id of a packet.                                                        *)
LEMMA ParseNewPacket ==
    ASSUME ReceiveInv, EventsInv, ParseInv, LawfulLives, NewPacket
    PROVE  ParseInv'
<1>1. /\ handler = "decode" /\ Decoder!Takes /\ authed /\ cmd = "" /\ cmd' = Command(Number)
      /\ UNCHANGED <<pt, val, calling, process, told, life, conn>> /\ heard' = heard \o token
      /\ Decoded
    BY DEF NewPacket, Hears, Decoder!PacketId, Decoder!packet
<1>2. process = "running" /\ ~calling
    BY <1>1 DEF Decoder!Takes
<1> PICK f : f = Connection.fields[Dropped + 1]
    OBVIOUS
<1>3. /\ conn \in DOMAIN life.conns /\ link = "open" /\ Expects(f)
      /\ \/ IdSent(Connection, f, Number, Taken)
         \/ FieldSent(Connection, f, Number, Taken)
         \/ UnknownSent(life, Connection, f, Taken)
    BY <1>1, TokenSent
<1>4. f.sh \in Shapes /\ f.sh.cmd # ""
  <2>1. "" \notin DOMAIN Packets BY PacketsAssumption DEF Decoder!PacketsOK
  <2> QED BY <1>3, <2>1 DEF Expects, Shapes
<1>5. f.at = Decoder!Start /\ pt = Decoder!PtInit /\ val = <<>>
    BY <1>1, <1>3, <1>4 DEF Expects, Decoder!KnowsPlace, Decoder!Receiver
<1>6. /\ Command(Number) = f.sh.cmd /\ ~Ends(Connection, Taken)
      /\ GoesOn(Connection, Taken, f, <<1, 0>>)
    BY <1>3, <1>5 DEF IdSent, FieldSent, UnknownSent
<1>7. /\ Dropped' = Taken /\ authed' = authed /\ link' = link /\ Len(heard) \in Nat
      /\ Len(heard') = Len(heard) + (Taken - Dropped)
    BY <1>1, DecodedFacts
<1>8. PlaceInv'
  <2>1. Decoder!Receiver' = f.sh.cmd /\ pt' = Decoder!PtInit /\ val' = <<>>
      BY <1>1, <1>5, <1>6, <1>7 DEF Decoder!Receiver
  <2>2. Decoder!KnowsPlace(f.sh, <<1, 0>>)'
      BY <1>4, <2>1, PacketsAssumption, ShapesFit, Decoder!BeginSync
  <2>3. Len(heard') = Taken + 1 - f.begin
    <3>1. Len(heard) = Dropped + 1 - f.begin /\ f.begin \in Nat BY <1>3 DEF Expects
    <3>2. Dropped \in Nat /\ Taken \in Nat BY <1>1, StreamFacts
    <3> QED BY <1>7, <3>1, <3>2
  <2>4. <<1, 0>> # Decoder!Start BY DEF Decoder!Start
  <2>5. Decoder!Yields(f.sh) /\ f.begin \in Nat /\ (f.sh.cmd = Decoder!LOGIN <=> ~authed')
      BY <1>3, <1>7 DEF Expects
  <2> PICK c, e : c = Connection /\ e = Taken
      OBVIOUS
  <2> QED BY <1>1, <1>2, <1>4, <1>6, <1>7, <2>2, <2>3, <2>4, <2>5, PlaceOn
<1>9. ToldInv'
    BY <1>1, <1>2, <1>6, <1>7, ToldDecoded
<1> QED BY <1>1, <1>2, <1>8, <1>9, ConnectionDecoded DEF ParseInv, ExitInv, ExitsOnUnknown

(* A token that a packet's function takes: it is the field that TWS sends, so *)
(* that both go on to the same place, and log in together.                    *)
LEMMA FieldTaken ==
    ASSUME ReceiveInv, ParseInv, LawfulLives, handler = "decode", Decoder!Resumes,
           NEW f, f = Connection.fields[Dropped + 1]
    PROVE  LET next == Decoder!Following(f.sh, f.at)
           IN  /\ conn \in DOMAIN life.conns /\ link = "open" /\ Expects(f)
               /\ f.at # Decoder!Start /\ Decoder!Receiver = f.sh.cmd /\ f.sh.cmd \in DOMAIN Packets
               /\ FieldSent(Connection, f, Number, Taken)
               /\ Decoder!Next_(Number) = next
               /\ next # Decoder!Start =>
                     /\ next \in Decoder!Places(f.sh)
                     /\ Decoder!Agree(Decoder!Layout(f.sh.cmd), Decoder!Values(Number),
                                      Decoder!Contents(f.sh), next[1] - 1)
               /\ Decoder!Authenticates(Number) <=> next = Decoder!Start /\ Welcomes(f.sh)
<1>1. Decoder!Takes /\ Decoder!Receiver \in DOMAIN Packets
    BY DEF Decoder!Resumes
<1>2. /\ conn \in DOMAIN life.conns /\ link = "open" /\ Expects(f)
      /\ \/ IdSent(Connection, f, Number, Taken)
         \/ FieldSent(Connection, f, Number, Taken)
         \/ UnknownSent(life, Connection, f, Taken)
    BY <1>1, TokenSent
<1>3. "" \notin DOMAIN Packets /\ Decoder!UNKNOWN \notin DOMAIN Packets
    BY PacketsAssumption DEF Decoder!PacketsOK
<1>4. f.at # Decoder!Start
    BY <1>1, <1>2, <1>3 DEF Expects, Decoder!Receiver
<1>5. Decoder!KnowsPlace(f.sh, f.at) /\ f.sh \in Shapes /\ Decoder!Yields(f.sh)
      /\ (f.sh.cmd = Decoder!LOGIN <=> ~authed)
    BY <1>2, <1>4 DEF Expects
<1>6. Decoder!Receiver = f.sh.cmd /\ f.sh.cmd \in DOMAIN Packets /\ f.at \in Decoder!Places(f.sh)
    BY <1>1, <1>5 DEF Decoder!KnowsPlace
<1>7. FieldSent(Connection, f, Number, Taken)
    BY <1>2, <1>3, <1>4, <1>6 DEF IdSent, UnknownSent
<1> DEFINE steps == Decoder!Layout(f.sh.cmd)
           s == steps[f.at[1]]
           next == Decoder!Following(f.sh, f.at)
<1>8. s.name \in Decoder!TestedNames(steps) => Number = Decoder!TokenOf(f.sh, s)
  <2> SUFFICES ASSUME s.name \in Decoder!TestedNames(steps) PROVE Number = Decoder!TokenOf(f.sh, s)
      OBVIOUS
  <2>1. f.at[1] \in DOMAIN steps
    <3>1. /\ f.at = <<f.at[1], f.at[2]>>
          /\ \A k, l : <<k, l>> \in Decoder!Places(f.sh) <=>
                          Decoder!IsPlace(steps, Decoder!Contents(f.sh), k, l)
        BY <1>5, <1>6, PacketsAssumption, ShapesFit, Decoder!PlacesAreSent
    <3>2. Decoder!IsPlace(steps, Decoder!Contents(f.sh), f.at[1], f.at[2]) BY <1>6, <3>1, Zenon
    <3> QED BY <3>2, Zenon DEF Decoder!IsPlace
  <2>2. s.name # Decoder!NONE /\ (s.kind \in {"version", "count"} \/ s.name \in Decoder!Tested(f.sh.cmd))
      BY <1>6, <2>1, PacketsAssumption, ShapesFit, Decoder!TestedKinds
  <2>3. Means(f.sh, s, Number)
      BY <1>7 DEF FieldSent
  <2> QED BY <2>2, <2>3 DEF Means
<1>9. /\ Decoder!Next_(Number) = next
      /\ next # Decoder!Start =>
            /\ next \in Decoder!Places(f.sh)
            /\ Decoder!Agree(steps, Decoder!Values(Number), Decoder!Contents(f.sh), next[1] - 1)
      /\ steps[1].name = Decoder!VERSION =>
            Decoder!Value(Decoder!Values(Number), Decoder!VERSION) = f.sh.version
    BY <1>5, <1>8, PacketsAssumption, ShapesFit, Decoder!TokenFollows
<1>10. Decoder!Authenticates(Number) <=> next = Decoder!Start /\ Welcomes(f.sh)
  <2>1. ~authed => steps[1].name = Decoder!VERSION
    <3>1. Decoder!LOGIN \in DOMAIN Packets /\ Decoder!LOGIN # Decoder!UNKNOWN
        BY PacketsAssumption DEF Decoder!PacketsOK
    <3>2. Packets[Decoder!LOGIN].steps[1].name = Decoder!VERSION BY DEF LawfulLives
    <3>3. ~authed => f.sh.cmd = Decoder!LOGIN BY <1>5
    <3> QED BY <3>1, <3>2, <3>3 DEF Decoder!Layout
  <2>2. ~authed => Decoder!Value(Decoder!Values(Number), Decoder!VERSION) = f.sh.version
      BY <1>9, <2>1
  <2>3. Decoder!Authenticates(Number) <=>
            /\ ~authed /\ next = Decoder!Start
            /\ Decoder!Value(Decoder!Values(Number), Decoder!VERSION) >= Decoder!MIN_REQ_SERVER_VERSION
      BY <1>9, Zenon DEF Decoder!Authenticates, Decoder!PtInit
  <2> HIDE DEF next, steps, s
  <2> QED BY <1>5, <2>2, <2>3, Zenon DEF Welcomes
<1> QED BY <1>2, <1>4, <1>6, <1>7, <1>9, <1>10

(* A token of a packet that goes on.                                          *)
LEMMA ParseTakeToken ==
    ASSUME ReceiveInv, EventsInv, ParseInv, LawfulLives, TakeToken
    PROVE  ParseInv'
<1> PICK f : f = Connection.fields[Dropped + 1]
    OBVIOUS
<1> DEFINE next == Decoder!Following(f.sh, f.at)
<1>1. /\ handler = "decode" /\ Decoder!Resumes /\ ~calling' /\ Decoder!TakeToken(Number)
      /\ UNCHANGED <<authed, cmd, process, told, life, conn>> /\ heard' = heard \o token
      /\ Decoded
    BY DEF TakeToken, Hears, Decoder!TakeToken, Decoded
<1>2. process = "running" /\ ~calling
    BY <1>1 DEF Decoder!Resumes, Decoder!Takes
<1>3. /\ conn \in DOMAIN life.conns /\ link = "open" /\ Expects(f)
      /\ f.at # Decoder!Start /\ Decoder!Receiver = f.sh.cmd
      /\ FieldSent(Connection, f, Number, Taken) /\ Decoder!Next_(Number) = next
      /\ next # Decoder!Start =>
            /\ next \in Decoder!Places(f.sh)
            /\ Decoder!Agree(Decoder!Layout(f.sh.cmd), Decoder!Values(Number),
                             Decoder!Contents(f.sh), next[1] - 1)
    BY <1>1, FieldTaken
<1> HIDE DEF next
<1>4. next # Decoder!Start /\ pt' = next /\ val' = Decoder!Values(Number)
  <2>1. /\ calling' = (next = Decoder!PtInit)
        /\ pt' = IF next = Decoder!PtInit THEN pt ELSE next
        /\ val' = Decoder!Values(Number)
      BY <1>1, <1>3, Zenon DEF Decoder!TakeToken
  <2>2. next # Decoder!PtInit BY <1>1, <2>1, Zenon
  <2> QED BY <2>1, <2>2 DEF Decoder!PtInit
<1>5. ~Ends(Connection, Taken) /\ GoesOn(Connection, Taken, f, next)
    BY <1>3, <1>4 DEF FieldSent, next
<1>6. /\ Dropped' = Taken /\ authed' = authed /\ link' = link /\ Len(heard) \in Nat
      /\ Len(heard') = Len(heard) + (Taken - Dropped)
    BY <1>1, DecodedFacts
<1>7. PlaceInv'
  <2>1. Decoder!Receiver' = f.sh.cmd
      BY <1>1, <1>3 DEF Decoder!Receiver
  <2>2. Decoder!At' = next
      BY <1>4 DEF Decoder!At, Decoder!PtInit
  <2>3. f.sh \in Shapes /\ Decoder!Yields(f.sh) /\ f.begin \in Nat
        /\ (f.sh.cmd = Decoder!LOGIN <=> ~authed') /\ Len(heard) = Dropped + 1 - f.begin
      BY <1>3, <1>6 DEF Expects
  <2>4. Decoder!KnowsPlace(f.sh, next)'
      BY <1>3, <1>4, <2>1, <2>2, <2>3 DEF Decoder!KnowsPlace
  <2>5. Len(heard') = Taken + 1 - f.begin
    <3>1. Dropped \in Nat /\ Taken \in Nat BY <1>1, StreamFacts
    <3>2. Len(heard) = Dropped + 1 - f.begin /\ f.begin \in Nat BY <2>3
    <3>3. Len(heard') = Len(heard) + (Taken - Dropped) BY <1>6
    <3> QED BY <3>1, <3>2, <3>3
  <2> PICK c, e, n : c = Connection /\ e = Taken /\ n = next
      OBVIOUS
  <2>6. Decoder!KnowsPlace(f.sh, n)'
      BY <2>4 DEF Decoder!KnowsPlace
  <2> QED BY <1>1, <1>4, <1>5, <1>6, <2>3, <2>5, <2>6, PlaceOn
<1>8. ToldInv'
    BY <1>1, <1>2, <1>5, <1>6, ToldDecoded
<1> QED BY <1>1, <1>2, <1>7, <1>8, ConnectionDecoded DEF ParseInv, ExitInv, ExitsOnUnknown

(* The last token of a packet: the user is told of the packet that ends here. *)
LEMMA EventFacts ==
    ASSUME ReceiveInv, EventsInv, ParseInv, LawfulLives, Event
    PROVE  /\ handler = "decode" /\ ~calling /\ calling' /\ process = "running" /\ conn > 0
           /\ UNCHANGED <<vars, authed, process, life, conn>>
           /\ shown' = heard \o token /\ told' = told + 1
           /\ Begins(Connection, Taken, Decoder!Start)
           /\ told + 1 \in DOMAIN Connection.packets
           /\ Connection.packets[told + 1] = [first |-> Dropped + 1 - Len(heard), last |-> Taken]
           /\ told + 1 \in 0..Len(Connection.packets)
           /\ \A k \in DOMAIN Connection.packets :
                 k =< told + 1 <=> Connection.packets[k].last =< Taken
<1> PICK f : f = Connection.fields[Dropped + 1]
    OBVIOUS
<1> DEFINE next == Decoder!Following(f.sh, f.at)
<1>1. /\ handler = "decode" /\ Decoder!Resumes /\ calling' /\ Decoder!TakeToken(Number)
      /\ UNCHANGED <<vars, authed, process, life, conn>>
      /\ shown' = heard \o token /\ told' = told + 1
    BY DEF Event, Decoder!TakeToken, vars
<1>2. process = "running" /\ ~calling
    BY <1>1 DEF Decoder!Resumes, Decoder!Takes
<1>3. /\ conn \in DOMAIN life.conns /\ Expects(f) /\ f.at # Decoder!Start
      /\ FieldSent(Connection, f, Number, Taken) /\ Decoder!Next_(Number) = next
      /\ Decoder!Authenticates(Number) <=> next = Decoder!Start /\ Welcomes(f.sh)
    BY <1>1, FieldTaken
<1>4. next = Decoder!Start /\ ~Welcomes(f.sh)
  <2>1. calling' = (next = Decoder!PtInit) /\ ~Decoder!Authenticates(Number)
      BY <1>1, <1>3, Zenon DEF Decoder!TakeToken
  <2>2. next = Decoder!PtInit BY <1>1, <2>1, Zenon
  <2> QED BY <1>3, <2>1, <2>2 DEF Decoder!PtInit
<1>5. /\ Begins(Connection, Taken, Decoder!Start)
      /\ \E k \in DOMAIN Connection.packets :
            Connection.packets[k] = [first |-> f.begin, last |-> Taken]
    BY <1>3, <1>4 DEF FieldSent, next
<1> PICK n \in DOMAIN Connection.packets :
        Connection.packets[n] = [first |-> f.begin, last |-> Taken]
    BY <1>5
<1>6. conn > 0
    BY <1>3, ConnectionFacts
<1>7. /\ n = told + 1 /\ told + 1 \in 0..Len(Connection.packets)
      /\ \A k \in DOMAIN Connection.packets : k =< told + 1 <=> Connection.packets[k].last =< Taken
  <2>1. Connection.packets[n].last = Taken OBVIOUS
  <2>2. Done = Dropped BY <1>1, <1>2, StreamFacts DEF Done
  <2> PICK e : e = Taken
      OBVIOUS
  <2>3. e \in Nat /\ Dropped < e /\ e =< sent /\ \A i \in Dropped+1..e-1 : ~stream[i]
      BY <1>1, StreamFacts
  <2> QED BY <1>6, <2>1, <2>2, <2>3, ToldNext
<1>8. f.begin = Dropped + 1 - Len(heard)
  <2>1. f.begin \in Nat /\ Len(heard) = Dropped + 1 - f.begin BY <1>3 DEF Expects
  <2>2. Dropped \in Nat BY StreamFacts
  <2> QED BY <2>1, <2>2
<1> QED BY <1>1, <1>2, <1>5, <1>6, <1>7, <1>8

LEMMA ParseEvent ==
    ASSUME ReceiveInv, EventsInv, ParseInv, LawfulLives, Event
    PROVE  ParseInv'
<1>1. /\ UNCHANGED <<rbuf, rstart, rlen, p, handler, link, authed, stream, sent, process, life, conn>>
      /\ handler = "decode" /\ process = "running" /\ calling'
    BY EventFacts DEF vars, window
<1>2. /\ Dropped' = Dropped /\ Taken' = Taken /\ Connection' = Connection /\ End' = End
      /\ Past(life, conn)' = Past(life, conn)
    BY <1>1 DEF Dropped, Taken, Connection, End, Past
<1>3. ConnectionInv'
  <2>1. \A i \in p..End-1 : IsNul(i)' <=> IsNul(i) BY <1>1 DEF IsNul
  <2> QED BY <1>1, <1>2, <2>1 DEF ParseInv, ConnectionInv
<1>4. ToldInv'
  <2>1. Done' = Taken BY <1>1, <1>2, StreamFacts DEF Done
  <2> QED BY <1>1, <2>1, EventFacts, ToldStep
<1>5. PlaceInv'
  <2>1. Begins(Connection, Taken, Decoder!Start)' BY <1>2, EventFacts DEF Begins
  <2> QED BY <1>1, <2>1 DEF PlaceInv
<1> QED BY <1>1, <1>3, <1>4, <1>5 DEF ParseInv, ExitInv, ExitsOnUnknown

LEMMA ParseEventReturns ==
    ASSUME ReceiveInv, EventsInv, ParseInv, LawfulLives, EventReturns
    PROVE  ParseInv'
<1>1. /\ authed \/ link = "closing"
      /\ calling /\ ~calling' /\ cmd' = "" /\ pt' = Decoder!PtInit /\ val' = <<>>
      /\ UNCHANGED <<process, life, conn, heard, told>> /\ Decoded /\ handler = "decode"
    BY DEF EventReturns, Decoder!End, Decoder!PacketDone, Decoder!NoPacket, Decoded, events
<1>2. process = "running" /\ heard = <<>>
    BY <1>1 DEF ParseInv, ExitInv, EventsInv, ShownInv
<1>3. Dropped' = Taken /\ link' = link /\ link # "closed" /\ authed' = authed
    BY <1>1, DecodedFacts
<1>4. ToldInv'
  <2> PICK e : e = Taken
      OBVIOUS
  <2>1. Done = e /\ Done' = e BY <1>1, <1>3 DEF Done
  <2> QED BY <1>1, <2>1, ToldStep DEF ParseInv, ToldInv
<1>5. PlaceInv'
  <2>1. link = "open" => Begins(Connection, Taken, Decoder!Start)
    <3>1. link = "open" => authed /\ conn > 0
      <4>1. conn \in 0..Len(life.conns) /\ Len(life.conns) \in Nat /\ (conn = 0 => link = "closed")
          BY ConnectionFacts DEF ParseInv, ConnectionInv
      <4>2. link = "open" => conn > 0 BY <4>1
      <4> QED BY <1>1, <4>2, Zenon
    <3> QED BY <1>1, <1>2, <3>1 DEF ParseInv, PlaceInv
  <2>2. link = "open" => authed' = TRUE
    <3>1. authed \in BOOLEAN BY DEF ReceiveInv, BufferInv, TypeOK
    <3> QED BY <1>1, <1>3, <3>1
  <2> PICK c, e : c = Connection /\ e = Taken
      OBVIOUS
  <2>3. e \in Nat BY <1>1, StreamFacts
  <2>4. (link' = "open" => Begins(c, e, Decoder!Start) /\ authed' = TRUE)
        /\ Dropped' = e /\ heard' = <<>>
      BY <1>1, <1>2, <1>3, <2>1, <2>2
  <2> QED BY <1>1, <2>3, <2>4, PlaceBetween
<1> QED BY <1>1, <1>2, <1>4, <1>5, ConnectionDecoded DEF ParseInv, ExitInv, ExitsOnUnknown

(* The last token of the login, which is the last byte of the greeting and of *)
(* all that was received.                                                     *)
LEMMA ParseLoginEnds ==
    ASSUME ReceiveInv, EventsInv, ParseInv, LawfulLives, LoginEnds
    PROVE  ParseInv'
<1> PICK f : f = Connection.fields[Dropped + 1]
    OBVIOUS
<1>0. cmd' = "" /\ pt' = Decoder!PtInit /\ val' = <<>> /\ heard' = <<>>
    BY DEF LoginEnds, Decoder!LoginDone, Decoder!DecodeReset, Decoder!NoPacket
<1>1. /\ handler = "decode" /\ Decoder!Resumes /\ Decoder!Authenticates(Number)
      /\ calling' = calling /\ UNCHANGED <<process, told, life, conn, link, sent>>
      /\ handler' = "scan" /\ ~authed /\ authed' = TRUE /\ rlen' = 0
    BY DEF LoginEnds, LoginDecoded, DecodeReset, Decoder!LoginDone
<1>2. process = "running" /\ ~calling /\ ~calling'
    BY <1>1 DEF Decoder!Resumes, Decoder!Takes
<1>3. /\ conn \in DOMAIN life.conns /\ link = "open" /\ Expects(f) /\ f.at # Decoder!Start
      /\ FieldSent(Connection, f, Number, Taken)
      /\ Decoder!Following(f.sh, f.at) = Decoder!Start /\ Welcomes(f.sh)
    BY <1>1, FieldTaken
<1>4. /\ Begins(Connection, Taken, Decoder!Start) /\ Taken = Connection.greeting
      /\ ~Ends(Connection, Taken)
    BY <1>3 DEF FieldSent, Welcomes
<1>5. conn > 0 /\ Connection' = Connection /\ Past(life, conn)' = Past(life, conn)
  <2>1. conn > 0 BY <1>3, ConnectionFacts
  <2>2. life' = life /\ conn' = conn BY <1>1
  <2> QED BY <2>1, <2>2 DEF Connection, Past
<1>6. Taken = sent /\ Dropped' = sent /\ sent \in Nat /\ Dropped \in Nat /\ Dropped =< sent
  <2>1. sent =< Connection.greeting BY <1>1, <1>3, <1>5 DEF ParseInv, ConnectionInv
  <2>2. Taken \in Nat /\ Taken =< sent /\ sent \in Nat /\ Dropped \in Nat /\ Dropped =< sent
      BY <1>1, StreamFacts
  <2>3. Dropped' = sent
    <3>1. sent' = sent /\ rlen' = 0 BY <1>1
    <3> QED BY <2>2, <3>1 DEF Dropped
  <2> QED BY <1>4, <2>1, <2>2, <2>3
<1>7. ConnectionInv'
  <2>1. /\ conn \in 0..Len(life.conns) /\ Past(life, conn) \in Nat
        /\ sent \in Past(life, conn)..Connection.end /\ Past(life, conn) =< sent
      BY <1>5, <1>6 DEF ParseInv, ConnectionInv
  <2>2. conn' = conn /\ life' = life /\ sent' = sent /\ link' = "open"
      BY <1>1, <1>3
  <2> QED BY <1>1, <1>5, <1>6, <2>1, <2>2 DEF ConnectionInv
<1>8. ToldInv'
  <2> PICK e : e = Taken
      OBVIOUS
  <2>1. e \in {Taken} /\ Dropped' = e /\ ~Ends(Connection, e) BY <1>4, <1>6
  <2> QED BY <1>1, <1>2, <2>1, ToldDecoded
<1>9. PlaceInv'
  <2> PICK c, e : c = Connection /\ e = Taken
      OBVIOUS
  <2>1. e \in Nat /\ Dropped' = e /\ Begins(c, e, Decoder!Start) BY <1>4, <1>6
  <2> QED BY <1>0, <1>1, <1>2, <2>1, PlaceBetween
<1> QED BY <1>1, <1>2, <1>7, <1>8, <1>9 DEF ParseInv, ExitInv, ExitsOnUnknown

(* A packet nobody knows ends the process, after all others.                  *)
LEMMA ParseExit ==
    ASSUME ReceiveInv, EventsInv, ParseInv, LawfulLives, Exit
    PROVE  ParseInv'
<1> PICK f : f = Connection.fields[Dropped + 1]
    OBVIOUS
<1>1. /\ handler = "decode" /\ Decoder!Takes /\ authed /\ cmd = Decoder!UNKNOWN
      /\ process' = "exit" /\ UNCHANGED <<vars, life, conn, told, calling>>
    BY DEF Exit, Decoder!UnknownPacket, events
<1>2. /\ ~calling
      /\ UNCHANGED <<rbuf, rstart, rlen, p, handler, link, authed, stream, sent>>
      /\ Dropped' = Dropped /\ Taken' = Taken /\ Connection' = Connection /\ End' = End
      /\ Past(life, conn)' = Past(life, conn)
    BY <1>1 DEF Decoder!Takes, vars, window, Dropped, Taken, Connection, End, Past
<1>3. /\ conn \in DOMAIN life.conns /\ sent =< Connection.end /\ Expects(f)
      /\ \/ IdSent(Connection, f, Number, Taken)
         \/ FieldSent(Connection, f, Number, Taken)
         \/ UnknownSent(life, Connection, f, Taken)
    BY <1>1, TokenSent
<1>4. f.at # Decoder!Start /\ f.sh.cmd = Decoder!UNKNOWN
    BY <1>1, <1>3 DEF Expects, Decoder!KnowsPlace, Decoder!Receiver, Decoder!UNKNOWN
<1>5. /\ life.unknown /\ Taken = Connection.end
      /\ \A k \in DOMAIN Connection.packets : Connection.packets[k].last < Taken
    BY <1>3, <1>4 DEF IdSent, FieldSent, UnknownSent
<1>6. conn > 0
    BY <1>3, ConnectionFacts
<1>7. sent = Connection.end
  <2>1. Taken \in Nat /\ Taken =< sent /\ sent \in Nat BY <1>1, StreamFacts
  <2> QED BY <1>3, <1>5, <2>1
<1>8. told = Len(Connection.packets)
  <2>1. told \in 0..Len(Connection.packets) BY <1>6 DEF ParseInv, ToldInv
  <2>2. ASSUME told # Len(Connection.packets) PROVE FALSE
    <3>1. DOMAIN Connection.packets = 1..Len(Connection.packets) /\ Len(Connection.packets) \in Nat
      <4>1. LawfulConnection(life, Connection, Past(life, conn))
          BY <1>3, ConnectionFacts DEF Connection
      <4> QED BY <4>1, LenProperties DEF LawfulConnection
    <3> PICK k : k = told + 1
        OBVIOUS
    <3>2. k \in DOMAIN Connection.packets /\ ~(k =< told) BY <2>1, <2>2, <3>1
    <3>3. Connection.packets[k].last < Taken BY <1>5, <3>2
    <3> PICK e : e = Taken
        OBVIOUS
    <3>4. /\ e \in Nat /\ Dropped \in Nat /\ Dropped < e /\ e =< sent
          /\ \A i \in Dropped+1..e-1 : ~stream[i]
        BY <1>1, StreamFacts
    <3>5. /\ Connection.packets[k].last \in Nat
          /\ Connection.packets[k].last =< e <=>
                Connection.packets[k].last =< Dropped \/ Connection.packets[k].last = e
      <4>1. Dropped =< e BY <3>4
      <4> QED BY <1>6, <3>2, <3>4, <4>1, LastFacts
    <3>6. Connection.packets[k].last =< Dropped BY <3>3, <3>4, <3>5
    <3>7. Done = Dropped BY <1>1, <1>2, StreamFacts DEF Done
    <3> QED BY <1>6, <3>2, <3>6, <3>7 DEF ParseInv, ToldInv
  <2> QED BY <2>2
<1>9. ConnectionInv'
  <2>1. \A i \in p..End-1 : IsNul(i)' <=> IsNul(i) BY <1>2 DEF IsNul
  <2> QED BY <1>1, <1>2, <2>1 DEF ParseInv, ConnectionInv
<1>10. ToldInv'
    BY <1>1, <1>2 DEF ParseInv, ToldInv, Done
<1>11. PlaceInv'
    BY <1>1 DEF PlaceInv
<1>12. ExitInv'
    BY <1>1, <1>2, <1>5, <1>6, <1>7, <1>8 DEF ExitInv, ExitsOnUnknown, Received
<1> QED BY <1>9, <1>10, <1>11, <1>12 DEF ParseInv

(* A new connection begins with a greeting.                                   *)
LEMMA ParseDial ==
    ASSUME ReceiveInv, ParseInv, LawfulLives, Dial
    PROVE  ParseInv'
<1> PICK c, n : c = life.conns[conn + 1] /\ n = conn + 1
    OBVIOUS
<1>0. cmd' = "" /\ pt' = Decoder!PtInit /\ val' = <<>> /\ heard' = <<>>
    BY DEF Dial, Decoder!Reconnect, Decoder!DecodeReset, Decoder!NoPacket
<1>1. /\ conn < Len(life.conns) /\ conn' = n /\ life' = life /\ link = "closed" /\ link' = "open"
      /\ authed' = FALSE /\ rlen' = 0 /\ sent' = sent /\ handler' = handler
      /\ Decoder!Takes /\ UNCHANGED <<calling, process>> /\ told' = 0
    BY DEF Dial, Connect, ConnectStart, DecodeReset, Decoder!Reconnect
<1>2. process = "running" /\ ~calling /\ handler = "idle"
    BY <1>1, StreamFacts DEF Decoder!Takes
<1>3. n \in DOMAIN life.conns /\ n > 0 /\ Connection' = c /\ c = life.conns[n] /\ n - 1 = conn
      /\ conn \in Nat
  <2>1. conn \in 0..Len(life.conns) /\ Len(life.conns) \in Nat /\ DOMAIN life.conns = 1..Len(life.conns)
      BY ConnectionFacts DEF ParseInv, ConnectionInv
  <2>2. conn < Len(life.conns) /\ conn' = n /\ life' = life BY <1>1
  <2>3. n \in DOMAIN life.conns /\ n > 0 /\ n - 1 = conn /\ conn \in Nat BY <2>1, <2>2
  <2> QED BY <2>2, <2>3 DEF Connection
<1>4. Past(life, n) = sent /\ Past(life, conn)' = sent
  <2>1. conn = 0 => sent = 0 BY DEF ParseInv, ConnectionInv
  <2>2. conn > 0 => sent = life.conns[conn].end
      BY <1>1 DEF ParseInv, ConnectionInv, Connection
  <2>3. Past(life, n) = sent BY <1>3, <2>1, <2>2 DEF Past
  <2> QED BY <1>1, <2>3 DEF Past
<1>5. LawfulConnection(life, c, sent) /\ sent \in Nat /\ Dropped' = sent
  <2>1. Dropped' = sent
    <3>1. sent' = sent /\ rlen' = 0 /\ sent \in Nat BY <1>1, StreamFacts
    <3> QED BY <3>1 DEF Dropped
  <2> QED BY <1>3, <1>4, <2>1, StreamFacts, ConnectionFacts
<1>6. ConnectionInv'
  <2>1. sent \in sent..c.end /\ sent =< c.greeting
      BY <1>5, StreamFacts DEF LawfulConnection
  <2>2. n \in 0..Len(life.conns) BY <1>3, ConnectionFacts
  <2>3. conn' = n /\ life' = life /\ link' = "open" /\ sent' = sent BY <1>1
  <2>4. n # 0 BY <1>3
  <2>5. (conn = 0)' => FALSE BY <2>3, <2>4
  <2> QED BY <1>3, <1>4, <1>5, <2>1, <2>2, <2>3, <2>5 DEF ConnectionInv
<1>7. ToldInv'
  <2>1. Done' = sent BY <1>1, <1>2, <1>5 DEF Done
  <2>2. 0 \in 0..Len(c.packets) /\ DOMAIN c.packets = 1..Len(c.packets)
      BY <1>5, LenProperties DEF LawfulConnection
  <2>3. ASSUME NEW k \in DOMAIN c.packets PROVE k =< 0 <=> c.packets[k].last =< sent
    <3>1. c.packets[k].last \in Nat
      <4>1. c.packets[k] \in [first : Nat, last : Nat]
          BY <1>5, <2>2, ElementOfSeq DEF LawfulConnection
      <4> QED BY <4>1
    <3>2. sent < c.packets[k].last BY <1>5 DEF LawfulConnection
    <3>3. ~(k =< 0)
      <4>1. Len(c.packets) \in Nat BY <1>5, LenProperties DEF LawfulConnection
      <4> QED BY <2>2, <4>1
    <3> QED BY <1>5, <3>1, <3>2, <3>3
  <2> QED BY <1>1, <1>3, <2>1, <2>2, <2>3 DEF ToldInv
<1>8. PlaceInv'
  <2> SUFFICES ASSUME sent < c.end
               PROVE  sent + 1 \in DOMAIN c.fields /\ Expects(c.fields[sent + 1])'
    <3>1. Expects(c.fields[sent + 1])' <=> Expects(Connection.fields[Dropped + 1])'
        BY <1>1, <1>3, <1>5 DEF Expects, Decoder!KnowsPlace
    <3> QED BY <1>1, <1>2, <1>3, <1>5, <3>1 DEF PlaceInv
  <2> PICK f, e : f = c.fields[sent + 1] /\ e = sent
      OBVIOUS
  <2>1. <<1, 0>> # Decoder!Start BY DEF Decoder!Start
  <2>2. /\ sent + 1 \in DOMAIN c.fields
        /\ f.sh \in Shapes /\ Decoder!Yields(f.sh) /\ f.sh.cmd = Decoder!LOGIN
        /\ f.at = <<1, 0>> /\ f.begin = e + 1
      BY <1>5, <2>1 DEF LawfulConnection, Begins
  <2>3. e \in Nat /\ e + 1 \in Nat /\ e + 1 - (e + 1) = 0 BY <1>5, ByteBehind
  <2>4. Len(heard') = e + 1 - f.begin /\ f.begin \in Nat
    <3>1. Len(<<>>) = 0 OBVIOUS
    <3> QED BY <1>0, <2>2, <2>3, <3>1, Zenon
  <2>5. Decoder!KnowsPlace(f.sh, <<1, 0>>)'
    <3>1. Decoder!Receiver' = f.sh.cmd BY <1>1, <2>2 DEF Decoder!Receiver
    <3> QED BY <1>0, <2>2, <3>1, PacketsAssumption, ShapesFit, Decoder!BeginSync
  <2>6. Decoder!KnowsPlace(f.sh, f.at)'
      BY <2>2, <2>5 DEF Decoder!KnowsPlace
  <2>7. Expects(f)'
      BY <1>1, <1>5, <2>1, <2>2, <2>4, <2>6 DEF Expects
  <2> QED BY <1>1, <2>2, <2>7 DEF Expects, Decoder!KnowsPlace
<1> QED BY <1>1, <1>2, <1>6, <1>7, <1>8 DEF ParseInv, ExitInv, ExitsOnUnknown

LEMMA ParseInit == LawfulLives /\ ReceiveInit => ParseInv
<1> SUFFICES ASSUME LawfulLives, ReceiveInit PROVE ParseInv
    OBVIOUS
<1>1. conn = 0 /\ link = "closed" /\ sent = 0 /\ process = "running"
    BY DEF ReceiveInit, Init, Decoder!ClientInit
<1>2. conn \in 0..Len(life.conns)
    BY <1>1 DEF ReceiveInit, LawfulLives
<1> QED BY <1>1, <1>2
        DEF ParseInv, ConnectionInv, ToldInv, PlaceInv, ExitInv, ExitsOnUnknown

LEMMA ParseStep ==
    ASSUME LawfulLives, ReceiveInv, ReceiveInv', EventsInv, ParseInv, [ReceiveNext]_all
    PROVE  ParseInv'
<1>1. CASE UNCHANGED all
  <2>1. /\ UNCHANGED <<rbuf, rstart, rlen, p, handler, link, authed, stream, sent, life, conn>>
        /\ UNCHANGED <<cmd, pt, val, calling, process, heard, told>>
      BY <1>1 DEF all, vars, window, decoder, events
  <2>2. /\ Dropped' = Dropped /\ Taken' = Taken /\ Connection' = Connection /\ End' = End
        /\ Past(life, conn)' = Past(life, conn)
      BY <2>1 DEF Dropped, Taken, Connection, End, Past
  <2>3. ConnectionInv'
    <3>1. \A i \in p..End-1 : IsNul(i)' <=> IsNul(i) BY <2>1 DEF IsNul
    <3> QED BY <2>1, <2>2, <3>1 DEF ParseInv, ConnectionInv
  <2>4. ToldInv'
      BY <2>1, <2>2 DEF ParseInv, ToldInv, Done
  <2>5. PlaceInv'
      BY <2>1, <2>2, PlaceFrame DEF ParseInv
  <2>6. ExitInv'
      BY <2>1, <2>2 DEF ParseInv, ExitInv, ExitsOnUnknown, Received
  <2> QED BY <2>3, <2>4, <2>5, <2>6 DEF ParseInv
<1> QED BY <1>1, ParseSurroundings, ParseNewPacket, ParseTakeToken, ParseEvent, ParseEventReturns,
           ParseLoginEnds, ParseExit, ParseDial DEF ReceiveNext, Decode

LEMMA ParseInvariant ==
    ASSUME LawfulLives PROVE ReceiveSpec => []ReceiveInv /\ []EventsInv /\ []ParseInv
<1>1. ReceiveInit => EventsInv /\ ParseInv
    BY EventsInit, ParseInit
<1>2. ASSUME ReceiveInv, ReceiveInv', EventsInv, ParseInv, [ReceiveNext]_all
      PROVE  EventsInv' /\ ParseInv'
    BY <1>2, EventsStep, ParseStep
<1> QED BY <1>1, <1>2, ReceiveInvariant, PTL DEF ReceiveSpec

(* From every life that consists of greetings and packets of the tables, cut  *)
(* into reads in any way and cut off anywhere: the field a decoder waits for  *)
(* is the one that begins with the first byte it has not seen.                *)
THEOREM BytesInStep == LawfulLives => (ReceiveSpec => []InStepWithBytes)
<1> SUFFICES ASSUME LawfulLives PROVE ReceiveSpec => []InStepWithBytes
    OBVIOUS
<1>1. ParseInv => InStepWithBytes
  <2> SUFFICES ASSUME ParseInv, link = "open", process = "running", ~calling,
                      Dropped < Connection.end, NEW f, f = Connection.fields[Dropped + 1]
               PROVE  /\ Len(heard) = Dropped + 1 - f.begin
                      /\ IF f.at = Decoder!Start THEN authed /\ cmd = "" /\ pt = Decoder!PtInit
                         ELSE Decoder!Receiver = f.sh.cmd /\ Decoder!At = f.at
      BY DEF InStepWithBytes
  <2>1. conn > 0
    <3>1. conn \in 0..Len(life.conns) /\ conn # 0 BY DEF ParseInv, ConnectionInv
    <3> QED BY <3>1
  <2>2. Expects(f) BY <2>1 DEF ParseInv, PlaceInv
  <2> QED BY <2>2 DEF Expects, Decoder!KnowsPlace
<1> QED BY <1>1, ParseInvariant, PTL

(* ... the process only exits for an unknown packet that TWS did send, after  *)
(* the events of all others (tws_decode.c:1551).                              *)
THEOREM ExitsForUnknown == LawfulLives => (ReceiveSpec => []ExitsOnUnknown)
<1> SUFFICES ASSUME LawfulLives PROVE ReceiveSpec => []ExitsOnUnknown
    OBVIOUS
<1>1. ParseInv => ExitsOnUnknown
    BY DEF ParseInv, ExitInv
<1> QED BY <1>1, ParseInvariant, PTL

(* ... and each packet that was received as a whole becomes one event, of its *)
(* own bytes, in order, before the next connection begins.  That the events   *)
(* do come is the part of ImplementsFairEvents that is left to TLC.           *)
THEOREM EventsImplemented == LawfulLives => (ReceiveSpec => Events!Spec)
<1> SUFFICES ASSUME LawfulLives PROVE ReceiveSpec => Events!Spec
    OBVIOUS
<1>1. ReceiveInit => Events!Init
    BY DEF ReceiveInit, Init, Events!Init
<1>2. ASSUME ReceiveInv, EventsInv, ParseInv, [ReceiveNext]_all
      PROVE  [Events!Next]_Events!vars
  <2> USE DEF Events!vars
  <2>1. CASE Event
    <3>1. /\ handler = "decode" /\ conn > 0
          /\ UNCHANGED <<life, conn, sent>>
          /\ shown' = heard \o token /\ told' = told + 1
          /\ Connection.packets[told + 1] = [first |-> Dropped + 1 - Len(heard), last |-> Taken]
          /\ told + 1 \in DOMAIN Connection.packets
          /\ told + 1 \in 0..Len(Connection.packets)
        BY <1>2, <2>1, EventFacts DEF vars
    <3>2. /\ Len(shown') = Len(heard) + (Taken - Dropped) /\ shown' \in Seq(Nat)
          /\ Len(heard) \in Nat
          /\ \A i \in 1..Len(shown') : shown'[i] = Dropped - Len(heard) + i
      <4>1. link # "closed" BY <1>2, <3>1, StreamFacts
      <4>2. /\ Len(shown') = Len(heard) + (p - rstart) /\ shown' \in Seq(Nat)
            /\ Len(heard) \in Nat /\ rstart \in Nat /\ p \in Nat /\ Dropped \in Nat
            /\ Taken = Dropped + (p - rstart)
            /\ \A i \in 1..Len(shown') : shown'[i] = Dropped - Len(heard) + i
          BY <1>2, <3>1, <4>1, HeardMore
      <4>3. Taken - Dropped = p - rstart BY <4>2
      <4> QED BY <4>2, <4>3
    <3>3. Dropped \in Nat /\ Taken \in Nat /\ Taken =< sent
        BY <1>2, <3>1, StreamFacts
    <3>4. told < Len(Connection.packets) /\ Connection.packets[told + 1].last =< sent
      <4>1. told \in 0..Len(Connection.packets) BY <1>2, <3>1 DEF ParseInv, ToldInv
      <4>2. told + 1 =< Len(Connection.packets) BY <3>1
      <4>3. Len(Connection.packets) \in Int
        <5>1. conn \in DOMAIN life.conns BY <1>2, <3>1, ConnectionFacts DEF ParseInv, ConnectionInv
        <5>2. LawfulConnection(life, Connection, Past(life, conn))
            BY <1>2, <5>1, ConnectionFacts DEF Connection
        <5> QED BY <5>2, LenProperties DEF LawfulConnection
      <4> QED BY <3>1, <3>3, <4>1, <4>2, <4>3
    <3>5. shown' = [i \in 1 .. Taken + 1 - (Dropped + 1 - Len(heard)) |->
                       (Dropped + 1 - Len(heard)) + i - 1]
      <4> DEFINE first == Dropped + 1 - Len(heard)
                 other == [i \in 1 .. Taken + 1 - first |-> first + i - 1]
      <4>1. Taken + 1 - first = Len(shown') BY <3>2, <3>3
      <4>2. DOMAIN shown' = 1..Len(shown') BY <3>2, LenProperties
      <4>3. ASSUME NEW i \in 1..Len(shown') PROVE shown'[i] = first + i - 1
        <5>1. shown'[i] = Dropped - Len(heard) + i BY <3>2
        <5>2. i \in Int BY <3>2, LenProperties
        <5> QED BY <3>2, <3>3, <5>1, <5>2
      <4>4. DOMAIN other = DOMAIN shown' BY <4>1, <4>2
      <4>5. \A i \in DOMAIN other : other[i] = shown'[i] BY <4>1, <4>2, <4>3
      <4>6. shown' = [i \in DOMAIN shown' |-> shown'[i]] BY <3>2, <4>2
      <4> HIDE DEF first
      <4>7. shown' = [i \in 1..Len(shown') |-> first + i - 1] BY <4>2, <4>3, <4>6
      <4>8. shown' = other BY <4>1, <4>7
      <4> QED BY <4>8 DEF first
    <3>6. Events!Tell
      <4>1. Events!Due BY <3>1, <3>4 DEF Events!Due, Events!Connection, Connection
      <4>2. Events!Connection.packets[told + 1] =
                [first |-> Dropped + 1 - Len(heard), last |-> Taken]
          BY <3>1 DEF Events!Connection, Connection
      <4> QED BY <3>1, <3>5, <4>1, <4>2 DEF Events!Tell
    <3> QED BY <3>6 DEF Events!Next
  <2>2. CASE Dial
    <3>1. /\ conn < Len(life.conns) /\ conn' = conn + 1 /\ told' = 0 /\ link = "closed"
          /\ UNCHANGED <<life, sent, shown>>
        BY <2>2 DEF Dial, Connect
    <3>2. ASSUME conn > 0, told < Len(Connection.packets) PROVE ~(Connection.packets[told + 1].last =< sent)
      <4>1. /\ told \in 0..Len(Connection.packets)
            /\ \A k \in DOMAIN Connection.packets : k =< told <=> Connection.packets[k].last =< sent
          BY <1>2, <3>1, <3>2 DEF ParseInv, ToldInv, Done
      <4>2. DOMAIN Connection.packets = 1..Len(Connection.packets) /\ Len(Connection.packets) \in Nat
        <5>1. conn \in DOMAIN life.conns BY <1>2, <3>2, ConnectionFacts DEF ParseInv, ConnectionInv
        <5>2. LawfulConnection(life, Connection, Past(life, conn))
            BY <1>2, <5>1, ConnectionFacts DEF Connection
        <5> QED BY <5>2, LenProperties DEF LawfulConnection
      <4>3. told + 1 \in DOMAIN Connection.packets /\ ~(told + 1 =< told)
          BY <3>2, <4>1, <4>2
      <4> QED BY <4>1, <4>3
    <3>3. ~Events!Due BY <3>2 DEF Events!Due, Events!Connection, Connection
    <3> QED BY <3>1, <3>3 DEF Events!Reconnect, Events!Next
  <2>3. CASE Read
    <3>1. conn > 0 /\ UNCHANGED <<life, conn, told, shown>> /\ sent' =< Connection.end
        BY <2>3 DEF Read, events
    <3>2. PICK n \in Nat \ {0} : sent' = sent + n
      <4>1. PICK n \in 1..Room : sent' = sent + n BY <2>3 DEF Read, OnRead
      <4>2. Room \in Int
          BY <1>2, SizeAssumption DEF Room, Base, ReceiveInv, BufferInv, TypeOK
      <4> QED BY <4>1, <4>2
    <3>3. Connection.end \in Int
      <4>1. conn \in DOMAIN life.conns BY <1>2, <3>1, ConnectionFacts DEF ParseInv, ConnectionInv
      <4>2. LawfulConnection(life, Connection, Past(life, conn)) /\ Past(life, conn) \in Nat
          BY <1>2, <3>1, <4>1, ConnectionFacts DEF Connection, ParseInv, ConnectionInv
      <4> QED BY <1>2, <4>2, StreamFacts DEF LawfulConnection
    <3>4. sent' \in sent+1..Connection.end
        BY <1>2, <3>1, <3>2, <3>3, StreamFacts
    <3> QED BY <3>1, <3>4 DEF Events!Receive, Events!Next, Events!Connection, Connection
  <2>4. CASE UNCHANGED all \/ Lose \/ CloseInEvent \/ Closed \/ OutOfRoom \/ Search
             \/ NewPacket \/ TakeToken \/ EventReturns \/ LoginEnds \/ Exit
    <3>1. UNCHANGED <<life, conn, sent, told, shown>>
        BY <2>4 DEF all, Lose, CloseInEvent, Closed, OutOfRoom, Search, NewPacket, TakeToken,
             EventReturns, LoginEnds, Exit, Close, OnCloseCb, NoBufs, Scan, TokenFound, NoToken,
             Decoded, LoginDecoded, Hears, events, vars
    <3> QED BY <3>1
  <2> QED BY <1>2, <2>1, <2>2, <2>3, <2>4 DEF ReceiveNext, Decode
<1> QED BY <1>1, <1>2, ParseInvariant, PTL DEF ReceiveSpec, Events!Spec
================================================================================
