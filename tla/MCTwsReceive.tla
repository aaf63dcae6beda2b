----------------------------- MODULE MCTwsReceive ------------------------------
(* Small instances of TwsReceive for TLC: two connections, the first of which *)
(* is lost after any byte.                                                    *)
EXTENDS TwsReceive, SequencesExt, TLC

Tables == INSTANCE TwsPackets

mcPackets ==
    [LOGIN |-> Tables!Login, ERR_MSG |-> Tables!ErrMsg, ACCT_VALUE |-> Tables!AcctValue,
     HISTORICAL_DATA |-> Tables!HistoricalData, POSITION_END |-> Tables!PositionEnd]

\* TwsDecodeProofs shows that a client with such tables only shows its own values, and
\* frees its memory.
All == INSTANCE TwsDecode WITH Packets <- Tables!AllPackets, Shapes <- {},
                               sending <- <<>>, outgoing <- <<>>

ASSUME TablesAssumption == All!PacketsOK /\ All!Initialises /\ All!Frees

\* The packets, without what is not in them.
Packet(cmd_, version, count, filled) ==
    [cmd |-> cmd_, version |-> version, count |-> count, flag |-> 0, odd |-> Decoder!NONE,
     filled |-> filled]

Greeting(version) == Packet("LOGIN", version, 0, 1)
ErrMsg(version) == Packet("ERR_MSG", version, 0, 1)
AcctValue == Packet("ACCT_VALUE", 1, 0, 1)
Bars(n) == Packet("HISTORICAL_DATA", 1, n, 0)
PositionEnd == Packet("POSITION_END", 1, 0, 1)
Unknown == Packet("UNKNOWN", 0, 0, 1)

Id(cmd_) == IF cmd_ = "UNKNOWN" THEN 99 ELSE Decoder!PacketIds[cmd_]

\* The tokens of a packet: their places, and the numbers they stand for.
FieldsOf(sh) ==
    LET number(s) ==
            IF s.kind \in {"version", "count"} THEN Decoder!TokenOf(sh, s) ELSE 90 * sh.filled
        from[a \in Decoder!Places(sh) \cup {Decoder!Start}] ==
            IF a = Decoder!Start THEN <<>>
            ELSE <<[at |-> a, n |-> number(Decoder!Layout(sh.cmd)[a[1]])]>> \o from[Decoder!Following(sh, a)]
        id == IF sh.cmd = "LOGIN" THEN <<>> ELSE <<[at |-> Decoder!Start, n |-> Id(sh.cmd)]>>
    IN  id \o from[<<1, 0>>]

\* A token in bytes; pads says how many more than one the first tokens of a packet take.
Token(n, pad) == IF n = 0 THEN <<0>> ELSE <<n>> \o [i \in 1..pad |-> 90] \o <<0>>

\* The connection c, and one more token, of a packet that began with the byte begin.
WithToken(c, sh, begin, field, pad) ==
    LET bytes == Token(field.n, pad)
    IN  [c EXCEPT !.bytes = @ \o bytes, !.end = @ + Len(bytes),
                  !.fields = @ @@ (c.end + 1 :> [sh |-> sh, at |-> field.at, begin |-> begin])]

WithFields(c, sh, fields, pads) ==
    FoldLeft(LAMBDA d, i : WithToken(d, sh, c.end + 1, fields[i],
                                     IF i \in DOMAIN pads THEN pads[i] ELSE 0),
             c, [i \in DOMAIN fields |-> i])

\* It began with the byte begin, and is all of it in c.
Complete(c, sh, begin) ==
    [c EXCEPT !.greeting = IF sh.cmd = "LOGIN" THEN c.end ELSE @,
              !.packets = IF sh = Unknown \/ Welcomes(sh) THEN @
                          ELSE Append(@, [first |-> begin, last |-> c.end])]

WithPacket(c, sh, pads) == Complete(WithFields(c, sh, FieldsOf(sh), pads), sh, c.end + 1)

\* One connection, behind the byte past.
ConnectionOf(version, packets, pads, past) ==
    FoldLeft(LAMBDA c, sh : WithPacket(c, sh, pads),
             [bytes |-> <<>>, greeting |-> 0, end |-> past, packets |-> <<>>, fields |-> <<>>],
             <<Greeting(version)>> \o packets)

Part(c, end) == [greeting |-> c.greeting, end |-> end, packets |-> c.packets, fields |-> c.fields]

\* Two connections; n bytes of the first one arrive.
Life(one, n, two, unknown) ==
    [bytes |-> SubSeq(one.bytes, 1, n) \o two.bytes,
     conns |-> <<Part(one, n), Part(two, two.end)>>, unknown |-> unknown]

\* Logins that fail, with an old server and a very old one, and packets of which two
\* follow one another.
Firsts ==
    {<<10, <<>>>>, <<69, <<>>>>, <<70, <<ErrMsg(1), PositionEnd>>>>,
     <<70, <<ErrMsg(2), PositionEnd>>>>, <<76, <<Bars(1)>>>>, <<76, <<Bars(0), PositionEnd>>>>}
Seconds == {<<AcctValue>>, <<PositionEnd, Unknown>>}

\* Short tokens; some of the size of the threshold; one that fills the buffer.
Pads == {<<0>>, <<1, 2>>, <<0, 4>>}

\* All lives that begin with the connection one.
LivesFrom(one) ==
    {Life(one, n, ConnectionOf(76, packets, <<>>, n), Unknown \in Range(packets)) :
     n \in 0..Len(one.bytes), packets \in Seconds}

TwoConnections == UNION {LivesFrom(ConnectionOf(f[1], f[2], pads, 0)) : f \in Firsts, pads \in Pads}

\* TwsReceiveProofs shows for such lives that all packets become events.
ASSUME LivesAreLawful == LawfulLives

LifeStreams == {Nuls(l) : l \in TwoConnections}

\* TLC keeps the value of a definition that it meets by name.
mcLives == TwoConnections
mcStreams == LifeStreams
================================================================================
