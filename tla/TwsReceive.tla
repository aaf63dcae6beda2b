------------------------------ MODULE TwsReceive -------------------------------
(* The receiving side of a TWS client as a whole: the read buffer, the        *)
(* decoder it hands its tokens to, and the event callbacks, over connections  *)
(* that are lost anywhere.  The decoder is TwsDecode; instead of the tokens   *)
(* of a model TWS it is given what on_read_cb found in rbuf.                  *)
EXTENDS TwsReadBuffer

CONSTANTS
    Packets,   \* see TwsDecode
    Lives      \* see TwsEvents; each also says whether TWS sends a packet nobody knows, and
               \* what of a packet begins with a byte of a connection: see LawfulLives

Nuls(l) == [i \in DOMAIN l.bytes |-> l.bytes[i] = 0]

(* The client receives all that a life says, so that it can be cut anywhere;  *)
(* an unknown packet, which ends the process, comes last.                     *)
ASSUME LivesAssumption ==
    \A l \in Lives : l.bytes \in Seq(Nat) /\ Nuls(l) \in Streams

VARIABLES
    life, conn,
    cmd, pt, val, mem, lost, calling, process,   \* the decoder's
    heard,     \* the bytes of the packet so far, as positions
    told, shown

decoder == <<cmd, pt, val, mem, lost, calling, process>>
events == <<heard, told, shown>>
all == <<vars, life, conn, decoder, events>>

\* The packets TWS may send, as in TwsDecode.
Shapes ==
    [cmd : DOMAIN Packets \cup {"UNKNOWN"}, version : Nat, count : Nat,
     flag : {0, 1}, odd : STRING \X STRING, filled : {0, 1}]

\* The module of its proofs extends TwsDecode.
Decoder == INSTANCE TwsDecodeProofs WITH Shapes <- Shapes, sending <- <<>>, outgoing <- <<>>

ASSUME PacketsAssumption == Decoder!PacketsOK

Connection == life.conns[conn]

ReceiveInit ==
    /\ life \in Lives /\ stream = Nuls(life)
    /\ Init /\ Decoder!ClientInit
    /\ conn = 0 /\ heard = <<>> /\ told = 0 /\ shown = <<>>

--------------------------------------------------------------------------------
(* The connection                                                             *)

\* _client_connect resets the buffer and the decoder.
Dial ==
    /\ conn < Len(life.conns) /\ conn' = conn + 1
    /\ Connect /\ Decoder!Reconnect
    /\ heard' = <<>> /\ told' = 0
    /\ UNCHANGED <<life, shown>>

Received == conn > 0 /\ sent = Connection.end

\* The connection is lost, or closed, when its bytes have been read.
Lose ==
    /\ Received /\ handler = "idle" /\ Close
    /\ UNCHANGED <<life, conn, decoder, events>>

\* The user closes from the event callback, with no token left in the window; a failed
\* login does so itself when the callback returns.
CloseInEvent ==
    /\ Received /\ calling /\ Close
    /\ \A i \in p..End-1 : ~IsNul(i)
    /\ UNCHANGED <<life, conn, decoder, events>>

Closed == OnCloseCb /\ UNCHANGED <<life, conn, decoder, events>>

--------------------------------------------------------------------------------
(* Reading                                                                    *)

\* TWS waits with its packets until the greeting has been answered.
Read ==
    /\ conn > 0 /\ OnRead
    /\ sent' <= Connection.end /\ (~authed => sent' <= Connection.greeting)
    /\ UNCHANGED <<life, conn, decoder, events>>

OutOfRoom == Received /\ NoBufs /\ UNCHANGED <<life, conn, decoder, events>>

Search ==
    /\ process = "running" /\ Scan
    /\ UNCHANGED <<life, conn, decoder, events>>

--------------------------------------------------------------------------------
(* Decoding                                                                   *)

\* atoi, or the value that a condition makes of a token: its first byte here.
Number == IF Len(token) = 1 THEN 0 ELSE life.bytes[token[1]]

\* The switch of decode_response_package.
Command(n) ==
    LET known == {c \in DOMAIN Packets \cap DOMAIN Decoder!PacketIds : Decoder!PacketIds[c] = n}
    IN  IF n = 0 THEN ""
        ELSE IF known = {} THEN Decoder!UNKNOWN ELSE CHOOSE c \in known : TRUE

Hears == heard' = heard \o token /\ UNCHANGED <<told, shown>>

NewPacket ==
    /\ handler = "decode" /\ Decoder!PacketId(Command(Number))
    /\ Decoded /\ Hears
    /\ UNCHANGED <<life, conn>>

TakeToken ==
    /\ handler = "decode" /\ Decoder!TakeToken(Number) /\ ~calling'
    /\ Decoded /\ Hears
    /\ UNCHANGED <<life, conn>>

\* The last token of a packet: the callback runs before on_read_cb goes on.
Event ==
    /\ handler = "decode" /\ Decoder!TakeToken(Number) /\ calling'
    /\ shown' = heard \o token /\ told' = told + 1 /\ heard' = <<>>
    /\ UNCHANGED <<vars, life, conn>>

EventReturns ==
    /\ authed \/ link = "closing"
    /\ Decoder!End /\ Decoded
    /\ UNCHANGED <<life, conn, events>>

LoginEnds ==
    /\ handler = "decode" /\ Decoder!LoginDone(Number) /\ LoginDecoded
    /\ heard' = <<>>
    /\ UNCHANGED <<life, conn, told, shown>>

Exit ==
    /\ handler = "decode" /\ Decoder!UnknownPacket
    /\ UNCHANGED <<vars, life, conn, events>>

Decode == NewPacket \/ TakeToken \/ Event \/ EventReturns \/ LoginEnds

ReceiveNext ==
    \/ Dial \/ Lose \/ CloseInEvent \/ Closed
    \/ Read \/ OutOfRoom \/ Search
    \/ Decode \/ Exit

ReceiveSpec == ReceiveInit /\ [][ReceiveNext]_all

\* on_read_cb runs to its end, and callbacks return.
FairReceiveSpec == ReceiveSpec /\ WF_all(Search) /\ WF_all(Decode)

--------------------------------------------------------------------------------
(* What TWS sends.  With the first byte of each token of a connection begins  *)
(* a field: the packet it is of, its place there (Start is the packet's id),  *)
(* and the byte with which the packet began.                                  *)

Ends(c, e) == \E k \in DOMAIN c.packets : c.packets[k].last = e

\* TWS goes on behind the byte e: in the packet of the field f, or with another packet.
GoesOn(c, e, f, next) ==
    e < c.end =>
        e + 1 \in DOMAIN c.fields /\ c.fields[e + 1] = [sh |-> f.sh, at |-> next, begin |-> f.begin]

\* A login begins with its first step, another packet with its id.
Begins(c, e, place) ==
    e < c.end =>
        /\ e + 1 \in DOMAIN c.fields
        /\ LET f == c.fields[e + 1]
           IN  /\ f.sh \in Shapes /\ Decoder!Yields(f.sh) /\ (f.sh.cmd = Decoder!LOGIN <=> place # Decoder!Start)
               /\ f.at = place /\ f.begin = e + 1

\* The client only needs to understand what conditions test.
Means(sh, s, n) ==
    \/ s.kind \in {"version", "count"}
    \/ s.name # Decoder!NONE /\ s.name \in Decoder!Tested(sh.cmd)
    => n = Decoder!TokenOf(sh, s)

\* The server is new enough.
Welcomes(sh) == sh.cmd = Decoder!LOGIN /\ sh.version >= Decoder!MIN_REQ_SERVER_VERSION

\* A token with the number n, that ends with the byte e, is the field f: an id,
IdSent(c, f, n, e) ==
    /\ f.at = Decoder!Start /\ Command(n) = f.sh.cmd
    /\ ~Ends(c, e) /\ GoesOn(c, e, f, <<1, 0>>)

\* ... a step of a packet, maybe the last,
FieldSent(c, f, n, e) ==
    LET next == Decoder!Following(f.sh, f.at)
    IN  /\ f.at # Decoder!Start /\ f.sh.cmd # Decoder!UNKNOWN
        /\ Means(f.sh, Decoder!Layout(f.sh.cmd)[f.at[1]], n)
        /\ next # Decoder!Start => ~Ends(c, e) /\ GoesOn(c, e, f, next)
        /\ next = Decoder!Start =>
              /\ Begins(c, e, Decoder!Start)
              /\ f.sh.cmd = Decoder!LOGIN => e = c.greeting
              /\ IF Welcomes(f.sh) THEN ~Ends(c, e)
                 ELSE \E k \in DOMAIN c.packets : c.packets[k] = [first |-> f.begin, last |-> e]

\* ... or of a packet the client does not know, with which the life ends.
UnknownSent(l, c, f, e) ==
    /\ f.at # Decoder!Start /\ f.sh.cmd = Decoder!UNKNOWN
    /\ l.unknown /\ e = c.end /\ \A k \in DOMAIN c.packets : c.packets[k].last < e

\* Each connection begins with the greeting, after the byte past.
LawfulConnection(l, c, past) ==
    /\ c.end \in past..Len(l.bytes) /\ c.greeting \in Nat /\ past =< c.greeting
    /\ c.packets \in Seq([first : Nat, last : Nat])
    /\ \A k \in DOMAIN c.packets :
          LET last == c.packets[k].last
          IN  /\ past < last /\ (last =< c.end => l.bytes[last] = 0)
              /\ \A i \in 1..k-1 : c.packets[i].last < last
    /\ Begins(c, past, <<1, 0>>)
    /\ \A s \in DOMAIN c.fields : \A e \in s..c.end :
          l.bytes[e] = 0 /\ (\A i \in s..e-1 : l.bytes[i] # 0) =>
              LET f == c.fields[s]
                  n == l.bytes[s]
              IN  IdSent(c, f, n, e) \/ FieldSent(c, f, n, e) \/ UnknownSent(l, c, f, e)

Past(l, i) == IF i = 1 THEN 0 ELSE l.conns[i - 1].end

(* All connections are greetings and packets of the tables.                   *)
LawfulLives ==
    /\ Packets[Decoder!LOGIN].steps[1].name = Decoder!VERSION
    /\ \A l \in Lives :
          /\ Len(l.conns) \in Nat /\ DOMAIN l.conns = 1..Len(l.conns)
          /\ \A i \in DOMAIN l.conns : LawfulConnection(l, l.conns[i], Past(l, i))

--------------------------------------------------------------------------------
(* Properties                                                                 *)

Events == INSTANCE TwsEvents

(* Each packet that was received as a whole becomes one event, made of its    *)
(* own bytes, in order, and before its connection is given up: whatever the   *)
(* reads, the moves of the window, the logins, and the connections lost in    *)
(* the middle of a token, a packet or a login before it.                      *)
ImplementsFairEvents == Events!FairSpec

(* Whatever bytes TWS sends, a decoder waits at a step of its packet's table, *)
(* and in an element of an array only while the packet said there is one.     *)
DecodesInTable == Decoder!TypeOK

Consecutive(bytes) == \A i \in 1..Len(bytes) : bytes[i] = bytes[1] + (i - 1)

(* ... and each event is made of consecutive bytes, none missing and none     *)
(* taken twice, that come behind the bytes of all events before it.           *)
EventsAdvance ==
    [][shown' # shown =>
          /\ Consecutive(shown')
          /\ shown # <<>> => shown'[1] > shown[Len(shown)]]_all

(* The field a decoder waits for is the one that begins with the first byte   *)
(* it has not seen, of those TWS sends on this connection: in every packet    *)
(* and version, wherever the connections before it were lost.                 *)
InStepWithBytes ==
    link = "open" /\ process = "running" /\ ~calling /\ Dropped < Connection.end =>
        LET f == Connection.fields[Dropped + 1]
        IN  /\ Len(heard) = Dropped + 1 - f.begin
            /\ IF f.at = Decoder!Start THEN authed /\ cmd = "" /\ pt = Decoder!PtInit
               ELSE Decoder!Receiver = f.sh.cmd /\ Decoder!At = f.at

(* The process only exits (tws_decode.c:1551) for a packet TWS did send that  *)
(* the client does not know, after the events of all packets before it: never *)
(* because it took a field, or what an old connection left, for a packet.     *)
ExitsOnUnknown ==
    process = "exit" => life.unknown /\ told = Len(Connection.packets) /\ Received
================================================================================
