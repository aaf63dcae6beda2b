------------------------------ MODULE TwsEnvProofs ------------------------------
(* What the client keeps in every environment, for every value of the         *)
(* constants: closing or dialing inside a callback, late writes, errors of    *)
(* uv_tcp_connect and packets the client does not know included.  The         *)
(* decoders share one struct pt, and a packet never resumes at a label that   *)
(* another function set; START_API is sent once for a connection.             *)
EXTENDS TwsClientProofs

\* START_API is among the requests libuv still holds.
StartWritten == \E i \in 1..Len(writes) : writes[i] = "start"

\* The functions that may have yielded last, when the next token is decoded.
Expected == {NOBODY, IF state < AUTHED THEN LOGIN ELSE cmd}

(* Which callback can be on the stack together with which.                    *)
CallsInv ==
    /\ handler = "read" => socket \in {"stream", "closing"}
    /\ event \in {"data", "err"} => handler = "read"
    /\ event = "conn" => handler # "read"

(* A connection starts with nothing written; START_API follows the login.     *)
OpenInv ==
    /\ socket \in {"none", "leaked", "connecting"} => writes = <<>>
    /\ socket = "stream" /\ ~disc =>
          state >= CONNECTED /\ (StartWritten => state >= AUTHED)

(* The label is that of the expected function wherever on_read_cb goes on, or *)
(* may be called next, and no label is set when a connection starts.          *)
LabelInv ==
    /\ socket = "connecting" => pt.owner = NOBODY
    /\ disc /\ event = "none" /\ handler = "read" => pt.owner = NOBODY
    /\ ~disc /\ event = "none" /\ handler = "read" => pt.owner \in Expected
    /\ ~disc /\ handler = "none" /\ socket = "stream" => pt.owner \in Expected

DecoderInv == Running => CallsInv /\ OpenInv /\ LabelInv

LEMMA DecoderInit == Init => DecoderInv
BY DEF Init, DecoderInv, CallsInv, OpenInv, LabelInv, PtInit, NOBODY

(* Only tws_client_startAPI adds a START_API to the requests.                 *)
LEMMA AppendStart ==
    ASSUME writes \in Seq(Requests), NEW r \in Requests, r # "start",
           writes' = Append(writes, r) \/ UNCHANGED writes, StartWritten'
    PROVE  StartWritten
<1>1. Len(writes) \in Nat
    BY LenProperties
<1>2. CASE UNCHANGED writes
    BY <1>2 DEF StartWritten
<1>3. CASE writes' = Append(writes, r)
    <2>1. PICK i \in 1..Len(writes') : writes'[i] = "start"
        BY DEF StartWritten
    <2>2. /\ Len(writes') = Len(writes) + 1
          /\ writes'[Len(writes) + 1] = r
          /\ \A j \in 1..Len(writes) : writes'[j] = writes[j]
        BY <1>3, AppendProperties
    <2>3. i # Len(writes) + 1
        BY <2>1, <2>2
    <2>4. i \in 1..Len(writes) /\ writes[i] = "start"
        BY <1>1, <2>1, <2>2, <2>3
    <2> QED BY <2>4 DEF StartWritten
<1> QED BY <1>2, <1>3

(* ... and the callback of the oldest request adds none.                      *)
LEMMA PopStart ==
    ASSUME writes \in Seq(Requests), writes # <<>>, writes' = Tail(writes)
    PROVE  /\ StartWritten' => StartWritten
           /\ Head(writes) = "start" => StartWritten
<1>1. Len(writes) \in Nat \ {0}
    BY EmptySeq
<1>2. /\ Len(Tail(writes)) = Len(writes) - 1
      /\ \A i \in 1..Len(Tail(writes)) : Tail(writes)[i] = writes[i + 1]
    BY HeadTailProperties
<1>3. StartWritten' => StartWritten
    <2> SUFFICES ASSUME StartWritten' PROVE StartWritten
        OBVIOUS
    <2>1. PICK i \in 1..Len(Tail(writes)) : Tail(writes)[i] = "start"
        BY DEF StartWritten
    <2>2. i + 1 \in 1..Len(writes) /\ writes[i + 1] = "start"
        BY <1>1, <1>2, <2>1
    <2> QED BY <2>2 DEF StartWritten
<1>4. Head(writes) = "start" => StartWritten
    BY <1>1 DEF StartWritten
<1> QED BY <1>3, <1>4

(* No action starts a process that has ended.                                 *)
LEMMA StillRunning ==
    ASSUME [Next]_vars, Running'
    PROVE  Running
BY DEF vars, world, Running, Next, UserCall, Returns, Decode, Finish,
       EnableReconnect, DisableReconnect, Connect, ConnectBadAddress, Close, Stop, Destroy,
       Command, UserRuns, CloseEnds, PacketEnds, LoginErrorEnds, ConnectedEnds, NextPhase,
       ReconnectTimerCb, OnConnect, OnFailure, KernelTakes, OnWriteCb, OnWriteError, OnRead,
       ReadEnds, LoginVersion, LoginTime, PacketId, UnknownPacket, PacketToken, NextToken,
       Continues, Idle, FinishClose, FinishWrite, OnCloseCb, Greet, Send

LEMMA DecoderStep ==
    ASSUME TypeOK, DecoderInv, [Next]_vars
    PROVE  DecoderInv'
<1> SUFFICES ASSUME Running' PROVE (CallsInv /\ OpenInv /\ LabelInv)'
    BY DEF DecoderInv
<1>0. /\ state \in 1..6 /\ socket \in {"none", "leaked", "connecting", "stream", "closing"}
      /\ handler \in {"none", "read", "finish"} /\ event \in {"none", "conn", "data", "err"}
      /\ writes \in Seq(Requests)
    BY DEF TypeOK, DataOK, CLOSED, READY, Requests
<1> USE DEF CallsInv, OpenInv, LabelInv, Expected, vars, fields, decoder, stack, link, world, server,
        CLOSED, DISCONNECTING, CONNECTING, CONNECTED, AUTHED, READY, NOBODY, LOGIN, PtInit
<1>a. Running
    BY StillRunning
<1>b. CallsInv /\ OpenInv /\ LabelInv
    BY <1>a DEF DecoderInv
<1>c. UNCHANGED writes => (StartWritten' <=> StartWritten)
    BY DEF StartWritten
<1>1. CASE EnableReconnect \/ DisableReconnect \/ ConnectBadAddress
       BY <1>0, <1>b, <1>c, <1>1 DEF EnableReconnect, DisableReconnect, ConnectBadAddress
<1>2. CASE Connect BY <1>0, <1>b, <1>c, <1>2 DEF Connect, Dial, DecodeReset, Running
<1>3. CASE Close BY <1>0, <1>b, <1>c, <1>3 DEF Close, UserRuns, CloseBegins
<1>4. CASE Stop BY <1>0, <1>b, <1>c, <1>4 DEF Stop, UserRuns, CloseBegins
<1>5. CASE Destroy BY <1>0, <1>b, <1>c, <1>5 DEF Destroy, UserRuns, CloseBegins
<1>6. CASE Command
    <2>1. StartWritten' => StartWritten
        BY <1>0, <1>6, AppendStart DEF Command, Write, Requests
    <2> QED BY <1>0, <1>b, <1>6, <2>1 DEF Command, Write
<1>7. CASE CloseEnds BY <1>0, <1>b, <1>c, <1>7 DEF CloseEnds, UvClose, Running
<1>8. CASE PacketEnds BY <1>0, <1>b, <1>c, <1>8 DEF PacketEnds, DecodeReset
<1>9. CASE LoginErrorEnds BY <1>0, <1>b, <1>c, <1>9 DEF LoginErrorEnds, CloseBegins
<1>10. CASE ConnectedEnds BY <1>0, <1>b, <1>c, <1>10 DEF ConnectedEnds
<1>11. CASE NextPhase BY <1>0, <1>b, <1>c, <1>11 DEF NextPhase
<1>12. CASE ReconnectTimerCb
    <2>1. handler = "none" /\ event = "none" /\ ~disc /\ UNCHANGED stack
        BY <1>12 DEF ReconnectTimerCb, Idle
    <2>2. CASE Dial(FALSE)
        BY <1>0, <1>b, <1>c, <2>1, <2>2 DEF Dial, DecodeReset, Running
    <2>3. CASE UNCHANGED <<state, decoder, link>>
        BY <1>0, <1>b, <1>c, <2>1, <2>3
    <2> QED BY <1>12, <2>2, <2>3 DEF ReconnectTimerCb
<1>13. CASE OnConnect
    <2>1. writes = <<>> /\ writes' = Append(writes, "logon")
        BY <1>b, <1>13 DEF OnConnect
    <2>2. ~StartWritten
        BY <2>1 DEF StartWritten
    <2>3. ~StartWritten'
        BY <1>0, <2>1, <2>2, AppendStart DEF Requests
    <2> QED BY <1>0, <1>b, <1>13, <2>3 DEF OnConnect, Idle
<1>14. CASE OnFailure BY <1>0, <1>b, <1>c, <1>14 DEF OnFailure, Idle, CloseBegins
<1>15. CASE KernelTakes BY <1>0, <1>b, <1>c, <1>15 DEF KernelTakes
<1>16. CASE OnWriteCb
    <2>1. /\ StartWritten' => StartWritten
          /\ Head(writes) = "start" => StartWritten
        BY <1>0, <1>16, PopStart DEF OnWriteCb
    <2> QED BY <1>0, <1>b, <1>16, <2>1 DEF OnWriteCb, OnWritten, Idle, Running
<1>17. CASE OnWriteError
    <2>1. StartWritten' => StartWritten
        BY <1>0, <1>17, PopStart DEF OnWriteError
    <2> QED BY <1>0, <1>b, <1>17, <2>1 DEF OnWriteError, OnWriteFailed, CloseBegins, Idle
<1>18. CASE OnRead BY <1>0, <1>b, <1>c, <1>18 DEF OnRead, Idle
<1>19. CASE ReadEnds BY <1>0, <1>b, <1>c, <1>19 DEF ReadEnds, Continues
<1>20. CASE LoginVersion BY <1>0, <1>b, <1>c, <1>20 DEF LoginVersion, NextToken, Continues
<1>21. CASE LoginTime
       BY <1>0, <1>b, <1>c, <1>21 DEF LoginTime, NextToken, Continues, DecodeReset, StartAPI, Write
<1>22. CASE PacketId BY <1>0, <1>b, <1>c, <1>22 DEF PacketId, NextToken, Continues
<1>23. CASE UnknownPacket BY <1>23 DEF UnknownPacket, Running
<1>24. CASE PacketToken
       BY <1>0, <1>b, <1>c, <1>24 DEF PacketToken, NextToken, Continues, StartAPI, Write
<1>25. CASE FinishClose BY <1>0, <1>b, <1>c, <1>25 DEF FinishClose, Idle
<1>26. CASE FinishWrite
    <2>1. StartWritten' => StartWritten
        BY <1>0, <1>26, PopStart DEF FinishWrite
    <2> QED BY <1>0, <1>b, <1>26, <2>1
            DEF FinishWrite, OnWritten, OnWriteFailed, CloseBegins, Continues, Running
<1>27. CASE OnCloseCb BY <1>0, <1>b, <1>c, <1>27 DEF OnCloseCb, Continues
<1>28. CASE Greet \/ Send BY <1>0, <1>b, <1>c, <1>28 DEF Greet, Send
<1>29. CASE UNCHANGED vars BY <1>0, <1>b, <1>c, <1>29
<1> QED BY <1>1, <1>2, <1>3, <1>4, <1>5, <1>6, <1>7, <1>8, <1>9, <1>10, <1>11, <1>12, <1>13,
           <1>14, <1>15, <1>16, <1>17, <1>18, <1>19, <1>20, <1>21, <1>22, <1>23, <1>24, <1>25,
           <1>26, <1>27, <1>28, <1>29
        DEF Next, UserCall, Returns, Decode, Finish

(* A decoder never resumes at a label another function set, in any            *)
(* environment: tws_client_close, reconnects and callbacks leave pt in step   *)
(* with state and cmd.                                                        *)
THEOREM LabelsAreOwn == Spec => []OwnLabel
<1>1. TypeOK /\ DecoderInv /\ [Next]_vars => DecoderInv'
    BY DecoderStep
<1>2. DecoderInv => OwnLabel
    BY DEF DecoderInv, LabelInv, Expected, OwnLabel, NextToken, Continues, NOBODY
<1> QED BY TypeCorrect, DecoderInit, <1>1, <1>2, PTL DEF Spec

--------------------------------------------------------------------------------
(* The messages of TWS are packets: the id, and the tokens of its function    *)
(* (TwsDecodeProofs: StaysInStep).  No packet has the id 0.                   *)
WholeMessages ==
    \A m \in Messages : m[1] # 0 /\ (m[1] \in Cmds => Len(m) = 1 + Fields[m[1]])

\* The tokens that are left of the packet being decoded.
Left == IF cmd = 0 \/ event = "data" THEN 0 ELSE Fields[cmd] - pt.label

\* q holds the last tokens of a packet, as many as gap says, and whole packets behind
\* them, none of them VERIFY_COMPLETED, up to one that the client does not know.
Whole(q, gap) ==
    \E S \in SUBSET (1..Len(q)) :
        LET begins == S \cup {Len(q) + 1}
        IN  /\ gap + 1 \in begins
            /\ \A s \in S : /\ q[s] \notin {0, VERIFY_COMPLETED}
                            /\ q[s] \in Cmds => s + 1 + Fields[q[s]] \in begins

LEMMA FieldsFacts == \A c \in Cmds : c \in Nat \ {0} /\ Fields[c] \in Nat \ {0}
BY FieldsAssumption

LEMMA WholeEmpty == Whole(<<>>, 0)
<1>1. Len(<<>>) = 0 OBVIOUS
<1>2. {} \in SUBSET (1..Len(<<>>)) /\ 0 + 1 \in {} \cup {Len(<<>>) + 1} BY <1>1
<1> QED BY <1>2 DEF Whole

(* One token less.                                                            *)
LEMMA WholeNext ==
    ASSUME NEW q \in Seq(Nat), q # <<>>, NEW gap \in Nat, Whole(q, gap)
    PROVE  /\ gap > 0 => Whole(Tail(q), gap - 1)
           /\ gap = 0 => /\ q[1] \notin {0, VERIFY_COMPLETED}
                         /\ q[1] \in Cmds => Whole(Tail(q), Fields[q[1]])
<1> DEFINE n == Len(q)
<1>1. n \in Nat \ {0} BY EmptySeq
<1>2. /\ Len(Tail(q)) = n - 1
      /\ \A i \in 1..n - 1 : Tail(q)[i] = q[i + 1]
      BY HeadTailProperties
<1>3. PICK S \in SUBSET (1..n) :
          /\ gap + 1 \in S \cup {n + 1}
          /\ \A s \in S : /\ q[s] \notin {0, VERIFY_COMPLETED}
                          /\ q[s] \in Cmds => s + 1 + Fields[q[s]] \in S \cup {n + 1}
      BY DEF Whole
<1> DEFINE T == {s \in 1..n - 1 : s + 1 \in S}
<1> HIDE DEF n
<1>4. \A i \in Nat \ {0} : i + 1 \in S \cup {n + 1} => i \in T \cup {n - 1 + 1}
      BY <1>1
<1>5. ASSUME NEW t \in T
      PROVE  /\ Tail(q)[t] \notin {0, VERIFY_COMPLETED}
             /\ Tail(q)[t] \in Cmds => t + 1 + Fields[Tail(q)[t]] \in T \cup {n - 1 + 1}
  <2>1. t \in Nat \ {0} /\ t + 1 \in S /\ Tail(q)[t] = q[t + 1]
        BY <1>1, <1>2
  <2>2. q[t + 1] \notin {0, VERIFY_COMPLETED} BY <1>3, <2>1
  <2>3. ASSUME q[t + 1] \in Cmds
        PROVE  t + 1 + Fields[q[t + 1]] \in T \cup {n - 1 + 1}
    <3> DEFINE f == Fields[q[t + 1]]
    <3>1. f \in Nat BY <2>3, FieldsFacts
    <3>2. t + 1 + 1 + f \in S \cup {n + 1} BY <1>3, <2>1, <2>3
    <3> HIDE DEF f, T
    <3>3. t + 1 + f \in Nat \ {0} /\ (t + 1 + f) + 1 = t + 1 + 1 + f BY <2>1, <3>1
    <3>4. t + 1 + f \in T \cup {n - 1 + 1} BY <1>4, <3>2, <3>3
    <3> QED BY <3>4 DEF f
  <2> QED BY <2>1, <2>2, <2>3
<1>6. T \in SUBSET (1..n - 1) OBVIOUS
<1> HIDE DEF T
<1>7. ASSUME NEW g \in Nat, g + 1 + 1 \in S \cup {n + 1} PROVE Whole(Tail(q), g)
  <2>1. g + 1 \in T \cup {n - 1 + 1} BY <1>4, <1>7
  <2> QED BY <1>2, <1>5, <1>6, <2>1 DEF Whole
<1>8. ASSUME gap > 0 PROVE Whole(Tail(q), gap - 1)
  <2>1. gap - 1 \in Nat /\ gap - 1 + 1 + 1 = gap + 1 BY <1>8
  <2> QED BY <1>3, <1>7, <2>1
<1>9. ASSUME gap = 0
      PROVE  /\ q[1] \notin {0, VERIFY_COMPLETED}
             /\ q[1] \in Cmds => Whole(Tail(q), Fields[q[1]])
  <2>1. 1 \in S BY <1>1, <1>3, <1>9
  <2>2. ASSUME q[1] \in Cmds PROVE Whole(Tail(q), Fields[q[1]])
    <3> DEFINE f == Fields[q[1]]
    <3>1. f \in Nat BY <2>2, FieldsFacts
    <3>2. 1 + 1 + f \in S \cup {n + 1} BY <1>3, <2>1, <2>2
    <3> HIDE DEF f
    <3>3. f + 1 + 1 = 1 + 1 + f BY <3>1
    <3>4. Whole(Tail(q), f) BY <1>7, <3>1, <3>2, <3>3
    <3> QED BY <3>4 DEF f
  <2> QED BY <1>3, <2>1, <2>2
<1> QED BY <1>8, <1>9

(* One message more.                                                          *)
LEMMA WholeMore ==
    ASSUME NEW q \in Seq(Nat), NEW gap \in Nat, Whole(q, gap), NEW m \in Seq(Nat), m # <<>>,
           m[1] \notin {0, VERIFY_COMPLETED}, m[1] \in Cmds => Len(m) = 1 + Fields[m[1]]
    PROVE  Whole(q \o m, gap)
<1> DEFINE n == Len(q)
           l == Len(m)
<1>1. n \in Nat /\ l \in Nat \ {0} BY EmptySeq
<1>2. /\ Len(q \o m) = n + l
      /\ \A i \in 1..n + l : (q \o m)[i] = IF i <= n THEN q[i] ELSE m[i - n]
      BY ConcatProperties
<1>3. PICK S \in SUBSET (1..n) :
          /\ gap + 1 \in S \cup {n + 1}
          /\ \A s \in S : /\ q[s] \notin {0, VERIFY_COMPLETED}
                          /\ q[s] \in Cmds => s + 1 + Fields[q[s]] \in S \cup {n + 1}
      BY DEF Whole
<1> DEFINE T == S \cup {n + 1}
<1>4. m[1] \in Cmds => l = 1 + Fields[m[1]] /\ Fields[m[1]] \in Nat
      BY FieldsFacts
<1> HIDE DEF n, l
<1>5. T \in SUBSET (1..n + l) /\ gap + 1 \in T \cup {n + l + 1}
      BY <1>1, <1>3
<1>6. ASSUME NEW t \in T
      PROVE  /\ (q \o m)[t] \notin {0, VERIFY_COMPLETED}
             /\ (q \o m)[t] \in Cmds => t + 1 + Fields[(q \o m)[t]] \in T \cup {n + l + 1}
  <2>1. CASE t \in S
    <3>1. (q \o m)[t] = q[t] BY <1>1, <1>2, <2>1
    <3> QED BY <1>3, <2>1, <3>1
  <2>2. CASE t = n + 1
    <3>1. (q \o m)[t] = m[1]
      <4>1. t \in 1..n + l /\ ~(t <= n) /\ t - n = 1 BY <1>1, <2>2
      <4>2. (q \o m)[t] = m[t - n] BY <1>2, <4>1
      <4> QED BY <4>1, <4>2
    <3>2. m[1] \in Cmds => t + 1 + Fields[m[1]] = n + l + 1 BY <1>1, <1>4, <2>2
    <3> QED BY <3>1, <3>2
  <2> QED BY <2>1, <2>2
<1> HIDE DEF T
<1> QED BY <1>2, <1>5, <1>6 DEF Whole

--------------------------------------------------------------------------------
(* START_API.                                                                 *)

\* The socket of a connection that is not being closed.
Open == socket = "stream" /\ ~disc

(* A connection begins with nothing sent, read or decoded.                    *)
ConnInv ==
    /\ socket # "stream" => net = <<>> /\ peer = "silent"
    /\ handler # "read" => rx = <<>>
    /\ handler = "finish" => socket = "closing"
    /\ socket = "connecting" => cmd = 0

(* Until the login is complete only the logon was written, and the server has *)
(* sent its greeting at most (LoginInv says the same of disciplined           *)
(* environments).                                                             *)
GreetInv ==
    Open /\ state < AUTHED =>
        /\ cmd = 0 /\ event \in {"none", "err"}
        /\ \/ peer = "silent" /\ writes = <<"logon">> /\ done = 0
           \/ peer \in {"logon", "greeted"} /\ writes \in {<<>>, <<"logon">>} /\ done = Len(writes)
        /\ peer # "greeted" => Pending = <<>> /\ pt.owner # LOGIN /\ event = "none"
        /\ event = "err" => Pending = <<>>
        /\ event = "none" /\ pt.owner = LOGIN => Len(Pending) = 1
        /\ event = "none" /\ pt.owner # LOGIN => IsGreeting(Pending)

(* From then on, until START_API was written, nothing but START_API is left   *)
(* to write, so that the server was not asked for anything; it sends whole    *)
(* packets, and the client takes them as such.                                *)
WholeInv ==
    Open /\ state = AUTHED =>
        /\ peer \in {"greeted", "api"} /\ event \in {"none", "data"}
        /\ \A i \in done + 1 .. Len(writes) : writes[i] = "start"
        /\ cmd # VERIFY_COMPLETED
        /\ event = "data" => cmd \in Cmds
        /\ cmd = 0 /\ event = "none" => pt = PtInit
        /\ cmd \in Cmds => pt.label < Fields[cmd]
        /\ cmd \in Cmds \cup {0} => Whole(Pending, Left)

StartInv == Running => ConnInv /\ GreetInv /\ WholeInv

LEMMA StartInit == Init => StartInv /\ StartOnce
BY DEF Init, StartInv, ConnInv, GreetInv, WholeInv, Open, StartOnce, CLOSED, AUTHED

LEMMA DataTypes ==
    ASSUME TypeOK
    PROVE  /\ state \in 1..6 /\ socket \in {"none", "leaked", "connecting", "stream", "closing"}
           /\ handler \in {"none", "read", "finish"} /\ event \in {"none", "conn", "data", "err"}
           /\ writes \in Seq(Requests) /\ done \in 0..Len(writes)
           /\ rx \in Seq(Nat) /\ net \in Seq(Nat) /\ cmd \in Nat
           /\ pt \in [owner : Nat \cup {LOGIN}, label : Nat]
           /\ peer \in {"silent", "logon", "greeted", "api", "asked"}
BY DEF TypeOK, DataOK, CLOSED, READY, Requests

(* A step on a connection that stays open.                                    *)
LEMMA OpenCases ==
    ASSUME TypeOK, DecoderInv, StartInv, [Next]_vars, Running', Open'
    PROVE  /\ Running
           /\ \/ OnConnect
              \/ UNCHANGED <<state, pt, cmd, socket, writes, done, rx, event, disc, net, peer>>
              \/ /\ Open
                 /\ \/ Command \/ PacketEnds \/ ConnectedEnds \/ KernelTakes \/ OnWriteCb
                    \/ OnRead \/ LoginVersion \/ LoginTime \/ PacketId \/ PacketToken
                    \/ Greet \/ Send
<1> USE DEF Open, vars, fields, decoder, stack, link, world, server,
        CLOSED, DISCONNECTING, CONNECTING, CONNECTED, AUTHED, READY
<1>0. /\ state \in 1..6 /\ socket \in {"none", "leaked", "connecting", "stream", "closing"}
      BY DataTypes
<1>1. Running
    BY StillRunning
<1>2. Open => state >= CONNECTED
    BY <1>1 DEF DecoderInv, OpenInv
<1> DEFINE Nothing ==
        UNCHANGED <<state, pt, cmd, socket, writes, done, rx, event, disc, net, peer>>
<1>3. EnableReconnect \/ DisableReconnect \/ ConnectBadAddress => Nothing
    BY DEF EnableReconnect, DisableReconnect, ConnectBadAddress
<1>4. ~Connect
    BY DEF Connect, Dial, Running
<1>5. Close \/ Stop \/ Destroy => Nothing
    BY DEF Close, Stop, Destroy, CloseBegins
<1>6. ~CloseEnds
    BY DEF CloseEnds, UvClose, Running
<1>7. ~LoginErrorEnds /\ ~OnWriteError
    BY <1>0, <1>2 DEF LoginErrorEnds, OnWriteError, OnWriteFailed, CloseBegins, Idle
<1>8. NextPhase \/ OnFailure \/ ReadEnds \/ UnknownPacket => Nothing
    BY DEF NextPhase, OnFailure, CloseBegins, ReadEnds, UnknownPacket
<1>9. ReconnectTimerCb => Nothing
    BY DEF ReconnectTimerCb, Dial, Running
<1>10. ~FinishClose /\ ~FinishWrite /\ ~OnCloseCb
  <2>1. ~FinishClose BY DEF FinishClose
  <2>2. ~OnCloseCb BY DEF OnCloseCb
  <2>3. handler = "finish" => socket = "closing" BY <1>1 DEF StartInv, ConnInv
  <2>4. ~FinishWrite BY <2>3 DEF FinishWrite, Continues
  <2> QED BY <2>1, <2>2, <2>4
<1>11. PacketEnds \/ ConnectedEnds \/ Command \/ KernelTakes \/ OnWriteCb \/ OnRead \/ LoginVersion
          \/ LoginTime \/ PacketId \/ PacketToken \/ Greet \/ Send => Open
    BY DEF PacketEnds, ConnectedEnds, Command, KernelTakes, OnWriteCb, OnRead, LoginVersion,
           LoginTime, PacketId, PacketToken, NextToken, Continues, Idle, Write, StartAPI, Greet, Send
<1>12. UNCHANGED vars => Nothing
    OBVIOUS
<1> QED BY <1>1, <1>3, <1>4, <1>5, <1>6, <1>7, <1>8, <1>9, <1>10, <1>11, <1>12, Zenon
        DEF Next, UserCall, Returns, Decode, Finish

LEMMA ConnStep ==
    ASSUME TypeOK, DecoderInv, StartInv, [Next]_vars, Running'
    PROVE  ConnInv'
<1> USE DEF ConnInv, vars, fields, decoder, stack, link, world, server
<1>0. /\ socket \in {"none", "leaked", "connecting", "stream", "closing"}
      /\ handler \in {"none", "read", "finish"}
      BY DataTypes
<1>1. Running
    BY StillRunning
<1>2. ConnInv /\ (handler = "read" => socket \in {"stream", "closing"})
    BY <1>1 DEF StartInv, DecoderInv, CallsInv
<1>3. CASE EnableReconnect \/ DisableReconnect \/ ConnectBadAddress
    BY <1>2, <1>3 DEF EnableReconnect, DisableReconnect, ConnectBadAddress
<1>4. CASE Connect
    BY <1>0, <1>2, <1>4 DEF Connect, Dial, DecodeReset, Running
<1>5. CASE Close \/ Stop \/ Destroy
    BY <1>2, <1>5 DEF Close, Stop, Destroy
<1>6. CASE Command \/ PacketEnds \/ LoginErrorEnds \/ ConnectedEnds
    BY <1>2, <1>6 DEF Command, Write, PacketEnds, DecodeReset, LoginErrorEnds, ConnectedEnds
<1>7. CASE CloseEnds
    BY <1>2, <1>7 DEF CloseEnds, UvClose, Running
<1>8. CASE NextPhase \/ OnFailure \/ ReadEnds
    BY <1>2, <1>8 DEF NextPhase, OnFailure, ReadEnds
<1>9. CASE ReconnectTimerCb
    BY <1>0, <1>2, <1>9 DEF ReconnectTimerCb, Dial, DecodeReset, Idle, Running
<1>10. CASE OnConnect
    BY <1>2, <1>10 DEF OnConnect, Idle
<1>11. CASE KernelTakes \/ OnWriteCb \/ OnWriteError
    BY <1>2, <1>11 DEF KernelTakes, OnWriteCb, OnWriteError, Idle
<1>12. CASE OnRead
    BY <1>2, <1>12 DEF OnRead
<1>13. CASE LoginVersion \/ LoginTime \/ PacketId \/ UnknownPacket \/ PacketToken
    BY <1>2, <1>13 DEF LoginVersion, LoginTime, PacketId, UnknownPacket, PacketToken, NextToken,
                       Continues, StartAPI, Write
<1>14. CASE FinishClose \/ FinishWrite \/ OnCloseCb
    BY <1>2, <1>14 DEF FinishClose, FinishWrite, OnCloseCb, Continues, Idle
<1>15. CASE Greet \/ Send
    BY <1>2, <1>15 DEF Greet, Send
<1>16. CASE UNCHANGED vars BY <1>2, <1>16
<1> QED BY <1>3, <1>4, <1>5, <1>6, <1>7, <1>8, <1>9, <1>10, <1>11, <1>12, <1>13, <1>14, <1>15,
           <1>16 DEF Next, UserCall, Returns, Decode, Finish

(* on_read_cb only moves tokens from the network to itself.                   *)
LEMMA ReadPending ==
    ASSUME TypeOK, rx = <<>>, OnRead
    PROVE  Pending' = Pending
<1>1. PICK n \in 1..Len(net) :
          rx' = SubSeq(net, 1, n) /\ net' = SubSeq(net, n + 1, Len(net))
    BY DEF OnRead
<1>2. net \in Seq(Nat) BY DataTypes
<1>3. Len(net) \in Nat \ {0} BY <1>2, EmptySeq DEF OnRead
<1>4. /\ 1 \in 1..Len(net) + 1 /\ n \in 1 - 1..Len(net) /\ Len(net) \in n..Len(net)
    BY <1>3
<1>5. SubSeq(net, 1, n) \o SubSeq(net, n + 1, Len(net)) = SubSeq(net, 1, Len(net))
    BY <1>2, <1>4, ConcatAdjacentSubSeq
<1>6. Pending = net BY <1>2, ConcatEmptySeq DEF Pending
<1> QED BY <1>1, <1>2, <1>5, <1>6, SubSeqFull DEF Pending

LEMMA GreetStep ==
    ASSUME TypeOK, TypeOK', DecoderInv, StartInv, [Next]_vars, Running'
    PROVE  GreetInv'
<1> USE DEF GreetInv, Open, CLOSED, DISCONNECTING, CONNECTING, CONNECTED, AUTHED, READY, NOBODY, LOGIN
<1> SUFFICES ASSUME Open', state' < AUTHED PROVE GreetInv'
    OBVIOUS
<1>0. /\ state \in 1..6 /\ socket \in {"none", "leaked", "connecting", "stream", "closing"}
      /\ event \in {"none", "conn", "data", "err"} /\ rx \in Seq(Nat) /\ net \in Seq(Nat)
      /\ writes \in Seq(Requests) /\ done \in 0..Len(writes) /\ net' \in Seq(Nat)
    BY DataTypes DEF TypeOK, DataOK
<1>1. /\ Running
      /\ \/ OnConnect
         \/ UNCHANGED <<state, pt, cmd, socket, writes, done, rx, event, disc, net, peer>>
         \/ /\ Open
            /\ \/ Command \/ PacketEnds \/ ConnectedEnds \/ KernelTakes \/ OnWriteCb
               \/ OnRead \/ LoginVersion \/ LoginTime \/ PacketId \/ PacketToken
               \/ Greet \/ Send
    BY OpenCases
<1>2. /\ ConnInv /\ GreetInv /\ OpenInv /\ LabelInv
    BY <1>1 DEF StartInv, DecoderInv
<1>3. UNCHANGED <<rx, net>> => Pending' = Pending
    BY DEF Pending
<1>4. CASE UNCHANGED <<state, pt, cmd, socket, writes, done, rx, event, disc, net, peer>>
    BY <1>2, <1>3, <1>4
<1>5. CASE OnConnect
  <2>1. /\ writes = <<>> /\ net = <<>> /\ rx = <<>> /\ event = "none" /\ peer = "silent"
        /\ pt.owner = NOBODY /\ cmd = 0
      BY <1>2, <1>5 DEF OnConnect, Idle, ConnInv, OpenInv, LabelInv
  <2>2. /\ writes' = <<"logon">> /\ net' = <<>> /\ rx' = <<>> /\ event' = "none"
        /\ peer' = "silent" /\ pt' = pt /\ cmd' = 0 /\ done' = done
      BY <1>5, <2>1 DEF OnConnect, fields, decoder, stack, world, server
  <2>3. Pending' = <<>> BY <2>2, ConcatEmptySeq, EmptySeq DEF Pending
  <2>4. done = 0 BY <1>0, <2>1
  <2> QED BY <2>1, <2>2, <2>3, <2>4 DEF IsGreeting
<1>6. state < AUTHED /\ Open => ~(Command \/ PacketEnds \/ ConnectedEnds \/ PacketId \/ PacketToken \/ Send)
  <2> SUFFICES ASSUME state < AUTHED, Open
               PROVE  ~(Command \/ PacketEnds \/ ConnectedEnds \/ PacketId \/ PacketToken \/ Send)
      OBVIOUS
  <2>1. event \in {"none", "err"} /\ peer \in {"silent", "logon", "greeted"}
      BY <1>2
  <2>2. ~Command BY <1>0 DEF Command
  <2>3. ~PacketEnds /\ ~ConnectedEnds BY <2>1 DEF PacketEnds, ConnectedEnds
  <2>4. ~PacketId /\ ~PacketToken BY <1>0 DEF PacketId, PacketToken
  <2>5. ~Send BY <2>1 DEF Send
  <2> QED BY <2>2, <2>3, <2>4, <2>5
<1>7. OnRead \/ LoginVersion \/ KernelTakes \/ Greet \/ OnWriteCb \/ LoginTime
         \/ Command \/ PacketEnds \/ ConnectedEnds \/ PacketId \/ PacketToken \/ Send => state < AUTHED
    BY <1>0 DEF OnRead, LoginVersion, KernelTakes, Greet, OnWriteCb, OnWritten, LoginTime, Command,
                PacketEnds, ConnectedEnds, PacketId, PacketToken, Send
<1>8. CASE Open /\ KernelTakes
  <2>1. writes = <<"logon">> /\ done = 0 /\ done' = 1 /\ peer' = "logon" /\ peer = "silent"
      BY <1>0, <1>2, <1>7, <1>8 DEF KernelTakes, Arrives
  <2>2. UNCHANGED <<state, pt, cmd, writes, rx, event, disc, net>>
      BY <1>8 DEF KernelTakes, fields, decoder, stack, world
  <2> QED BY <1>2, <1>3, <1>7, <1>8, <2>1, <2>2
<1>9. CASE Open /\ OnWriteCb
  <2>1. /\ writes = <<"logon">> /\ writes' = <<>> /\ UNCHANGED <<pt, cmd, rx, net, disc>>
        /\ peer \in {"silent", "logon", "greeted"}
        /\ IF done > 0 THEN done' = done - 1 /\ peer' = peer ELSE peer' = "logon" /\ done' = done
      BY <1>2, <1>7, <1>9 DEF OnWriteCb, Arrives, fields, decoder
  <2>2. event' = event /\ state' = state
      BY <1>9, <2>1 DEF OnWriteCb, OnWritten, Running
  <2>3. done' = 0 /\ (peer = "silent" => done = 0)
      BY <1>0, <1>2, <1>7, <1>9, <2>1
  <2>4. peer' \in {"logon", "greeted"} /\ (peer # "greeted" => peer' # "greeted" \/ peer' = peer)
      BY <1>0, <1>2, <1>7, <1>9, <2>1, <2>3
  <2>5. peer = "silent" \/ peer' = peer \/ peer' = "logon" BY <2>1
  <2>6. event = "none" BY <1>9 DEF OnWriteCb, Idle
  <2>7. done = 0 => peer # "greeted"
      BY <1>0, <1>2, <1>7, <1>9, <2>1
  <2> QED BY <1>2, <1>3, <1>7, <1>9, <2>1, <2>2, <2>3, <2>4, <2>6, <2>7
<1>10. CASE Open /\ OnRead
  <2>1. rx = <<>> /\ UNCHANGED <<state, event, pt, cmd, writes, done, peer>>
      BY <1>2, <1>10 DEF OnRead, Idle, ConnInv, fields, decoder, link, world
  <2>2. Pending' = Pending BY <1>10, <2>1, ReadPending
  <2> QED BY <1>2, <1>7, <1>10, <2>1, <2>2
<1>11. CASE Open /\ LoginVersion
  <2>1. /\ rx # <<>> /\ event = "none" /\ pt.owner # LOGIN /\ rx' = Tail(rx)
        /\ UNCHANGED <<writes, done, net, peer, cmd>>
      BY <1>11 DEF LoginVersion, NextToken, Continues, link, server
  <2>2. /\ Pending' = Tail(Pending) /\ Pending # <<>> /\ Len(Tail(Pending)) = Len(Pending) - 1
        /\ Pending[1] = Head(rx) /\ Pending \in Seq(Nat)
      BY <1>0, <2>1, PendingToken DEF Pending
  <2>3. IsGreeting(Pending) /\ peer = "greeted" BY <1>2, <1>7, <1>11, <2>1, <2>2
  <2>4. CASE Head(rx) >= OLD_SERVER
    <3>1. Len(Pending) = 2 BY <2>2, <2>3, <2>4 DEF IsGreeting, OLD_SERVER
    <3>2. Len(Pending') = 1 /\ pt'.owner = LOGIN /\ event' = "none"
        BY <1>11, <2>1, <2>2, <2>4, <3>1 DEF LoginVersion
    <3> QED BY <1>2, <1>7, <1>11, <2>1, <2>3, <3>2
  <2>5. CASE ~(Head(rx) >= OLD_SERVER)
    <3>1. Len(Pending) = 1
        BY <2>1, <2>2, <2>3, <2>5, <1>0, HeadTailProperties DEF IsGreeting, OLD_SERVER
    <3>2. Pending' = <<>> BY <2>2, <3>1, HeadTailProperties, EmptySeq
    <3>3. event' = "err" BY <1>11, <2>5 DEF LoginVersion
    <3> QED BY <1>2, <1>7, <1>11, <2>1, <2>3, <3>2, <3>3
  <2> QED BY <2>4, <2>5
<1>12. CASE Open /\ LoginTime
  <2>1. /\ rx # <<>> /\ event = "none" /\ pt.owner = LOGIN /\ UNCHANGED <<net, peer>>
      BY <1>12 DEF LoginTime, NextToken, Continues, server
  <2>2. Len(Pending) = 1 /\ peer = "greeted" BY <1>2, <1>7, <1>12, <2>1
  <2>3. Tail(rx) = <<>> /\ net = <<>> BY <1>0, <2>1, <2>2, PendingToken
  <2>4. rx' = Tail(rx) /\ event' = "err" /\ UNCHANGED <<writes, done, pt, cmd>>
      BY <1>12 DEF LoginTime, decoder, link
  <2>5. Pending' = <<>> BY <2>1, <2>3, <2>4, ConcatEmptySeq, EmptySeq DEF Pending
  <2> QED BY <1>2, <1>7, <1>12, <2>1, <2>2, <2>4, <2>5
<1>13. CASE Open /\ Greet
  <2>1. /\ peer = "logon" /\ peer' = "greeted"
        /\ UNCHANGED <<state, cmd, writes, done, rx, event, pt>>
      BY <1>13 DEF Greet, fields, decoder, stack, link
  <2>2. Pending = <<>> /\ pt.owner # LOGIN /\ event = "none"
      BY <1>2, <1>7, <1>13, <2>1
  <2>3. rx = <<>> BY <1>0, <2>2, ConcatEqualIffEmpty DEF Pending
  <2>4. Pending' = net' BY <1>0, <2>1, <2>3, ConcatEmptySeq DEF Pending
  <2>5. IsGreeting(net')
    <3>1. PICK v \in Versions : net' = IF v < OLD_SERVER THEN <<v>> ELSE <<v, TIME>>
        BY <1>13 DEF Greet
    <3>2. v \in Nat BY VersionsAssumption
    <3>3. CASE v < OLD_SERVER BY <3>1, <3>3 DEF IsGreeting
    <3>4. CASE ~(v < OLD_SERVER) BY <3>1, <3>2, <3>4 DEF IsGreeting, OLD_SERVER
    <3> QED BY <3>3, <3>4
  <2> QED BY <1>2, <1>7, <1>13, <2>1, <2>2, <2>4, <2>5
<1> QED BY <1>1, <1>4, <1>5, <1>6, <1>7, <1>8, <1>9, <1>10, <1>11, <1>12, <1>13

LEMMA Associative ==
    ASSUME NEW a \in Seq(Nat), NEW b \in Seq(Nat), NEW c \in Seq(Nat)
    PROVE  a \o (b \o c) = (a \o b) \o c
OBVIOUS

(* START_API is the last request that is left: taking it away leaves none.    *)
LEMMA OnlyStart ==
    ASSUME NEW w \in Seq(Requests), w # <<>>, NEW d \in 0..Len(w),
           \A i \in d + 1..Len(w) : w[i] = "start"
    PROVE  /\ d = 0 => Head(w) = "start"
           /\ d > 0 => \A i \in d..Len(Tail(w)) : Tail(w)[i] = "start"
<1>1. Len(w) \in Nat \ {0} BY EmptySeq
<1>2. /\ Len(Tail(w)) = Len(w) - 1 /\ Head(w) = w[1]
      /\ \A i \in 1..Len(Tail(w)) : Tail(w)[i] = w[i + 1]
    BY HeadTailProperties
<1>3. d = 0 => Head(w) = "start" BY <1>1, <1>2
<1>4. ASSUME d > 0, NEW i \in d..Len(Tail(w)) PROVE Tail(w)[i] = "start"
  <2>1. i \in 1..Len(Tail(w)) /\ i + 1 \in d + 1..Len(w) BY <1>1, <1>2, <1>4
  <2> QED BY <1>2, <2>1
<1> QED BY <1>3, <1>4

LEMMA WholeStep ==
    ASSUME WholeMessages, TypeOK, TypeOK', DecoderInv, StartInv, [Next]_vars, Running'
    PROVE  WholeInv'
<1> USE DEF Open, CLOSED, DISCONNECTING, CONNECTING, CONNECTED, AUTHED, READY
<1> SUFFICES ASSUME Open', state' = AUTHED PROVE WholeInv'
    BY DEF WholeInv
<1>0. /\ state \in 1..6 /\ rx \in Seq(Nat) /\ net \in Seq(Nat) /\ cmd \in Nat
      /\ writes \in Seq(Requests) /\ done \in 0..Len(writes)
      /\ pt \in [owner : Nat \cup {LOGIN}, label : Nat]
    BY DataTypes
<1>1. /\ Running
      /\ \/ OnConnect
         \/ UNCHANGED <<state, pt, cmd, socket, writes, done, rx, event, disc, net, peer>>
         \/ /\ Open
            /\ \/ Command \/ PacketEnds \/ ConnectedEnds \/ KernelTakes \/ OnWriteCb
               \/ OnRead \/ LoginVersion \/ LoginTime \/ PacketId \/ PacketToken
               \/ Greet \/ Send
    BY OpenCases
<1>2. ConnInv /\ GreetInv /\ WholeInv
    BY <1>1 DEF StartInv
<1>3. UNCHANGED <<rx, net>> => Pending' = Pending
    BY DEF Pending
<1>4. UNCHANGED <<cmd, event, pt>> => Left' = Left
    BY DEF Left
<1>5. CASE UNCHANGED <<state, pt, cmd, socket, writes, done, rx, event, disc, net, peer>>
    BY <1>2, <1>3, <1>4, <1>5 DEF WholeInv
<1>6. ~OnConnect
    BY DEF OnConnect
<1>7. CASE Open /\ LoginTime
  <2>1. /\ state < AUTHED /\ rx # <<>> /\ event = "none" /\ pt.owner = LOGIN
        /\ UNCHANGED <<net, peer>>
      BY <1>0, <1>7 DEF LoginTime, NextToken, Continues, server
  <2>2. /\ Len(Pending) = 1 /\ peer = "greeted" /\ done = Len(writes) /\ cmd = 0
      BY <1>2, <1>7, <2>1 DEF GreetInv
  <2>3. net = <<>> BY <1>0, <2>1, <2>2, PendingToken
  <2>4. /\ rx' = <<>> /\ event' = "none" /\ pt' = PtInit /\ cmd' = 0 /\ done' = done
        /\ writes' = Append(writes, "start")
      BY <1>0, <1>7, <2>1 DEF LoginTime, DecodeReset, StartAPI, Write
  <2>5. \A i \in done' + 1..Len(writes') : writes'[i] = "start"
      BY <1>0, <2>2, <2>4, AppendProperties DEF Requests
  <2>6. Pending' = <<>> BY <2>1, <2>3, <2>4, ConcatEmptySeq, EmptySeq DEF Pending
  <2>7. Left' = 0 /\ Whole(Pending', Left') BY <2>4, <2>6, WholeEmpty DEF Left
  <2> QED BY <2>1, <2>2, <2>4, <2>5, <2>7, FieldsFacts DEF WholeInv, VERIFY_COMPLETED
<1>8. CASE state = AUTHED /\ Open
  <2>1. /\ peer \in {"greeted", "api"} /\ event \in {"none", "data"}
        /\ \A i \in done + 1 .. Len(writes) : writes[i] = "start"
        /\ cmd # VERIFY_COMPLETED
        /\ event = "data" => cmd \in Cmds
        /\ cmd = 0 /\ event = "none" => pt = PtInit
        /\ cmd \in Cmds => pt.label < Fields[cmd]
        /\ cmd \in Cmds \cup {0} => Whole(Pending, Left)
      BY <1>2, <1>8 DEF WholeInv
  <2>2. ~Command /\ ~ConnectedEnds /\ ~LoginVersion /\ ~LoginTime /\ ~Greet
      BY <1>8, <2>1 DEF Command, ConnectedEnds, LoginVersion, LoginTime, Greet
  <2>3. CASE PacketEnds
    <3>1. event = "data" /\ event' = "none" /\ pt' = PtInit /\ cmd' = 0
          /\ UNCHANGED <<rx, net, writes, done, peer>>
        BY <2>3 DEF PacketEnds, DecodeReset, link, server
    <3>2. Left = 0 /\ Left' = 0 /\ Pending' = Pending BY <1>3, <3>1 DEF Left
    <3>3. Whole(Pending', Left') BY <2>1, <3>1, <3>2
    <3> QED BY <2>1, <3>1, <3>3, FieldsFacts DEF WholeInv, VERIFY_COMPLETED
  <2>4. CASE KernelTakes
    <3>1. /\ done < Len(writes) /\ done' = done + 1 /\ Arrives(writes[done + 1])
          /\ UNCHANGED <<writes, rx, net, cmd, pt, event>>
        BY <2>4 DEF KernelTakes, decoder, stack
    <3>2. writes[done + 1] = "start" BY <1>0, <2>1, <3>1
    <3>3. peer' = "api" BY <3>1, <3>2 DEF Arrives
    <3>4. \A i \in done' + 1 .. Len(writes') : writes'[i] = "start" BY <1>0, <2>1, <3>1
    <3> QED BY <1>3, <1>4, <2>1, <3>1, <3>3, <3>4 DEF WholeInv
  <2>5. CASE OnWriteCb
    <3>1. /\ writes # <<>> /\ writes' = Tail(writes) /\ UNCHANGED <<rx, net, cmd, pt>>
          /\ OnWritten(Head(writes)) /\ event = "none"
          /\ done > 0 => done' = done - 1 /\ peer' = peer
        BY <2>5 DEF OnWriteCb, decoder, Idle
    <3>2. Head(writes) # "start" /\ event' = event
        BY <1>8, <3>1 DEF OnWritten, Running
    <3>3. done > 0 BY <1>0, <2>1, <3>1, <3>2, OnlyStart
    <3>4. \A i \in done' + 1 .. Len(writes') : writes'[i] = "start"
        BY <1>0, <2>1, <3>1, <3>3, OnlyStart
    <3> QED BY <1>3, <1>4, <2>1, <3>1, <3>2, <3>3, <3>4 DEF WholeInv
  <2>6. CASE OnRead
    <3>1. rx = <<>> /\ UNCHANGED <<event, pt, cmd, writes, done, peer>>
        BY <1>2, <2>6 DEF OnRead, Idle, ConnInv, decoder, link
    <3>2. Pending' = Pending BY <2>6, <3>1, ReadPending
    <3> QED BY <1>4, <2>1, <3>1, <3>2 DEF WholeInv
  <2>7. CASE PacketId
    <3>1. /\ rx # <<>> /\ event = "none" /\ cmd = 0 /\ rx' = Tail(rx) /\ cmd' = Head(rx)
          /\ UNCHANGED <<event, pt, writes, done, peer, net>>
        BY <2>7 DEF PacketId, NextToken, Continues, link, server
    <3>2. /\ Pending' = Tail(Pending) /\ Pending # <<>> /\ Pending[1] = Head(rx)
          /\ Pending \in Seq(Nat)
        BY <1>0, <3>1, PendingToken DEF Pending
    <3>3. Left = 0 /\ Whole(Pending, 0) BY <2>1, <3>1 DEF Left
    <3>4. /\ cmd' \notin {0, VERIFY_COMPLETED}
          /\ cmd' \in Cmds => Whole(Pending', Fields[cmd'])
        BY <3>1, <3>2, <3>3, WholeNext
    <3>5. pt = PtInit BY <2>1, <3>1
    <3>6. cmd' \in Cmds => Fields[cmd'] \in Nat \ {0} /\ pt'.label < Fields[cmd'] /\ Left' = Fields[cmd']
        BY <3>1, <3>4, <3>5, FieldsFacts DEF PtInit, Left
    <3> QED BY <2>1, <3>1, <3>4, <3>6 DEF WholeInv
  <2>8. CASE PacketToken
    <3>1. /\ rx # <<>> /\ event = "none" /\ cmd \in Cmds /\ rx' = Tail(rx)
          /\ UNCHANGED <<cmd, peer, net>>
        BY <2>8 DEF PacketToken, NextToken, Continues, server
    <3>2. UNCHANGED <<writes, done>> BY <2>1, <2>8 DEF PacketToken, link
    <3>3. /\ Pending' = Tail(Pending) /\ Pending # <<>> /\ Pending \in Seq(Nat)
        BY <1>0, <3>1, PendingToken DEF Pending
    <3>4. cmd # 0 /\ Fields[cmd] \in Nat /\ pt.label \in Nat /\ pt.label < Fields[cmd]
        BY <1>0, <2>1, <3>1, FieldsFacts
    <3>5. Left = Fields[cmd] - pt.label BY <3>1, <3>4 DEF Left
    <3>6. Left \in Nat /\ Left > 0 /\ Whole(Pending, Left) BY <2>1, <3>1, <3>4, <3>5
    <3>7. Whole(Pending', Left - 1) BY <3>3, <3>6, WholeNext
    <3>8. CASE pt.label + 1 < Fields[cmd]
      <4>1. pt' = [owner |-> cmd, label |-> pt.label + 1] /\ event' = event
          BY <2>8, <3>8 DEF PacketToken
      <4>2. Left' = Left - 1 BY <3>1, <3>4, <3>5, <4>1 DEF Left
      <4> QED BY <2>1, <3>1, <3>2, <3>4, <3>7, <3>8, <4>1, <4>2 DEF WholeInv
    <3>9. CASE ~(pt.label + 1 < Fields[cmd])
      <4>1. event' = "data" /\ pt' = pt BY <2>8, <3>9 DEF PacketToken
      <4>2. Left' = Left - 1 BY <3>4, <3>5, <3>9, <4>1 DEF Left
      <4> QED BY <2>1, <3>1, <3>2, <3>4, <3>7, <4>1, <4>2 DEF WholeInv
    <3> QED BY <3>8, <3>9
  <2>9. CASE Send
    <3>1. peer = "api" /\ UNCHANGED <<rx, event, pt, cmd, writes, done, peer>>
        BY <2>1, <2>9 DEF Send, decoder, stack, link
    <3>2. PICK m \in Messages : m[1] # VERIFY_COMPLETED /\ net' = net \o m
        BY <2>9, <3>1 DEF Send
    <3>3. /\ m \in Seq(Nat) /\ m # <<>> /\ m[1] # 0
          /\ m[1] \in Cmds => Len(m) = 1 + Fields[m[1]]
        BY MessagesAssumption DEF WholeMessages
    <3>4. Pending' = Pending \o m /\ Pending \in Seq(Nat)
      <4>1. rx \o (net \o m) = (rx \o net) \o m BY <1>0, <3>3, Associative
      <4>2. Pending' = rx \o (net \o m) BY <3>1, <3>2 DEF Pending
      <4>3. Pending \in Seq(Nat) BY <1>0, ConcatProperties DEF Pending
      <4> QED BY <4>1, <4>2, <4>3 DEF Pending
    <3>5. Left' = Left /\ (cmd \in Cmds \cup {0} => Left \in Nat)
        BY <1>0, <1>4, <2>1, <3>1, FieldsFacts DEF Left
    <3>6. cmd \in Cmds \cup {0} => Whole(Pending', Left')
        BY <2>1, <3>2, <3>3, <3>4, <3>5, WholeMore
    <3> QED BY <2>1, <3>1, <3>6 DEF WholeInv
  <2> QED BY <1>1, <1>5, <1>6, <2>2, <2>3, <2>4, <2>5, <2>6, <2>7, <2>8, <2>9
<1>9. Open /\ ~LoginTime /\ (Command \/ PacketEnds \/ ConnectedEnds \/ KernelTakes \/ OnWriteCb
          \/ OnRead \/ LoginVersion \/ PacketId \/ PacketToken \/ Greet \/ Send) => state = AUTHED
    BY <1>0 DEF Command, PacketEnds, ConnectedEnds, KernelTakes, OnWriteCb, OnWritten, OnRead,
                LoginVersion, PacketId, PacketToken, Greet, Send
<1> QED BY <1>1, <1>5, <1>6, <1>7, <1>8, <1>9

(* The requests only lose their oldest, and keep their order.                 *)
LEMMA OncePop ==
    ASSUME writes \in Seq(Requests), writes # <<>>, writes' = Tail(writes), StartOnce,
           \/ state' # READY
           \/ state' = state
           \/ Head(writes) = "start"
    PROVE  StartOnce'
<1>1. /\ Len(writes) \in Nat \ {0} /\ DOMAIN writes = 1..Len(writes)
      /\ Tail(writes) \in Seq(Requests) /\ DOMAIN Tail(writes) = 1..Len(Tail(writes))
    BY EmptySeq, LenProperties, HeadTailProperties
<1>2. /\ Len(Tail(writes)) = Len(writes) - 1 /\ Head(writes) = writes[1]
      /\ \A i \in 1..Len(Tail(writes)) : Tail(writes)[i] = writes[i + 1]
    BY HeadTailProperties
<1>3. ASSUME NEW i \in DOMAIN writes', writes'[i] = "start"
      PROVE  state' # READY /\ \A j \in 1..i - 1 : writes'[j] = "logon"
  <2>1. i \in 1..Len(Tail(writes)) BY <1>1, <1>3
  <2>2. i + 1 \in DOMAIN writes /\ writes[i + 1] = "start" BY <1>1, <1>2, <1>3, <2>1
  <2>3. state # READY /\ \A j \in 1..i + 1 - 1 : writes[j] = "logon" BY <2>2 DEF StartOnce
  <2>4. Head(writes) = "logon" BY <1>2, <2>1, <2>3
  <2>5. state' # READY BY <2>3, <2>4
  <2>6. ASSUME NEW j \in 1..i - 1 PROVE writes'[j] = "logon"
    <3>1. j \in 1..Len(Tail(writes)) /\ j + 1 \in 1..i + 1 - 1 BY <1>1, <2>1
    <3> QED BY <1>2, <2>3, <3>1
  <2> QED BY <2>5, <2>6
<1> QED BY <1>3 DEF StartOnce

(* A request is added at the end.                                             *)
LEMMA OnceAppend ==
    ASSUME writes \in Seq(Requests), NEW r \in Requests, writes' = Append(writes, r), StartOnce,
           state' # READY \/ state' = state,
           r = "start" => state' # READY /\ \A i \in DOMAIN writes : writes[i] = "logon"
    PROVE  StartOnce'
<1>1. /\ Len(writes') = Len(writes) + 1 /\ Len(writes) \in Nat
      /\ writes'[Len(writes) + 1] = r
      /\ \A j \in 1..Len(writes) : writes'[j] = writes[j]
      /\ DOMAIN writes = 1..Len(writes) /\ DOMAIN writes' = 1..Len(writes')
    BY AppendProperties, LenProperties
<1>2. ASSUME NEW i \in DOMAIN writes', writes'[i] = "start"
      PROVE  state' # READY /\ \A j \in 1..i - 1 : writes'[j] = "logon"
  <2>1. CASE i = Len(writes) + 1
    <3>1. state' # READY /\ \A j \in DOMAIN writes : writes[j] = "logon" BY <1>1, <1>2, <2>1
    <3> QED BY <1>1, <2>1, <3>1
  <2>2. CASE i # Len(writes) + 1
    <3>1. i \in DOMAIN writes /\ writes[i] = "start" BY <1>1, <1>2, <2>2
    <3>2. state # READY /\ \A j \in 1..i - 1 : writes[j] = "logon" BY <3>1 DEF StartOnce
    <3> QED BY <1>1, <2>2, <3>1, <3>2
  <2> QED BY <2>1, <2>2
<1> QED BY <1>2 DEF StartOnce

LEMMA StartOnceStep ==
    ASSUME TypeOK, DecoderInv, StartInv, StartOnce, [Next]_vars
    PROVE  StartOnce'
<1> USE DEF vars, fields, decoder, stack, link, world, server,
        CLOSED, DISCONNECTING, CONNECTING, CONNECTED, AUTHED, READY
<1>0. /\ state \in 1..6 /\ writes \in Seq(Requests) /\ done \in 0..Len(writes)
    BY DataTypes
<1>1. Running => GreetInv /\ WholeInv /\ OpenInv
    BY DEF StartInv, DecoderInv
<1>2. UNCHANGED writes /\ (state' # READY \/ state' = state) => StartOnce'
    BY DEF StartOnce
<1>3. CASE EnableReconnect \/ DisableReconnect \/ Connect \/ ConnectBadAddress \/ Close \/ Stop \/ Destroy
    BY <1>2, <1>3 DEF EnableReconnect, DisableReconnect, Connect, Dial, ConnectBadAddress, Close,
                      Stop, Destroy, CloseBegins
<1>4. CASE Command
  <2>1. UNCHANGED state /\ (writes' = Append(writes, "command") \/ UNCHANGED writes)
      BY <1>4 DEF Command, Write
  <2> QED BY <1>0, <1>2, <2>1, OnceAppend DEF Requests
<1>5. CASE CloseEnds \/ PacketEnds \/ LoginErrorEnds \/ ConnectedEnds
    BY <1>2, <1>5 DEF CloseEnds, PacketEnds, LoginErrorEnds, CloseBegins, ConnectedEnds
<1>6. CASE NextPhase \/ ReconnectTimerCb \/ OnFailure \/ KernelTakes
  <2>1. NextPhase \/ OnFailure \/ KernelTakes => UNCHANGED writes /\ (state' # READY \/ state' = state)
      BY DEF NextPhase, OnFailure, CloseBegins, KernelTakes
  <2>2. Dial(FALSE) => UNCHANGED writes /\ (state' # READY \/ state' = state)
      BY DEF Dial, ReconnectStart, DecodeReset
  <2>3. ReconnectTimerCb => UNCHANGED writes /\ (state' # READY \/ state' = state)
      BY <2>2 DEF ReconnectTimerCb
  <2> QED BY <1>2, <1>6, <2>1, <2>3
<1>7. CASE OnConnect
  <2>1. state' # READY /\ writes' = Append(writes, "logon") BY <1>7 DEF OnConnect
  <2> QED BY <1>0, <2>1, OnceAppend DEF Requests
<1>8. CASE OnWriteCb
  <2>1. writes # <<>> /\ writes' = Tail(writes) /\ (state' = state \/ Head(writes) = "start")
      BY <1>8 DEF OnWriteCb, OnWritten
  <2> QED BY <1>0, <2>1, OncePop
<1>9. CASE OnWriteError
  <2>1. writes # <<>> /\ writes' = Tail(writes) /\ (state' = state \/ state' # READY)
      BY <1>9 DEF OnWriteError, OnWriteFailed, CloseBegins
  <2> QED BY <1>0, <2>1, OncePop
<1>10. CASE FinishWrite
  <2>1. /\ writes # <<>> /\ writes' = Tail(writes)
        /\ state' = state \/ state' # READY \/ Head(writes) = "start"
      BY <1>10 DEF FinishWrite, OnWriteFailed, OnWritten, CloseBegins
  <2> QED BY <1>0, <2>1, OncePop
<1>11. CASE OnRead \/ ReadEnds \/ LoginVersion \/ PacketId \/ UnknownPacket
    BY <1>2, <1>11 DEF OnRead, ReadEnds, LoginVersion, PacketId, UnknownPacket
<1>12. CASE LoginTime
  <2>1. /\ Running /\ ~disc /\ event = "none" /\ pt.owner = LOGIN /\ state < AUTHED
        /\ state' = state \/ state' = AUTHED
      BY <1>12 DEF LoginTime, NextToken, Continues
  <2>2. UNCHANGED writes \/ (socket = "stream" /\ state' = AUTHED /\ writes' = Append(writes, "start"))
      BY <1>12 DEF LoginTime, StartAPI, Write
  <2>3. CASE UNCHANGED writes BY <1>2, <2>1, <2>3
  <2>4. CASE socket = "stream" /\ state' = AUTHED /\ writes' = Append(writes, "start")
    <3>1. writes \in {<<>>, <<"logon">>} BY <1>1, <2>1, <2>4 DEF GreetInv, Open
    <3>2. \A i \in DOMAIN writes : writes[i] = "logon" BY <3>1
    <3> QED BY <1>0, <2>4, <3>2, OnceAppend DEF Requests
  <2> QED BY <2>2, <2>3, <2>4
<1>13. CASE PacketToken
  <2>1. /\ Running /\ ~disc /\ UNCHANGED state /\ state >= AUTHED
      BY <1>13 DEF PacketToken, NextToken, Continues
  <2>2. UNCHANGED writes
    <3> SUFFICES ASSUME writes' # writes PROVE FALSE OBVIOUS
    <3>1. cmd = VERIFY_COMPLETED /\ socket = "stream" /\ ~(state > AUTHED)
        BY <1>13 DEF PacketToken, StartAPI, Write
    <3>2. state = AUTHED BY <1>0, <2>1, <3>1
    <3> QED BY <1>1, <2>1, <3>1, <3>2 DEF WholeInv, Open
  <2> QED BY <1>2, <2>1, <2>2
<1>14. CASE FinishClose \/ OnCloseCb \/ Greet \/ Send \/ UNCHANGED vars
    BY <1>2, <1>14 DEF FinishClose, OnCloseCb, Greet, Send
<1> QED BY <1>3, <1>4, <1>5, <1>6, <1>7, <1>8, <1>9, <1>10, <1>11, <1>12, <1>13, <1>14
        DEF Next, UserCall, Returns, Decode, Finish

(* tws_client_startAPI is called once for a connection and nothing but the    *)
(* logon is written before it, in any environment, when TWS answers with      *)
(* whole packets: VERIFY_COMPLETED calls it again, but TWS sends that only    *)
(* when it was asked, after the API was started.                              *)
THEOREM StartsOnce ==
    ASSUME WholeMessages
    PROVE  Spec => []StartOnce
<1>1. TypeOK /\ DecoderInv /\ [Next]_vars => DecoderInv'
    BY DecoderStep
<1>2. TypeOK /\ TypeOK' /\ DecoderInv /\ StartInv /\ [Next]_vars => StartInv'
    BY ConnStep, GreetStep, WholeStep DEF StartInv
<1>3. TypeOK /\ DecoderInv /\ StartInv /\ StartOnce /\ [Next]_vars => StartOnce'
    BY StartOnceStep
<1>4. Init => StartInv /\ StartOnce
    BY StartInit
<1> QED BY TypeCorrect, DecoderInit, <1>1, <1>2, <1>3, <1>4, PTL DEF Spec
================================================================================
