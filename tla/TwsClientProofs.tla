---------------------------- MODULE TwsClientProofs ----------------------------
(* Theorems about TwsClient for every value of its constants.                 *)
EXTENDS TwsClient, SequenceTheorems, TLAPS

--------------------------------------------------------------------------------
(* The environment in which the state of the client, libuv's socket and the    *)
(* call stack agree: the runs client_late_write and client_close_in_read show *)
(* what the two behaviours left out do to them.                               *)
Calm == "late_write" \notin Env /\ "close_in_read" \notin Env

(* ... and the one in which the reconnect timer agrees with them as well: the *)
(* runs client_reinit and client_bad_address show what four of the others     *)
(* lead to, and destroy_with_timer frees a timer that is armed.               *)
Disciplined ==
    /\ Calm
    /\ "dial_open" \notin Env /\ "dial_with_timer" \notin Env /\ "bad_with_timer" \notin Env
    /\ "enable_with_timer" \notin Env /\ "destroy_with_timer" \notin Env

(* The state field says what libuv does with the socket.                      *)
SocketInv ==
    /\ state = CLOSED => socket \in {"none", "leaked"}
    /\ state = DISCONNECTING => IF disc THEN socket \in {"connecting", "stream"}
                                        ELSE socket = "closing"
    /\ state = CONNECTING => socket = "connecting"
    /\ state > CONNECTING => socket = "stream"
    /\ disc => state = DISCONNECTING
    /\ process # "abort"

(* Where the call stack can stand in each state.                              *)
StackInv ==
    /\ done = 0
    /\ handler = "finish" => socket = "closing" /\ event = "none"
    /\ handler # "none" => state \notin {CLOSED, CONNECTING}
    /\ event # "none" => state \notin {CLOSED, CONNECTING}
    /\ handler # "read" => rx = <<>>
    /\ state = DISCONNECTING => rx = <<>>
    /\ event \in {"conn", "data"} => state # CONNECTED
    /\ event = "conn" => handler = "none"
    /\ event = "err" => rx = <<>> /\ state \in {CONNECTED, DISCONNECTING}

(* The reconnect timer is armed only for a client that may dial, and no handle*)
(* is initialised while it is in use.                                         *)
TimerInv ==
    /\ process # "corrupt"
    /\ reconnect_timer => enable_reconnect /\ ~free_flag /\ state = CLOSED
    /\ freed => free_flag /\ state = CLOSED

(* What the server has sent of its greeting, and the client not decoded.      *)
Pending == rx \o net
IsGreeting(s) ==
    \/ s = <<>>
    \/ Len(s) = 1 /\ s[1] < OLD_SERVER
    \/ Len(s) = 2 /\ s[1] >= OLD_SERVER

LoginInv ==
    /\ socket # "stream" => net = <<>> /\ peer = "silent"
    /\ socket \in {"none", "leaked", "connecting"} => writes = <<>>
    /\ state = CONNECTING => pt.owner = NOBODY
    /\ Running /\ state = CONNECTED =>
          /\ \/ writes = <<"logon">> /\ peer = "silent"
             \/ writes = <<>> /\ peer \in {"logon", "greeted"}
          /\ peer # "greeted" => Pending = <<>> /\ pt.owner # LOGIN /\ event = "none"
          /\ event = "err" => Pending = <<>>
          /\ event = "none" /\ pt.owner = LOGIN => Len(Pending) = 1
          /\ event = "none" /\ pt.owner # LOGIN => IsGreeting(Pending)

StateInv == TypeOK /\ SocketInv /\ StackInv /\ LoginInv
LifecycleInv == StateInv /\ TimerInv

--------------------------------------------------------------------------------
(* Type correctness, in any environment.                                      *)
LEMMA TypeInit == Init => TypeOK
<1> SUFFICES ASSUME Init PROVE TypeOK
    OBVIOUS
<1>1. FlagsOK BY Zenon DEF Init, FlagsOK
<1>2. DataOK
    BY BoundsAssumption DEF Init, DataOK, PtInit, CLOSED, READY, NOBODY, LOGIN
<1> QED BY <1>1, <1>2 DEF TypeOK

LEMMA FlagsStep == FlagsOK /\ [Next]_vars => FlagsOK'
<1> SUFFICES ASSUME FlagsOK, [Next]_vars PROVE FlagsOK'
    OBVIOUS
<1> USE DEF FlagsOK
<1>1. UNCHANGED <<enable_reconnect, reconnect_timer, free_flag, freed, disc>> => FlagsOK'
    OBVIOUS
<1>2. CASE EnableReconnect
       BY <1>2, Zenon DEF EnableReconnect, fields, decoder, stack, link, world, server
<1>3. CASE DisableReconnect
       BY <1>3, Zenon DEF DisableReconnect, StopReconnecting, fields, decoder, stack, link, world, server
<1>4. CASE Connect
       BY <1>4, Zenon DEF Connect, Dial, ReconnectStart, fields, decoder, stack, link, world, server
<1>5. CASE Stop
       BY <1>5, Zenon DEF Stop, StopReconnecting, CloseBegins, fields, decoder, stack, link, world, server
<1>6. CASE Destroy
       BY <1>6, Zenon DEF Destroy, StopReconnecting, CloseBegins, fields, decoder, stack, link, world, server
<1>7. CASE Close
       BY <1>7, Zenon DEF Close, CloseBegins, fields, decoder, stack, link, world, server
<1>8. CASE ConnectBadAddress
       BY <1>8, Zenon DEF ConnectBadAddress, fields, decoder, stack, link, world, server
<1>9. CASE CloseEnds
       BY <1>9, Zenon DEF CloseEnds, fields, decoder, stack, link, world, server
<1>10. CASE LoginErrorEnds
       BY <1>10, Zenon DEF LoginErrorEnds, CloseBegins, fields, decoder, stack, link, world, server
<1>11. CASE ReconnectTimerCb
       BY <1>11, Zenon DEF ReconnectTimerCb, Dial, ReconnectStart, fields, decoder, stack, link, world, server
<1>12. CASE OnFailure
       BY <1>12, Zenon DEF OnFailure, CloseBegins, fields, decoder, stack, link, world, server
<1>13. CASE OnWriteError
       BY <1>13, Zenon DEF OnWriteError, OnWriteFailed, CloseBegins, fields, decoder, stack, link, world, server
<1>14. CASE FinishWrite
       BY <1>14, Zenon DEF FinishWrite, OnWriteFailed, CloseBegins, fields, decoder, stack, link, world, server
<1>15. CASE OnCloseCb
       BY <1>15, Zenon DEF OnCloseCb, ReconnectStart, fields, decoder, stack, link, world, server
<1>16. CASE Command \/ PacketEnds \/ ConnectedEnds \/ NextPhase \/ OnConnect \/ KernelTakes
       BY <1>16, <1>1, Zenon DEF Command, PacketEnds, ConnectedEnds, NextPhase, OnConnect, KernelTakes,
          fields, decoder, stack, link, world, server
<1>17. CASE OnWriteCb \/ OnRead \/ ReadEnds \/ FinishClose \/ Greet \/ Send
       BY <1>17, <1>1, Zenon DEF OnWriteCb, OnRead, ReadEnds, FinishClose, Greet, Send,
          fields, decoder, stack, link, world, server
<1>18. CASE Decode
       BY <1>18, <1>1, Zenon DEF Decode, LoginVersion, LoginTime, PacketId, UnknownPacket, PacketToken,
          fields, decoder, stack, link, world, server
<1>19. CASE UNCHANGED vars
       BY <1>19, <1>1, Zenon DEF vars, fields, decoder, stack, link, world, server
<1> QED BY <1>2, <1>3, <1>4, <1>5, <1>6, <1>7, <1>8, <1>9, <1>10, <1>11, <1>12, <1>13, <1>14, <1>15, <1>16, <1>17, <1>18, <1>19
        DEF Next, UserCall, Returns, Finish

(* A request the client writes keeps the write queue well formed.             *)
Requests == {"logon", "start", "command"}

LEMMA WriteType ==
    ASSUME writes \in Seq(Requests), done \in 0..Len(writes), NEW r \in Requests,
           Write(r) \/ UNCHANGED link
    PROVE  writes' \in Seq(Requests) /\ done' \in 0..Len(writes')
<1>1. Len(writes) \in Nat
    BY LenProperties
<1>2. Append(writes, r) \in Seq(Requests) /\ Len(Append(writes, r)) = Len(writes) + 1
    BY AppendProperties
<1>3. writes' \in {writes, Append(writes, r)} /\ done' = done
    BY DEF Write, link
<1> QED BY <1>1, <1>2, <1>3

(* ... and so does the callback of the oldest one.                             *)
LEMMA PopType ==
    ASSUME writes \in Seq(Requests), writes # <<>>, done \in 0..Len(writes),
           writes' = Tail(writes), done' = IF done > 0 THEN done - 1 ELSE done
    PROVE  writes' \in Seq(Requests) /\ done' \in 0..Len(writes')
<1>1. Len(writes) \in Nat \ {0}
    BY EmptySeq
<1>2. Tail(writes) \in Seq(Requests) /\ Len(Tail(writes)) = Len(writes) - 1
    BY HeadTailProperties
<1>3. done \in Int
    BY <1>1
<1>4. writes' \in Seq(Requests) /\ Len(writes') = Len(writes) - 1
    BY <1>2
<1> HIDE DEF Requests
<1> QED BY <1>1, <1>3, <1>4

LEMMA DataStep == TypeOK /\ [Next]_vars => DataOK'
<1> SUFFICES ASSUME TypeOK, [Next]_vars PROVE DataOK'
    OBVIOUS
<1> USE BoundsAssumption
    DEF TypeOK, DataOK, vars, fields, decoder, stack, link, world, server, CLOSED, DISCONNECTING,
        CONNECTING, CONNECTED, AUTHED, READY, NOBODY, LOGIN, PtInit
<1>1. CASE EnableReconnect BY <1>1 DEF EnableReconnect
<1>2. CASE DisableReconnect BY <1>2 DEF DisableReconnect, StopReconnecting
<1>3. CASE Connect BY <1>3 DEF Connect, Dial, DecodeReset, ReconnectStart
<1>4. CASE ConnectBadAddress BY <1>4 DEF ConnectBadAddress
<1>5. CASE Close BY <1>5 DEF Close, CloseBegins
<1>6. CASE Stop BY <1>6 DEF Stop, StopReconnecting, CloseBegins
<1>7. CASE Destroy BY <1>7 DEF Destroy, StopReconnecting, CloseBegins
<1>8. CASE Command BY <1>8 DEF Command, Write
<1>9. CASE CloseEnds
    <2>1. CASE socket = "closing" BY <1>9, <2>1 DEF CloseEnds
    <2>2. CASE socket # "closing" BY <1>9, <2>2 DEF CloseEnds, UvClose
    <2> QED BY <2>1, <2>2
<1>10. CASE PacketEnds BY <1>10 DEF PacketEnds, DecodeReset
<1>11. CASE LoginErrorEnds BY <1>11 DEF LoginErrorEnds, CloseBegins
<1>12. CASE ConnectedEnds BY <1>12 DEF ConnectedEnds
<1>13. CASE NextPhase BY <1>13 DEF NextPhase
<1>14. CASE ReconnectTimerCb
       BY <1>14 DEF ReconnectTimerCb, NextId, Dial, DecodeReset, ReconnectStart
<1>15. CASE OnConnect BY <1>15 DEF OnConnect
<1>16. CASE OnFailure BY <1>16 DEF OnFailure, CloseBegins
<1>17. CASE KernelTakes BY <1>17 DEF KernelTakes, Arrives
<1>18. CASE OnWriteCb
    <2>2. done' \in 0..Len(writes') /\ writes' \in Seq({"logon", "start", "command"})
        <3>1. writes # <<>> /\ writes' = Tail(writes)
              /\ done' = IF done > 0 THEN done - 1 ELSE done
            BY <1>18 DEF OnWriteCb
        <3> QED BY <3>1, PopType DEF Requests
    <2>3. peer' \in {"silent", "logon", "greeted", "api", "asked"}
        BY <1>18 DEF OnWriteCb, Arrives
    <2>4. state' \in 1..6 /\ event' \in {"none", "conn", "data", "err"}
          /\ process' \in {"running", "exit", "crash", "abort", "corrupt"}
        BY <1>18 DEF OnWriteCb, OnWritten
    <2> QED BY <1>18, <2>2, <2>3, <2>4 DEF OnWriteCb
<1>19. CASE OnWriteError BY <1>19 DEF OnWriteError, OnWriteFailed, CloseBegins
<1>20. CASE OnRead
    <2>1. PICK n \in 1..Len(net) :
              rx' = SubSeq(net, 1, n) /\ net' = SubSeq(net, n + 1, Len(net))
        BY <1>20 DEF OnRead
    <2>2. \A i \in 1..Len(net) : net[i] \in Nat
        BY ElementOfSeq
    <2>3. SubSeq(net, 1, n) \in Seq(Nat) /\ SubSeq(net, n + 1, Len(net)) \in Seq(Nat)
        <3>1. Len(net) \in Nat BY LenProperties
        <3>2. (\A i \in 1..n : net[i] \in Nat) /\ (\A i \in n+1..Len(net) : net[i] \in Nat)
            BY <2>2, <3>1
        <3> QED BY <3>1, <3>2, SubSeqProperties
    <2> QED BY <1>20, <2>1, <2>3 DEF OnRead
<1>21. CASE ReadEnds BY <1>21 DEF ReadEnds
<1>22. CASE LoginVersion BY <1>22 DEF LoginVersion, NextToken
<1>23. CASE LoginTime
    <2>1. writes' \in Seq({"logon", "start", "command"}) /\ done' \in 0..Len(writes')
        <3>1. Write("start") \/ UNCHANGED link
            BY <1>23 DEF LoginTime, StartAPI
        <3> QED BY <3>1, WriteType DEF Requests
    <2>2. rx' \in Seq(Nat)
        <3>1. rx' = Tail(rx) \/ rx' = <<>>
            BY <1>23 DEF LoginTime
        <3>2. <<>> \in Seq(Nat) /\ (rx # <<>> => Tail(rx) \in Seq(Nat))
            BY HeadTailProperties, EmptySeq
        <3>3. rx # <<>>
            BY <1>23 DEF LoginTime, NextToken
        <3> QED BY <3>1, <3>2, <3>3
    <2>3. /\ state' \in 1..6 /\ event' \in {"none", "conn", "data", "err"}
          /\ pt' \in [owner : Nat \cup {-1}, label : Nat] /\ cmd' \in Nat
          /\ UNCHANGED socket
        BY <1>23 DEF LoginTime, DecodeReset, StartAPI, Write
    <2> QED BY <1>23, <2>1, <2>2, <2>3 DEF LoginTime
<1>24. CASE PacketId BY <1>24 DEF PacketId, NextToken
<1>25. CASE UnknownPacket BY <1>25 DEF UnknownPacket
<1>26. CASE PacketToken
    <2>1. writes' \in Seq({"logon", "start", "command"}) /\ done' \in 0..Len(writes')
        <3>1. Write("start") \/ UNCHANGED link
            BY <1>26 DEF PacketToken, StartAPI
        <3> QED BY <3>1, WriteType DEF Requests
    <2>2. rx' \in Seq(Nat)
        BY <1>26, HeadTailProperties DEF PacketToken, NextToken
    <2>3. pt' \in [owner : Nat \cup {-1}, label : Nat] /\ event' \in {"none", "conn", "data", "err"}
        BY <1>26 DEF PacketToken
    <2> QED BY <1>26, <2>1, <2>2, <2>3 DEF PacketToken, StartAPI, Write
<1>27. CASE FinishClose BY <1>27 DEF FinishClose
<1>28. CASE FinishWrite BY <1>28 DEF FinishWrite, OnWriteFailed, OnWritten, CloseBegins
<1>29. CASE OnCloseCb BY <1>29 DEF OnCloseCb, ReconnectStart
<1>30. CASE Greet BY <1>30, VersionsAssumption DEF Greet, TIME, MIN_REQ_SERVER_VERSION
<1>31. CASE Send BY <1>31, MessagesAssumption DEF Send
<1>32. CASE UNCHANGED vars BY <1>32
<1> QED BY <1>1, <1>2, <1>3, <1>4, <1>5, <1>6, <1>7, <1>8, <1>9, <1>10, <1>11, <1>12, <1>13,
           <1>14, <1>15, <1>16, <1>17, <1>18, <1>19, <1>20, <1>21, <1>22, <1>23, <1>24, <1>25,
           <1>26, <1>27, <1>28, <1>29, <1>30, <1>31, <1>32
        DEF Next, UserCall, Returns, Decode, Finish

(* Every variable keeps its type, whatever the user and the network do.       *)
THEOREM TypeCorrect == Spec => []TypeOK
<1>1. TypeOK /\ [Next]_vars => TypeOK'
    BY FlagsStep, DataStep DEF TypeOK
<1> QED BY TypeInit, <1>1, PTL DEF Spec

--------------------------------------------------------------------------------
(* The state invariants are inductive in a calm environment.                  *)
LEMMA LifecycleInit == Init => SocketInv /\ StackInv /\ TimerInv /\ LoginInv
BY DEF Init, Running, SocketInv, StackInv, TimerInv, LoginInv, CLOSED, DISCONNECTING, CONNECTING,
       CONNECTED, AUTHED, READY

(* What is pending when the decoder takes the first token of rx.              *)
LEMMA ConcatToken ==
    ASSUME NEW a \in Seq(Nat), NEW b \in Seq(Nat), a # <<>>
    PROVE  /\ a \o b \in Seq(Nat) /\ a \o b # <<>>
           /\ (a \o b)[1] = Head(a)
           /\ Tail(a) \o b = Tail(a \o b)
           /\ Len(Tail(a \o b)) = Len(a \o b) - 1
           /\ Len(a \o b) \in Nat \ {0}
           /\ Len(a \o b) = 1 => Tail(a) = <<>> /\ b = <<>>
<1>1. Len(a) \in Nat \ {0} /\ Len(b) \in Nat
    BY EmptySeq, LenProperties
<1>2. a \o b \in Seq(Nat) /\ Len(a \o b) = Len(a) + Len(b)
    BY ConcatProperties
<1>3. \A i \in 1..Len(a) + Len(b) : (a \o b)[i] = IF i <= Len(a) THEN a[i] ELSE b[i - Len(a)]
    BY ConcatProperties
<1>4. Tail(a) \in Seq(Nat) /\ Len(Tail(a)) = Len(a) - 1
    BY HeadTailProperties
<1>5. \A i \in 1..Len(Tail(a)) : Tail(a)[i] = a[i + 1]
    BY HeadTailProperties
<1>6. a \o b # <<>>
    BY <1>1, <1>2, ConcatEqualIffEmpty
<1>7. Tail(a \o b) \in Seq(Nat) /\ Len(Tail(a \o b)) = Len(a \o b) - 1
    BY <1>2, <1>6, HeadTailProperties
<1>8. \A i \in 1..Len(Tail(a \o b)) : Tail(a \o b)[i] = (a \o b)[i + 1]
    BY <1>2, <1>6, HeadTailProperties
<1>9. Tail(a) \o b \in Seq(Nat) /\ Len(Tail(a) \o b) = Len(a) - 1 + Len(b)
    BY <1>4, ConcatProperties
<1>10. \A i \in 1..Len(Tail(a)) + Len(b) :
          (Tail(a) \o b)[i] = IF i <= Len(Tail(a)) THEN Tail(a)[i] ELSE b[i - Len(Tail(a))]
    BY <1>4, ConcatProperties
<1>11. Tail(a) \o b = Tail(a \o b)
    <2>1. Len(Tail(a) \o b) = Len(Tail(a \o b))
        BY <1>1, <1>2, <1>7, <1>9
    <2>2. ASSUME NEW i \in 1..Len(Tail(a) \o b)
          PROVE  (Tail(a) \o b)[i] = Tail(a \o b)[i]
        <3> DEFINE m == Len(a)  n == Len(b)
        <3>1. m \in Nat \ {0} /\ n \in Nat
            BY <1>1
        <3>2. i \in 1..(m - 1 + n)
            BY <1>9
        <3>3. /\ Len(Tail(a)) = m - 1
              /\ Tail(a \o b)[i] = (a \o b)[i + 1]
            BY <1>4, <1>8, <2>1
        <3>4. (Tail(a) \o b)[i] = IF i <= m - 1 THEN Tail(a)[i] ELSE b[i - (m - 1)]
            BY <1>10, <3>2, <3>3
        <3>5. (a \o b)[i + 1] = IF i + 1 <= m THEN a[i + 1] ELSE b[i + 1 - m]
            <4>1. i + 1 \in 1..m + n
                BY <3>1, <3>2
            <4> QED BY <1>3, <4>1
        <3>6. i <= m - 1 => Tail(a)[i] = a[i + 1]
            <4>1. i <= m - 1 => i \in 1..m - 1
                BY <3>1, <3>2
            <4> QED BY <1>5, <3>3, <4>1
        <3> HIDE DEF m, n
        <3>7. (i <= m - 1 <=> i + 1 <= m) /\ i - (m - 1) = i + 1 - m
            BY <3>1, <3>2
        <3> QED BY <3>3, <3>4, <3>5, <3>6, <3>7
    <2> QED BY <1>7, <1>9, <2>1, <2>2, SeqEqual
<1>12. Len(a \o b) = 1 => Tail(a) = <<>> /\ b = <<>>
    <2>1. Len(a \o b) = 1 => Len(Tail(a)) = 0 /\ Len(b) = 0
        <3> DEFINE m == Len(a)  n == Len(b)
        <3>1. m \in Nat \ {0} /\ n \in Nat
            BY <1>1
        <3> HIDE DEF m, n
        <3>2. m + n = 1 => m - 1 = 0 /\ n = 0
            BY <3>1
        <3> QED BY <1>2, <1>4, <3>2 DEF m, n
    <2> QED BY <2>1, <1>4, EmptySeq
<1>13. (a \o b)[1] = Head(a)
    <2>1. 1 \in 1..Len(a) + Len(b) /\ 1 <= Len(a)
        BY <1>1
    <2>2. Head(a) = a[1]
        BY <1>1
    <2> QED BY <1>3, <2>1, <2>2
<1>14. Len(a \o b) \in Nat \ {0}
    BY <1>1, <1>2
<1> QED BY <1>2, <1>6, <1>7, <1>11, <1>12, <1>13, <1>14

LEMMA PendingToken ==
    ASSUME rx \in Seq(Nat), net \in Seq(Nat), rx # <<>>
    PROVE  /\ Pending \in Seq(Nat) /\ Pending # <<>> /\ Len(Pending) \in Nat \ {0}
           /\ Pending[1] = Head(rx)
           /\ Tail(rx) \o net = Tail(Pending) /\ Len(Tail(Pending)) = Len(Pending) - 1
           /\ Len(Pending) = 1 => Tail(rx) = <<>> /\ net = <<>>
BY ConcatToken DEF Pending

\* Nothing happens in a process that has ended.
LEMMA RunningActs == [Next]_vars => UNCHANGED vars \/ Running
<1> USE DEF UserRuns, Idle, Continues, NextToken
<1> SUFFICES ASSUME Next PROVE Running
    OBVIOUS
<1>1. CASE UserCall
    BY <1>1, Zenon DEF UserCall, EnableReconnect, DisableReconnect, Connect, ConnectBadAddress,
        Close, Stop, Destroy, Command
<1>2. CASE Returns
    BY <1>2, Zenon DEF Returns, CloseEnds, PacketEnds, LoginErrorEnds, ConnectedEnds
<1>3. CASE NextPhase \/ ReconnectTimerCb \/ OnConnect \/ OnFailure \/ KernelTakes \/ OnWriteCb
    BY <1>3, Zenon DEF NextPhase, ReconnectTimerCb, OnConnect, OnFailure, KernelTakes, OnWriteCb
<1>4. CASE OnWriteError \/ OnRead \/ ReadEnds \/ Decode
    BY <1>4, Zenon DEF OnWriteError, OnRead, ReadEnds, Decode, LoginVersion, LoginTime, PacketId,
        UnknownPacket, PacketToken
<1>5. CASE FinishClose \/ Finish \/ Greet \/ Send
    BY <1>5, Zenon DEF FinishClose, Finish, FinishWrite, OnCloseCb, Greet, Send
<1> QED BY <1>1, <1>2, <1>3, <1>4, <1>5, Zenon DEF Next

LEMMA SocketStep ==
    ASSUME Calm, TypeOK, SocketInv, StackInv, LoginInv, [Next]_vars
    PROVE  SocketInv' /\ StackInv'
<1> USE DEF Calm, SocketInv, StackInv,
        vars, fields, decoder, stack, link, world, server,
        CLOSED, DISCONNECTING, CONNECTING, CONNECTED, AUTHED, READY
<1>0. /\ state \in 1..6 /\ socket \in {"none", "leaked", "connecting", "stream", "closing"}
      /\ handler \in {"none", "read", "finish"} /\ event \in {"none", "conn", "data", "err"}
    BY DEF TypeOK, DataOK
<1>1. CASE EnableReconnect BY <1>0, <1>1 DEF EnableReconnect, UserRuns
<1>2. CASE DisableReconnect BY <1>0, <1>2 DEF DisableReconnect, UserRuns, StopReconnecting
<1>3. CASE Connect
    <2>1. Dial(reconnect_timer) /\ UNCHANGED stack
        BY <1>3 DEF Connect
    <2>2. CASE state \in {CLOSED}
        <3>1. event = "none" /\ handler = "none" /\ ~disc /\ rx = <<>>
            BY <1>0, <2>2
        <3> QED BY <1>0, <2>1, <2>2, <3>1 DEF Dial
    <2>3. CASE state # CLOSED
        <3>1. socket \notin {"none", "leaked"}
            BY <1>0, <2>3
        <3>2. UNCHANGED <<state, socket, link>> /\ process' = "corrupt"
            BY <2>1, <3>1, Zenon DEF Dial
        <3> QED BY <1>0, <2>1, <2>3, <3>2
    <2> QED BY <2>2, <2>3
<1>4. CASE ConnectBadAddress BY <1>0, <1>4 DEF ConnectBadAddress, UserRuns
<1>5. CASE Close BY <1>0, <1>5 DEF Close, UserRuns, MayClose, CloseBegins, Running
<1>6. CASE Stop
       BY <1>0, <1>6 DEF Stop, UserRuns, MayClose, StopReconnecting, CloseBegins, Running
<1>7. CASE Destroy
       BY <1>0, <1>7 DEF Destroy, UserRuns, MayClose, NothingToClose, StopReconnecting, CloseBegins, Running
<1>8. CASE Command BY <1>0, <1>8 DEF Command, UserRuns, Write, Running
<1>9. CASE CloseEnds BY <1>0, <1>9 DEF CloseEnds, UvClose, Running
<1>10. CASE PacketEnds BY <1>0, <1>10 DEF PacketEnds
<1>11. CASE LoginErrorEnds BY <1>0, <1>11 DEF LoginErrorEnds, CloseBegins
<1>12. CASE ConnectedEnds BY <1>0, <1>12 DEF ConnectedEnds
<1>13. CASE NextPhase BY <1>0, <1>13 DEF NextPhase
<1>14. CASE ReconnectTimerCb
    <2>1. /\ handler = "none" /\ event = "none" /\ ~disc /\ UNCHANGED stack
          /\ Running
        BY <1>14 DEF ReconnectTimerCb, Idle
    <2>2. CASE Dial(FALSE)
        <3>1. CASE socket \in {"none", "leaked"}
            <4>1. (state' = CONNECTING /\ socket' = "connecting") \/ (state' = CLOSED /\ socket' = "leaked")
                BY <2>2, <3>1, Zenon DEF Dial
            <4>2. process' = process /\ done' = done
                BY <2>2, <3>1, Zenon DEF Dial
            <4> QED BY <2>1, <4>1, <4>2
        <3>2. CASE socket \notin {"none", "leaked"}
            <4>1. UNCHANGED <<state, socket, link>> /\ process' = "corrupt"
                BY <2>2, <3>2, Zenon DEF Dial
            <4> QED BY <1>0, <2>1, <4>1
        <3> QED BY <3>1, <3>2
    <2>3. CASE UNCHANGED <<state, link>> /\ process' \in {"crash", process}
        BY <1>0, <2>1, <2>3
    <2> QED BY <1>14, <2>2, <2>3, Zenon DEF ReconnectTimerCb
<1>15. CASE OnConnect BY <1>0, <1>15 DEF OnConnect, Idle
<1>16. CASE OnFailure BY <1>0, <1>16 DEF OnFailure, Idle, CloseBegins
<1>17. CASE KernelTakes BY <1>0, <1>17 DEF KernelTakes
<1>18. CASE OnWriteCb BY <1>0, <1>18 DEF OnWriteCb, Idle, OnWritten
<1>19. CASE OnWriteError BY <1>0, <1>19 DEF OnWriteError, Idle, OnWriteFailed, CloseBegins
<1>20. CASE OnRead BY <1>0, <1>20 DEF OnRead, Idle
<1>21. CASE ReadEnds BY <1>0, <1>21 DEF ReadEnds, Continues
<1>22. CASE LoginVersion
    <2>1. state = CONNECTED /\ rx # <<>> /\ event = "none" /\ handler = "read" /\ Running
        BY <1>0, <1>22 DEF LoginVersion, NextToken, Continues
    <2>2. rx' = Tail(rx) /\ IsGreeting(Pending)
        BY <1>22, <2>1 DEF LoginVersion, LoginInv
    <2>3. rx \in Seq(Nat) /\ net \in Seq(Nat)
        BY DEF TypeOK, DataOK
    <2>4. CASE Head(rx) >= OLD_SERVER
        BY <1>22, <2>1, <2>4 DEF LoginVersion
    <2>5. CASE ~(Head(rx) >= OLD_SERVER)
        <3>1. Len(Pending) = 1
            BY <2>1, <2>2, <2>3, <2>5, PendingToken DEF IsGreeting
        <3>2. rx' = <<>>
            BY <2>1, <2>2, <2>3, <3>1, PendingToken
        <3> QED BY <1>22, <2>1, <2>5, <3>2 DEF LoginVersion
    <2> QED BY <2>4, <2>5
<1>23. CASE LoginTime
    <2>1. state = CONNECTED /\ rx # <<>> /\ event = "none" /\ handler = "read" /\ Running
        BY <1>0, <1>23 DEF LoginTime, NextToken, Continues
    <2>2. rx' = <<>>
        BY <1>23, <2>1, PendingToken DEF LoginTime, LoginInv, TypeOK, DataOK
    <2> QED BY <1>23, <2>1, <2>2 DEF LoginTime, StartAPI, Write
<1>24. CASE PacketId BY <1>0, <1>24 DEF PacketId, NextToken, Continues
<1>25. CASE UnknownPacket BY <1>0, <1>25 DEF UnknownPacket, NextToken, Continues
<1>26. CASE PacketToken BY <1>0, <1>26 DEF PacketToken, NextToken, Continues, StartAPI, Write
<1>27. CASE FinishClose BY <1>0, <1>27 DEF FinishClose, Idle
<1>28. CASE FinishWrite BY <1>0, <1>28 DEF FinishWrite, Continues, OnWriteFailed, CloseBegins
<1>29. CASE OnCloseCb
    <2>1. /\ state' = CLOSED /\ socket' = "none" /\ handler' = "none" /\ rx = <<>>
          /\ event = "none" /\ ~disc
          /\ UNCHANGED <<done, process, disc, rx, event>>
        BY <1>0, <1>29 DEF OnCloseCb, Continues
    <2> QED BY <2>1
<1>30. CASE Greet BY <1>0, <1>30 DEF Greet
<1>31. CASE Send BY <1>0, <1>31 DEF Send
<1>32. CASE UNCHANGED vars BY <1>32
<1> QED BY <1>1, <1>2, <1>3, <1>4, <1>5, <1>6, <1>7, <1>8, <1>9, <1>10, <1>11, <1>12, <1>13,
           <1>14, <1>15, <1>16, <1>17, <1>18, <1>19, <1>20, <1>21, <1>22, <1>23, <1>24,
           <1>25, <1>26, <1>27, <1>28, <1>29, <1>30, <1>31, <1>32
        DEF Next, UserCall, Returns, Decode, Finish

\* A dial starts with an empty label, or it leaves nothing running to decode for.
LEMMA DialLogin ==
    ASSUME NEW armed, Dial(armed), UNCHANGED stack, UNCHANGED server,
           TypeOK, SocketInv, StackInv, LoginInv
    PROVE  LoginInv'
<1> USE DEF SocketInv, StackInv, LoginInv, stack, server, CLOSED, DISCONNECTING, CONNECTING,
        CONNECTED, AUTHED, READY, NOBODY
<1>0. state \in 1..6 /\ socket \in {"none", "leaked", "connecting", "stream", "closing"}
    BY DEF TypeOK, DataOK
<1>1. pt'.owner = NOBODY /\ UNCHANGED <<writes, rx, net, peer, event>>
    BY DEF Dial, DecodeReset, PtInit
<1>2. CASE socket \in {"none", "leaked"}
    <2>1. state' \in {CONNECTING, CLOSED} /\ socket' \in {"connecting", "leaked"}
        BY <1>2 DEF Dial
    <2>2. writes = <<>> /\ net = <<>> /\ peer = "silent"
        BY <1>2
    <2> QED BY <1>1, <2>1, <2>2
<1>3. CASE socket \notin {"none", "leaked"}
    <2>1. UNCHANGED <<state, socket>> /\ ~Running'
        BY <1>3 DEF Dial, Running
    <2> QED BY <1>1, <2>1
<1> QED BY <1>2, <1>3

LEMMA LoginStep ==
    ASSUME Calm, TypeOK, TypeOK', SocketInv, StackInv, LoginInv, [Next]_vars
    PROVE  LoginInv'
<1> USE DEF Calm, LoginInv, vars, fields, decoder, stack, link, world, server,
        CLOSED, DISCONNECTING, CONNECTING, CONNECTED, AUTHED, READY, NOBODY, LOGIN
<1>0. /\ state \in 1..6 /\ socket \in {"none", "leaked", "connecting", "stream", "closing"}
      /\ handler \in {"none", "read", "finish"} /\ event \in {"none", "conn", "data", "err"}
      /\ rx \in Seq(Nat) /\ net \in Seq(Nat)
    BY DEF TypeOK, DataOK
<1>a. UNCHANGED <<rx, net>> => Pending' = Pending
    BY DEF Pending
<1>b. CASE UNCHANGED vars
    BY <1>a, <1>b DEF Running
<1>r. SUFFICES ASSUME Next, Running, process = "running" PROVE LoginInv'
    BY <1>b, RunningActs, Zenon DEF Running
<1>1. CASE EnableReconnect
       BY <1>0, <1>a, <1>r, <1>1 DEF EnableReconnect, UserRuns, SocketInv, StackInv
<1>2. CASE DisableReconnect
       BY <1>0, <1>a, <1>r, <1>2 DEF DisableReconnect, UserRuns, SocketInv, StackInv
<1>3. CASE Connect
    <2>1. Dial(reconnect_timer) /\ UNCHANGED stack /\ UNCHANGED server
        BY <1>3 DEF Connect
    <2> QED BY <1>0, <2>1, DialLogin
<1>4. CASE ConnectBadAddress
       BY <1>0, <1>a, <1>r, <1>4 DEF ConnectBadAddress, UserRuns, SocketInv, StackInv
<1>5. CASE Close
       BY <1>0, <1>a, <1>r, <1>5 DEF Close, UserRuns, CloseBegins, Running, SocketInv, StackInv
<1>6. CASE Stop
       BY <1>0, <1>a, <1>r, <1>6 DEF Stop, UserRuns, CloseBegins, Running, SocketInv, StackInv
<1>7. CASE Destroy
       BY <1>0, <1>a, <1>r, <1>7 DEF Destroy, UserRuns, CloseBegins, Running, SocketInv, StackInv
<1>8. CASE Command
       BY <1>0, <1>a, <1>r, <1>8 DEF Command, UserRuns, Write, Running, SocketInv, StackInv
<1>9. CASE CloseEnds
       BY <1>0, <1>a, <1>r, <1>9 DEF CloseEnds, UvClose, Running, SocketInv, StackInv
<1>10. CASE PacketEnds
       BY <1>0, <1>a, <1>r, <1>10 DEF PacketEnds, DecodeReset, PtInit, SocketInv, StackInv
<1>11. CASE LoginErrorEnds
       BY <1>0, <1>a, <1>r, <1>11 DEF LoginErrorEnds, CloseBegins, PtInit, SocketInv, StackInv
<1>12. CASE ConnectedEnds BY <1>0, <1>a, <1>r, <1>12 DEF ConnectedEnds, SocketInv, StackInv
<1>13. CASE NextPhase BY <1>0, <1>a, <1>r, <1>13 DEF NextPhase, SocketInv, StackInv
<1>14. CASE ReconnectTimerCb
    <2>1. UNCHANGED stack /\ UNCHANGED server
        BY <1>14 DEF ReconnectTimerCb
    <2>2. CASE Dial(FALSE)
        BY <1>0, <2>1, <2>2, DialLogin
    <2>3. CASE UNCHANGED <<state, decoder, link>>
        BY <1>0, <1>a, <1>r, <2>1, <2>3
    <2> QED BY <1>14, <2>2, <2>3, Zenon DEF ReconnectTimerCb
<1>15. CASE OnConnect
    <2>1. /\ state = CONNECTING /\ writes = <<>> /\ net = <<>> /\ rx = <<>> /\ event = "none"
          /\ peer = "silent" /\ pt.owner = NOBODY
        BY <1>0, <1>15 DEF OnConnect, Idle, SocketInv, StackInv
    <2>2. /\ writes' = <<"logon">> /\ state' = CONNECTED /\ socket' = "stream"
          /\ net' = <<>> /\ rx' = <<>> /\ event' = "none" /\ peer' = "silent"
          /\ pt'.owner = NOBODY
        BY <1>15, <2>1 DEF OnConnect
    <2>3. Pending' = <<>>
        BY <2>2, ConcatEmptySeq, EmptySeq DEF Pending
    <2>4. IsGreeting(<<>>)
        BY DEF IsGreeting
    <2> QED BY <2>2, <2>3, <2>4
<1>16. CASE OnFailure
       BY <1>0, <1>a, <1>r, <1>16 DEF OnFailure, Idle, CloseBegins, SocketInv, StackInv
<1>17. CASE KernelTakes BY <1>0, <1>a, <1>r, <1>17 DEF KernelTakes, SocketInv, StackInv
<1>18. CASE OnWriteCb
    <2>1. socket = "stream" /\ UNCHANGED <<socket, rx, net, pt>> /\ event = "none"
        BY <1>18 DEF OnWriteCb, Idle
    <2>2. CASE state # CONNECTED
        <3>1. state' # CONNECTED /\ state' # CONNECTING
            BY <1>0, <1>18, <2>1, <2>2 DEF OnWriteCb, OnWritten, SocketInv
        <3> QED BY <2>1, <3>1
    <2>3. CASE state = CONNECTED
        <3>1. writes = <<"logon">> /\ peer = "silent"
            BY <1>r, <1>18, <2>3 DEF OnWriteCb
        <3>2. Head(writes) = "logon" /\ writes' = <<>>
            BY <1>18, <3>1 DEF OnWriteCb
        <3>3. state' = CONNECTED /\ event' = "none"
            BY <1>18, <2>1, <2>3, <3>2 DEF OnWriteCb, OnWritten
        <3>4. peer' = "logon"
            BY <1>18, <3>2 DEF OnWriteCb, Arrives, StackInv
        <3> QED BY <1>r, <1>a, <2>1, <2>3, <3>1, <3>2, <3>3, <3>4
    <2> QED BY <2>2, <2>3
<1>19. CASE OnWriteError
       BY <1>0, <1>a, <1>r, <1>19 DEF OnWriteError, Idle, OnWriteFailed, CloseBegins, SocketInv, StackInv
<1>20. CASE OnRead
    <2>1. rx = <<>> /\ net # <<>> /\ UNCHANGED <<state, event, pt, socket, writes, peer>>
          /\ socket = "stream"
        BY <1>20 DEF OnRead, Idle, StackInv
    <2>2. Pending = net
        BY <1>0, <2>1, ConcatEmptySeq DEF Pending
    <2>3. Pending' = net
        <3>1. PICK n \in 1..Len(net) :
                  rx' = SubSeq(net, 1, n) /\ net' = SubSeq(net, n + 1, Len(net))
            BY <1>20 DEF OnRead
        <3>2. Len(net) \in Nat \ {0}
            BY <1>0, <2>1, EmptySeq
        <3>3. /\ 1 \in 1..Len(net) + 1 /\ n \in 1 - 1..Len(net) /\ Len(net) \in n..Len(net)
            BY <3>2
        <3>4. SubSeq(net, 1, n) \o SubSeq(net, n + 1, Len(net)) = SubSeq(net, 1, Len(net))
            BY <1>0, <3>3, ConcatAdjacentSubSeq
        <3> QED BY <1>0, <3>1, <3>4, SubSeqFull DEF Pending
    <2> QED BY <1>r, <2>1, <2>2, <2>3
<1>21. CASE ReadEnds BY <1>0, <1>a, <1>r, <1>21 DEF ReadEnds, Continues, SocketInv, StackInv
<1>22. CASE LoginVersion
    <2>1. /\ state = CONNECTED /\ rx # <<>> /\ event = "none" /\ pt.owner # LOGIN
          /\ socket = "stream" /\ rx' = Tail(rx)
          /\ UNCHANGED <<state, socket, writes, net, peer>>
        BY <1>0, <1>22 DEF LoginVersion, NextToken, Continues, SocketInv, StackInv
    <2>2. Pending' = Tail(Pending) /\ Pending # <<>> /\ Len(Tail(Pending)) = Len(Pending) - 1
        BY <1>0, <2>1, PendingToken DEF Pending
    <2>3. IsGreeting(Pending) /\ peer = "greeted" /\ Pending[1] = Head(rx)
          /\ Pending \in Seq(Nat)
        BY <1>0, <1>r, <2>1, <2>2, PendingToken
    <2>4. CASE Head(rx) >= OLD_SERVER
        <3>1. Len(Pending) = 2
            BY <2>2, <2>3, <2>4 DEF IsGreeting, OLD_SERVER
        <3>2. Len(Pending') = 1 /\ pt'.owner = LOGIN /\ event' = "none"
            BY <1>22, <2>1, <2>2, <2>4, <3>1 DEF LoginVersion
        <3> QED BY <1>r, <2>1, <2>3, <3>2
    <2>5. CASE ~(Head(rx) >= OLD_SERVER)
        <3>1. Len(Pending) = 1
            BY <2>2, <2>3, <2>5, <1>0, HeadTailProperties, <2>1 DEF IsGreeting, OLD_SERVER
        <3>2. Pending' = <<>>
            BY <2>2, <2>3, <3>1, HeadTailProperties, EmptySeq
        <3>3. event' = "err"
            BY <1>22, <2>5 DEF LoginVersion
        <3> QED BY <1>r, <2>1, <2>3, <3>2, <3>3
    <2> QED BY <2>4, <2>5
<1>23. CASE LoginTime
    <2>1. /\ state = CONNECTED /\ rx # <<>> /\ event = "none" /\ pt.owner = LOGIN
          /\ socket = "stream" /\ UNCHANGED <<net, peer>> /\ socket' = socket
        BY <1>0, <1>23
        DEF LoginTime, NextToken, Continues, StartAPI, Write, SocketInv, StackInv
    <2>2. CASE state' # CONNECTED
        <3>1. state' = AUTHED
            BY <1>23, <2>1, <2>2 DEF LoginTime
        <3> QED BY <2>1, <3>1
    <2>3. CASE state' = CONNECTED
        <3>1. rx' = Tail(rx) /\ event' = "err" /\ UNCHANGED <<writes, pt>>
            BY <1>23, <2>3 DEF LoginTime
        <3>2. Len(Pending) = 1 /\ peer = "greeted"
            BY <1>0, <1>r, <2>1, PendingToken
        <3>3. Tail(rx) = <<>> /\ net = <<>>
            BY <1>0, <2>1, <3>2, PendingToken
        <3>4. Pending' = <<>>
            BY <2>1, <3>1, <3>3, ConcatEmptySeq, EmptySeq DEF Pending
        <3> QED BY <1>r, <2>1, <2>3, <3>1, <3>2, <3>4
    <2> QED BY <2>2, <2>3
<1>24. CASE PacketId
       BY <1>0, <1>a, <1>r, <1>24 DEF PacketId, NextToken, Continues, SocketInv, StackInv
<1>25. CASE UnknownPacket
       BY <1>0, <1>a, <1>r, <1>25 DEF UnknownPacket, NextToken, Continues, SocketInv, StackInv
<1>26. CASE PacketToken
       BY <1>0, <1>a, <1>r, <1>26 DEF PacketToken, NextToken, Continues, StartAPI, Write, SocketInv, StackInv
<1>27. CASE FinishClose
       BY <1>0, <1>a, <1>r, <1>27 DEF FinishClose, Idle, SocketInv, StackInv
<1>28. CASE FinishWrite
       BY <1>0, <1>a, <1>r, <1>28 DEF FinishWrite, Continues, OnWriteFailed, CloseBegins, SocketInv, StackInv
<1>29. CASE OnCloseCb
       BY <1>0, <1>a, <1>r, <1>29 DEF OnCloseCb, Continues, SocketInv, StackInv
<1>30. CASE Greet
    <2>1. /\ peer = "logon" /\ peer' = "greeted" /\ socket = "stream"
          /\ UNCHANGED <<state, socket, writes, rx, event, pt>>
        BY <1>30 DEF Greet
    <2>2. CASE state # CONNECTED
        BY <2>1, <2>2, <1>0 DEF SocketInv
    <2>3. CASE state = CONNECTED
        <3>1. Pending = <<>> /\ pt.owner # LOGIN /\ event = "none" /\ writes = <<>>
            BY <1>r, <2>1, <2>3
        <3>2. rx = <<>>
            BY <1>0, <3>1, ConcatEqualIffEmpty DEF Pending
        <3>3. net' \in Seq(Nat)
            BY DEF TypeOK, DataOK
        <3>4. Pending' = net'
            BY <2>1, <3>2, <3>3, ConcatEmptySeq DEF Pending
        <3>5. IsGreeting(net')
            <4>1. PICK v \in Versions :
                      net' = IF v < OLD_SERVER THEN <<v>> ELSE <<v, TIME>>
                BY <1>30 DEF Greet
            <4>2. v \in Nat
                BY VersionsAssumption
            <4>3. CASE v < OLD_SERVER
                BY <4>1, <4>3 DEF IsGreeting
            <4>4. CASE ~(v < OLD_SERVER)
                BY <4>1, <4>2, <4>4 DEF IsGreeting, OLD_SERVER
            <4> QED BY <4>3, <4>4
        <3> QED BY <1>r, <2>1, <2>3, <3>1, <3>4, <3>5
    <2> QED BY <2>2, <2>3
<1>31. CASE Send BY <1>0, <1>a, <1>r, <1>31 DEF Send, SocketInv, StackInv
<1> QED BY <1>1, <1>2, <1>3, <1>4, <1>5, <1>6, <1>7, <1>8, <1>9, <1>10, <1>11, <1>12, <1>13,
           <1>14, <1>15, <1>16, <1>17, <1>18, <1>19, <1>20, <1>21, <1>22, <1>23, <1>24,
           <1>25, <1>26, <1>27, <1>28, <1>29, <1>30, <1>31, <1>r
        DEF Next, UserCall, Returns, Decode, Finish

LEMMA StateInductive ==
    ASSUME Calm
    PROVE  StateInv /\ [Next]_vars => StateInv'
<1>1. TypeOK /\ [Next]_vars => TypeOK'
    BY FlagsStep, DataStep DEF TypeOK
<1> QED BY <1>1, SocketStep, LoginStep DEF StateInv

(* In a calm environment the state field says what libuv does with the        *)
(* socket, where the call stack can stand and how far the greeting is, however*)
(* often the user connects and whatever its timer does.                       *)
THEOREM StateCorrect ==
    ASSUME Calm
    PROVE  Spec => []StateInv
<1>1. Init => StateInv
    BY TypeInit, LifecycleInit DEF StateInv
<1> QED BY <1>1, StateInductive, PTL DEF Spec

LEMMA TimerStep ==
    ASSUME Disciplined, TypeOK, SocketInv, StackInv, TimerInv, [Next]_vars
    PROVE  TimerInv'
<1> USE DEF Disciplined, Calm, TimerInv, vars, fields, world, CLOSED, DISCONNECTING, CONNECTING
<1>0. /\ state \in 1..6 /\ socket \in {"none", "leaked", "connecting", "stream", "closing"}
      /\ state = CLOSED => socket \in {"none", "leaked"} /\ ~disc
      /\ handler # "none" => state # CLOSED
      /\ event # "none" => state # CLOSED
    BY DEF TypeOK, DataOK, SocketInv, StackInv, READY
<1>1. CASE EnableReconnect
    BY <1>0, <1>1 DEF EnableReconnect, UserRuns
<1>2. CASE DisableReconnect \/ ConnectBadAddress
    BY <1>0, <1>2 DEF DisableReconnect, ConnectBadAddress, StopReconnecting, UserRuns
<1>3. CASE Connect
    <2>1. state = CLOSED /\ ~free_flag /\ ~freed /\ ~reconnect_timer /\ Dial(reconnect_timer)
          /\ UNCHANGED <<enable_reconnect, free_flag, freed>>
        BY <1>3 DEF Connect, UserRuns
    <2>2. socket \in {"none", "leaked"}
        BY <1>0, <2>1
    <2>3. CASE state' = CONNECTING /\ reconnect_timer' = reconnect_timer /\ process' = process
        BY <2>1, <2>3
    <2>4. CASE state' = CLOSED /\ ReconnectStart(reconnect_timer) /\ process' = process
        <3>1. reconnect_timer' => enable_reconnect
            BY <2>1, <2>4, Zenon DEF ReconnectStart
        <3> QED BY <2>1, <2>4, <3>1
    <2> QED BY <2>1, <2>2, <2>3, <2>4, Zenon DEF Dial
<1>4. CASE Close \/ Stop \/ Destroy
    <2>1. CASE CloseBegins
        BY <1>0, <1>4, <2>1
        DEF Close, Stop, Destroy, UserRuns, NothingToClose, CloseBegins, StopReconnecting
    <2>2. CASE Destroy /\ NothingToClose
        BY <1>0, <2>2 DEF Destroy, NothingToClose
    <2> QED BY <1>4, <2>1, <2>2 DEF Close, Stop, Destroy
<1>5. CASE Command \/ PacketEnds \/ ConnectedEnds \/ NextPhase \/ KernelTakes
    BY <1>5 DEF Command, PacketEnds, ConnectedEnds, NextPhase, KernelTakes
<1>6. CASE CloseEnds
    BY <1>0, <1>6 DEF CloseEnds
<1>7. CASE LoginErrorEnds \/ OnFailure \/ OnWriteError
    BY <1>0, <1>7 DEF LoginErrorEnds, OnFailure, OnWriteError, OnWriteFailed, CloseBegins, Idle
<1>8. CASE ReconnectTimerCb
    <2>1. enable_reconnect /\ ~free_flag /\ ~freed /\ state = CLOSED /\ ~(state >= CONNECTING)
        BY <1>8 DEF ReconnectTimerCb
    <2>2. Dial(FALSE) /\ UNCHANGED <<enable_reconnect, free_flag, freed>>
        BY <1>8, <2>1, Zenon DEF ReconnectTimerCb
    <2>3. process' = process /\ (reconnect_timer' => state' = CLOSED)
        BY <1>0, <2>1, <2>2 DEF Dial, ReconnectStart
    <2> QED BY <2>1, <2>2, <2>3
<1>9. CASE OnConnect \/ OnWriteCb
    BY <1>0, <1>9 DEF OnConnect, OnWriteCb, OnWritten
<1>10. CASE OnRead \/ ReadEnds \/ Decode
    BY <1>0, <1>10 DEF OnRead, ReadEnds, Decode, LoginVersion, LoginTime, PacketId, UnknownPacket,
        PacketToken, NextToken, Continues
<1>11. CASE FinishClose \/ Greet \/ Send
    BY <1>11 DEF FinishClose, Greet, Send
<1>12. CASE FinishWrite
    BY <1>0, <1>12 DEF FinishWrite, OnWriteFailed, CloseBegins, Continues, StackInv
<1>13. CASE OnCloseCb
    <2>1. ~reconnect_timer /\ ~freed /\ state' = CLOSED /\ process' = process
          /\ UNCHANGED <<enable_reconnect, free_flag>>
        BY <1>0, <1>13 DEF OnCloseCb, Continues
    <2>2. CASE free_flag
        BY <1>13, <2>1, <2>2 DEF OnCloseCb
    <2>3. CASE ~free_flag
        <3>1. ReconnectStart(reconnect_timer)
            BY <1>13, <2>3 DEF OnCloseCb
        <3>2. ~freed'
            BY <1>13, <2>1, <2>3 DEF OnCloseCb
        <3>3. reconnect_timer' => enable_reconnect
            BY <2>1, <3>1, Zenon DEF ReconnectStart
        <3> QED BY <2>1, <2>3, <3>2, <3>3
    <2> QED BY <2>2, <2>3
<1>14. CASE UNCHANGED vars
    BY <1>14
<1> QED BY <1>1, <1>2, <1>3, <1>4, <1>5, <1>6, <1>7, <1>8, <1>9, <1>10, <1>11, <1>12, <1>13, <1>14
        DEF Next, UserCall, Returns, Finish

(* The lifecycle invariants hold in every disciplined environment.            *)
THEOREM LifecycleCorrect ==
    ASSUME Disciplined
    PROVE  Spec => []LifecycleInv
<1>1. Init => LifecycleInv
    BY TypeInit, LifecycleInit DEF LifecycleInv, StateInv
<1>2. LifecycleInv /\ [Next]_vars => LifecycleInv'
    BY StateInductive, TimerStep DEF LifecycleInv, StateInv, Disciplined
<1> QED BY <1>1, <1>2, PTL DEF Spec

--------------------------------------------------------------------------------
(* The properties of the disciplined runs, for all values of the constants.   *)

(* A client in TWS_ST_READY has an open socket.                               *)
THEOREM ReadyUsable ==
    ASSUME Calm
    PROVE  Spec => []ReadyIsUsable
<1>1. StateInv => ReadyIsUsable
    BY DEF StateInv, SocketInv, ReadyIsUsable, READY, CONNECTING
<1> QED BY <1>1, StateCorrect, PTL

(* uv_close is called once for a socket, from whatever callbacks, and however *)
(* often, the user closes, stops, destroys and connects, and whatever the     *)
(* timer does, up to the first handle that is initialised while in use: there *)
(* the model ends.                                                            *)
THEOREM NoAssertionFails ==
    ASSUME Calm
    PROVE  Spec => []NoAbort
<1>1. StateInv => NoAbort
    BY DEF StateInv, SocketInv, NoAbort
<1> QED BY <1>1, StateCorrect, PTL

(* No handle is initialised while libuv uses it, for a user who connects only *)
(* a closed client whose timer is not pending, and leaves that timer alone:   *)
(* the code itself guards none of this (run client_reinit).                   *)
THEOREM NoHandleReused ==
    ASSUME Disciplined
    PROVE  Spec => []NoReinit
<1>1. LifecycleInv => NoReinit
    BY DEF LifecycleInv, TimerInv, NoReinit
<1> QED BY <1>1, LifecycleCorrect, PTL

\* Only on_reconnect_timer_cb changes clientId.
LEMMA OnlyTimerDials == [Next]_vars => UNCHANGED clientId \/ ReconnectTimerCb
<1> SUFFICES ASSUME [Next]_vars, ~ReconnectTimerCb PROVE UNCHANGED clientId
    OBVIOUS
<1> USE DEF vars, fields
<1>1. CASE UserCall
    BY <1>1, Zenon DEF UserCall, EnableReconnect, DisableReconnect, Connect, ConnectBadAddress,
        Close, Stop, Destroy, Command
<1>2. CASE Returns
    BY <1>2, Zenon DEF Returns, CloseEnds, PacketEnds, LoginErrorEnds, ConnectedEnds
<1>3. CASE NextPhase \/ OnConnect \/ OnFailure \/ KernelTakes \/ OnWriteCb \/ OnWriteError
    BY <1>3, Zenon DEF NextPhase, OnConnect, OnFailure, KernelTakes, OnWriteCb, OnWriteError
<1>4. CASE OnRead \/ ReadEnds \/ Decode
    BY <1>4, Zenon DEF OnRead, ReadEnds, Decode, LoginVersion, LoginTime, PacketId, UnknownPacket,
        PacketToken
<1>5. CASE FinishClose \/ Finish \/ Greet \/ Send
    BY <1>5, Zenon DEF FinishClose, Finish, FinishWrite, OnCloseCb, Greet, Send
<1>6. CASE UNCHANGED vars
    BY <1>6
<1> QED BY <1>1, <1>2, <1>3, <1>4, <1>5, <1>6, Zenon DEF Next

(* The client dials by itself only while reconnecting is enabled, and never   *)
(* once it is destroyed.                                                      *)
THEOREM AutoDialNeedsConsent ==
    ASSUME Disciplined
    PROVE  Spec => NoAutoDialWhenDisabled
<1>1. LifecycleInv /\ [Next]_vars => [clientId' # clientId => enable_reconnect /\ ~free_flag]_vars
    BY OnlyTimerDials, Zenon DEF LifecycleInv, TimerInv, ReconnectTimerCb
<1> QED BY <1>1, LifecycleCorrect, PTL DEF Spec, NoAutoDialWhenDisabled

\* How the state moves, whatever else an action does.
LEMMA StateMoves ==
    ASSUME StateInv, [Next]_vars
    PROVE  \/ state' = state
           \/ Dial(reconnect_timer) \/ Dial(FALSE)
           \/ CloseBegins
           \/ state > DISCONNECTING /\ state' > DISCONNECTING
           \/ OnCloseCb
<1> USE DEF vars
<1>0. state \in 1..6
    BY DEF StateInv, TypeOK, DataOK, CLOSED, READY
<1>1. CASE UserCall
    BY <1>1, Zenon DEF UserCall, EnableReconnect, DisableReconnect, Connect, ConnectBadAddress,
        Close, Stop, Destroy, Command
<1>2. CASE Returns
    BY <1>2, Zenon DEF Returns, CloseEnds, PacketEnds, LoginErrorEnds, ConnectedEnds
<1>3. CASE NextPhase \/ ReconnectTimerCb \/ OnFailure \/ KernelTakes \/ OnWriteError
    BY <1>3, Zenon DEF NextPhase, ReconnectTimerCb, OnFailure, KernelTakes, OnWriteError, OnWriteFailed
<1>4. CASE OnConnect
    <2>1. socket = "connecting" /\ state' = CONNECTED /\ ~disc
        BY <1>4 DEF OnConnect, Idle
    <2>2. state > DISCONNECTING /\ state' > DISCONNECTING
        BY <1>0, <2>1 DEF StateInv, SocketInv, CLOSED, DISCONNECTING, CONNECTING, CONNECTED
    <2> QED BY <2>2
<1>5. CASE OnWriteCb
    <2>1. socket = "stream" /\ ~disc /\ (state' = state \/ state' = READY)
        BY <1>5, Zenon DEF OnWriteCb, OnWritten, Idle
    <2>2. state > DISCONNECTING
        BY <1>0, <2>1 DEF StateInv, SocketInv, CLOSED, DISCONNECTING, CONNECTING
    <2>3. READY > DISCONNECTING
        BY DEF DISCONNECTING, READY
    <2> QED BY <2>1, <2>2, <2>3, Zenon
<1>6. CASE OnRead \/ ReadEnds \/ PacketId \/ UnknownPacket \/ PacketToken \/ LoginVersion
    BY <1>6, Zenon DEF OnRead, ReadEnds, PacketId, UnknownPacket, PacketToken, LoginVersion
<1>7. CASE LoginTime
    <2>1. rx # <<>> /\ (state' = state \/ state' = AUTHED)
        BY <1>7, Zenon DEF LoginTime, NextToken
    <2>2. state > DISCONNECTING
        BY <1>0, <1>7, <2>1
        DEF StateInv, StackInv, LoginTime, NextToken, Continues, CLOSED, DISCONNECTING, CONNECTING
    <2>3. AUTHED > DISCONNECTING
        BY DEF DISCONNECTING, AUTHED
    <2> QED BY <2>1, <2>2, <2>3, Zenon
<1>8. CASE FinishClose \/ Greet \/ Send
    BY <1>8, Zenon DEF FinishClose, Greet, Send
<1>9. CASE FinishWrite
    <2>1. done = 0
        BY DEF StateInv, StackInv
    <2> QED BY <1>9, <2>1 DEF FinishWrite, OnWriteFailed
<1>10. CASE OnCloseCb
    BY <1>10
<1>11. CASE UNCHANGED vars
    BY <1>11
<1> QED BY <1>1, <1>2, <1>3, <1>4, <1>5, <1>6, <1>7, <1>8, <1>9, <1>10, <1>11, Zenon
        DEF Next, Decode, Finish

(* A client that is disconnecting comes back only by closing its socket.      *)
THEOREM ClosingIsFinal ==
    ASSUME Calm
    PROVE  Spec => CloseIsFinal
<1>1. ASSUME StateInv, [Next]_vars, state = DISCONNECTING
      PROVE  state' \in {DISCONNECTING, CLOSED}
    <2>1. CASE Dial(reconnect_timer) \/ Dial(FALSE)
        <3>1. socket \notin {"none", "leaked"}
            BY <1>1 DEF StateInv, SocketInv, CLOSED, DISCONNECTING
        <3> QED BY <1>1, <2>1, <3>1, Zenon DEF Dial
    <2>2. CASE CloseBegins
        BY <1>1, <2>2 DEF CloseBegins
    <2>3. CASE OnCloseCb
        BY <2>3 DEF OnCloseCb
    <2>4. ~(state > DISCONNECTING)
        BY <1>1 DEF DISCONNECTING
    <2> QED BY <1>1, <2>1, <2>2, <2>3, <2>4, StateMoves
<1>2. StateInv /\ [Next]_vars =>
          [state = DISCONNECTING => state' \in {DISCONNECTING, CLOSED}]_vars
    BY <1>1
<1> QED BY <1>2, StateCorrect, PTL DEF Spec, CloseIsFinal

(* Nothing touches a client that is freed: no callback is left in the loop,   *)
(* no timer, and the user does not call.                                      *)
THEOREM FreedIsFinal ==
    ASSUME Disciplined
    PROVE  Spec => DestroyIsFinal
<1>1. ASSUME LifecycleInv, [Next]_vars, freed
      PROVE  UNCHANGED <<state, process>>
    <2>1. /\ state = CLOSED /\ free_flag /\ ~reconnect_timer /\ ~disc /\ event = "none"
          /\ handler = "none" /\ socket \in {"none", "leaked"}
        BY <1>1 DEF LifecycleInv, StateInv, TypeOK, DataOK, SocketInv, StackInv, TimerInv, CLOSED, DISCONNECTING
    <2>2. ~UserCall
        BY <2>1, Zenon DEF UserCall, UserRuns, EnableReconnect, DisableReconnect, Connect,
            ConnectBadAddress, Close, Stop, Destroy, Command
    <2>3. ~Returns
        BY <2>1 DEF Returns, CloseEnds, PacketEnds, LoginErrorEnds, ConnectedEnds
    <2>4. ~(Decode \/ ReadEnds \/ Finish)
        BY <2>1 DEF Decode, ReadEnds, Finish, LoginVersion, LoginTime, PacketId, UnknownPacket,
            PacketToken, NextToken, Continues, FinishWrite, OnCloseCb
    <2>5. ~(ReconnectTimerCb \/ OnConnect \/ OnFailure \/ KernelTakes \/ OnWriteCb
            \/ OnWriteError \/ OnRead \/ FinishClose \/ Greet \/ Send)
        BY <2>1 DEF ReconnectTimerCb, OnConnect, OnFailure, KernelTakes, OnWriteCb, OnWriteError,
            OnRead, FinishClose, Greet, Send
    <2>6. NextPhase \/ UNCHANGED vars
        BY <1>1, <2>2, <2>3, <2>4, <2>5, Zenon DEF Next
    <2> QED BY <2>6 DEF NextPhase, vars, world
<1>2. LifecycleInv /\ [Next]_vars => [freed => UNCHANGED <<state, process>>]_vars
    BY <1>1
<1> QED BY <1>2, LifecycleCorrect, PTL DEF Spec, DestroyIsFinal

--------------------------------------------------------------------------------
(* TwsClient implements TwsSession: every step of the client maps to a step   *)
(* of the session, or to none.                                                *)
LEMMA SessionInit == Init => Session!Init
BY DEF Init, Session!Init, SessionOf, CLOSED

\* Calls and callbacks that leave state, enable_reconnect and clientId alone.
LEMMA SessionStutters ==
    ASSUME UNCHANGED <<state, enable_reconnect, clientId>>
    PROVE  UNCHANGED Session!vars
BY DEF Session!vars, SessionOf

\* tws_client_close, alone or after something that turns reconnecting off.
LEMMA SessionLoses ==
    ASSUME LifecycleInv, CloseBegins, UNCHANGED clientId,
           enable_reconnect' = enable_reconnect \/ enable_reconnect' = FALSE
    PROVE  [Session!Next]_(Session!vars)
<1>0. state \in 1..6
    BY DEF LifecycleInv, StateInv, TypeOK, DataOK, CLOSED, READY
<1>1. enable_reconnect' \in {enable_reconnect, FALSE}
    BY Zenon
<1>1a. enable_reconnect' \in BOOLEAN
    BY Zenon DEF LifecycleInv, StateInv, TypeOK, FlagsOK
<1>2. CASE state > DISCONNECTING
    <2>1. SessionOf \in {"opening", "ready"} /\ SessionOf' = "lost"
        BY <1>0, <1>2 DEF CloseBegins, SessionOf, CLOSED, DISCONNECTING, READY
    <2> QED BY <1>1, <2>1, Zenon DEF Session!Next, Session!Lose
<1>3. CASE ~(state > DISCONNECTING)
    <2>1. SessionOf' = SessionOf
        BY <1>3 DEF CloseBegins, SessionOf
    <2> QED BY <1>1a, <2>1, Zenon DEF Session!Next, Session!Configure
<1> QED BY <1>2, <1>3

LEMMA SessionStep ==
    ASSUME Disciplined, LifecycleInv, [Next]_vars
    PROVE  [Session!Next]_(Session!vars)
<1> USE DEF vars, fields
<1>0. state \in 1..6
    BY DEF LifecycleInv, StateInv, TypeOK, DataOK, CLOSED, READY
<1>1. CASE EnableReconnect \/ DisableReconnect \/ ConnectBadAddress
    <2>1. UNCHANGED <<state, clientId>> /\ enable_reconnect' \in BOOLEAN
        BY <1>1, Zenon DEF EnableReconnect, DisableReconnect, StopReconnecting, ConnectBadAddress
    <2>2. SessionOf' = SessionOf
        BY <2>1 DEF SessionOf
    <2> QED BY <2>1, <2>2, Zenon DEF Session!Next, Session!Configure
<1>2. CASE Connect
    <2>1. UNCHANGED <<clientId, enable_reconnect>> /\ state = CLOSED
        BY <1>2 DEF Connect, Disciplined
    <2>2. CASE UNCHANGED state
        BY <2>1, <2>2, SessionStutters
    <2>3. CASE state' = CONNECTING
        <3>1. SessionOf = "closed" /\ SessionOf' = "opening"
            BY <2>1, <2>3 DEF SessionOf, CLOSED, DISCONNECTING, CONNECTING, READY
        <3> QED BY <2>1, <3>1 DEF Session!Next, Session!Open
    <2>4. UNCHANGED state \/ state' = CONNECTING
        BY <1>2, <2>1, Zenon DEF Connect, Dial
    <2> QED BY <2>2, <2>3, <2>4
<1>3. CASE Close \/ Stop
    BY <1>3, SessionLoses, Zenon DEF Close, Stop, StopReconnecting
<1>4. CASE Destroy
    <2>1. CASE NothingToClose
        BY <1>4, <2>1, SessionStutters DEF Destroy
    <2>2. CASE ~NothingToClose
        BY <1>4, <2>2, SessionLoses, Zenon DEF Destroy, StopReconnecting
    <2> QED BY <2>1, <2>2
<1>5. CASE Command \/ CloseEnds \/ PacketEnds \/ ConnectedEnds
    BY <1>5, SessionStutters, Zenon DEF Command, CloseEnds, PacketEnds, ConnectedEnds
<1>6. CASE LoginErrorEnds \/ OnFailure \/ OnWriteError
    BY <1>6, SessionLoses, Zenon DEF LoginErrorEnds, OnFailure, OnWriteError, OnWriteFailed
<1>7. CASE ReconnectTimerCb
    <2>0. reconnect_timer
        BY <1>7 DEF ReconnectTimerCb
    <2>1. enable_reconnect /\ state = CLOSED /\ (freed => free_flag) /\ ~free_flag
        BY <2>0, Zenon DEF LifecycleInv, StateInv, TimerInv
    <2>2. ~(state >= CONNECTING) /\ ~freed
        BY <2>1 DEF CLOSED, CONNECTING
    <2>3. clientId' = (clientId + 1) % IdRange /\ UNCHANGED enable_reconnect
          /\ state' \in {state, CLOSED, CONNECTING}
        BY <1>7, <2>1, <2>2, Zenon DEF ReconnectTimerCb, NextId, Dial
    <2>4. SessionOf = "closed" /\ SessionOf' \in {"opening", "closed"}
        BY <2>1, <2>3 DEF SessionOf, CLOSED, DISCONNECTING, CONNECTING, READY
    <2> QED BY <2>1, <2>3, <2>4, Zenon DEF Session!Next, Session!AutoOpen
<1>8. CASE OnConnect
    <2>1. UNCHANGED <<clientId, enable_reconnect>> /\ state' = CONNECTED
          /\ socket = "connecting" /\ ~disc
        BY <1>8 DEF OnConnect, Idle
    <2>2. state = CONNECTING
        BY <1>0, <2>1 DEF LifecycleInv, StateInv, SocketInv, CLOSED, DISCONNECTING, CONNECTING
    <2>3. SessionOf' = SessionOf
        BY <2>1, <2>2 DEF SessionOf, CLOSED, DISCONNECTING, CONNECTING, CONNECTED, READY
    <2> QED BY <2>1, <2>3 DEF Session!vars
<1>9. CASE NextPhase \/ KernelTakes \/ OnRead \/ ReadEnds \/ FinishClose \/ Greet \/ Send
    BY <1>9, SessionStutters, Zenon DEF NextPhase, KernelTakes, OnRead, ReadEnds, FinishClose, Greet, Send
<1>10. CASE OnWriteCb
    <2>1. UNCHANGED <<clientId, enable_reconnect>> /\ (UNCHANGED state \/ state' = READY)
          /\ socket = "stream" /\ ~disc
        BY <1>10, Zenon DEF OnWriteCb, OnWritten, Idle
    <2>2. CASE UNCHANGED state
        BY <2>1, <2>2, SessionStutters
    <2>3. CASE ~UNCHANGED state
        <3>1. state' = READY /\ state \in {CONNECTED, AUTHED}
            BY <1>0, <2>1, <2>3 DEF LifecycleInv, StateInv, SocketInv, CLOSED, DISCONNECTING, CONNECTING,
                CONNECTED, AUTHED, READY
        <3>2. SessionOf = "opening" /\ SessionOf' = "ready"
            BY <3>1 DEF SessionOf, CLOSED, DISCONNECTING, CONNECTED, AUTHED, READY
        <3> QED BY <2>1, <3>2 DEF Session!Next, Session!Ready
    <2> QED BY <2>2, <2>3
<1>11. CASE LoginTime
    <2>1. UNCHANGED <<clientId, enable_reconnect>> /\ state < AUTHED /\ rx # <<>>
          /\ (UNCHANGED state \/ state' = AUTHED)
        BY <1>11, Zenon DEF LoginTime, NextToken
    <2>2. SessionOf' = SessionOf
        <3>1. state \in {CONNECTED}
            BY <1>0, <1>11, <2>1 DEF LoginTime, NextToken, Continues, LifecycleInv, StateInv, StackInv,
                CLOSED, DISCONNECTING, CONNECTING, CONNECTED, AUTHED
        <3> QED BY <2>1, <3>1 DEF SessionOf, CLOSED, DISCONNECTING, CONNECTED, AUTHED, READY
    <2> QED BY <2>1, <2>2 DEF Session!vars
<1>12. CASE PacketId \/ UnknownPacket \/ PacketToken \/ LoginVersion
    BY <1>12, SessionStutters, Zenon DEF PacketId, UnknownPacket, PacketToken, LoginVersion
<1>13. CASE FinishWrite
    <2>1. done = 0
        BY DEF LifecycleInv, StateInv, StackInv
    <2> QED BY <1>13, <2>1, SessionLoses DEF FinishWrite, OnWriteFailed
<1>14. CASE OnCloseCb
    <2>1. UNCHANGED <<clientId, enable_reconnect>> /\ handler = "finish" /\ state' = CLOSED /\ ~disc
        BY <1>14 DEF OnCloseCb, Continues
    <2>2. state = DISCONNECTING
        BY <1>0, <2>1 DEF LifecycleInv, StateInv, SocketInv, StackInv, CLOSED, DISCONNECTING, CONNECTING
    <2>3. SessionOf = "lost" /\ SessionOf' = "closed"
        BY <2>1, <2>2 DEF SessionOf, CLOSED, DISCONNECTING
    <2> QED BY <2>1, <2>3 DEF Session!Next, Session!Release
<1>15. CASE UNCHANGED vars
    BY <1>15, SessionStutters
<1> QED BY <1>1, <1>2, <1>3, <1>4, <1>5, <1>6, <1>7, <1>8, <1>9, <1>10, <1>11, <1>12, <1>13,
           <1>14, <1>15, Zenon DEF Next, UserCall, Returns, Decode, Finish

(* Under discipline the user sees what TwsSession promises: CLIENT_CONNECTED  *)
(* at most once per connection, CLIENT_DISCONNECTED once, a new dial only     *)
(* after the socket was released, and by itself only if it may, under a new id.*)
THEOREM SessionImplemented ==
    ASSUME Disciplined
    PROVE  Spec => ImplementsSession
<1>1. LifecycleInv /\ [Next]_vars => [Session!Next]_(Session!vars)
    BY SessionStep
<1> QED BY <1>1, SessionInit, LifecycleCorrect, PTL DEF Spec, ImplementsSession, Session!Spec

================================================================================
