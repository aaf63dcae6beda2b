------------------------------- MODULE TwsClient -------------------------------
(* The connection lifecycle of one TWS client: src/src/tws_client.c, the      *)
(* login decoder and the packet dispatch of src/src/tws_decode.c, and         *)
(* startAPI / logon of src/src/tws_encode.c, running on one libuv loop        *)
(* against one TWS server.                                                    *)
(*                                                                            *)
(* Everything runs on one thread, so the interleavings are those of the loop: *)
(* which callback libuv calls next, and which public function the user calls  *)
(* from inside a callback.  The second kind is modelled by keeping the call   *)
(* stack: `handler' is the library callback that has not returned yet,        *)
(* `event' the user's event callback it made, `disc' the CLIENT_DISCONNECTED  *)
(* callback in the middle of tws_client_close.  User code may run whenever    *)
(* one of its callbacks is on top of the stack, or no library code runs.      *)
EXTENDS Integers, Sequences, FiniteSets

CONSTANTS
    Fields,     \* packet id -> number of tokens its receive_* function takes
    Messages,   \* the token sequences TWS sends once the API is started
    Versions,   \* the server versions TWS may report
    IdRange,    \* clientId is an int: it counts modulo this (2^32 in C)
    MaxWrites,  \* bound: write requests queued on the socket
    MaxNet,     \* bound: tokens in flight from the server
    Env         \* the environment behaviours allowed, see EnvAll

(* Behaviours of the user, of libuv and of the system that a run, or a        *)
(* theorem, can exclude, so that it says which of them a property survives.   *)
EnvAll ==
    { "late_write",        \* a socket is closed after a write completed and before its callback
      "close_in_read",     \* the user closes inside an event callback, with tokens left to decode
      "dial_open",         \* the user connects a client that is not closed
      "dial_with_timer",   \* the user connects while the reconnect timer is pending
      "bad_with_timer",    \* ... and passes a malformed address
      "enable_with_timer", \* the user enables reconnecting again while the timer is pending
      "destroy_with_timer",\* the user destroys a closed client whose timer is pending
      "sync_error",        \* uv_tcp_connect fails at once
      "freed_read",        \* memory given to sk_free is overwritten before on_write_cb reads it
      "unknown_packet" }   \* TWS sends a packet id this client does not know

MIN_REQ_SERVER_VERSION == 70
OLD_SERVER == 20           \* from this version on TWS also sends its time

Cmds == DOMAIN Fields
Tokens == Versions \cup UNION {{m[i] : i \in DOMAIN m} : m \in Messages}

ASSUME FieldsAssumption == Fields \in [Cmds -> Nat \ {0}] /\ Cmds \subseteq Nat \ {0}
ASSUME MessagesAssumption == \A m \in Messages : m \in Seq(Nat) /\ m # <<>>
ASSUME VersionsAssumption == Versions \subseteq Nat
ASSUME BoundsAssumption == IdRange \in Nat \ {0} /\ MaxWrites \in Nat /\ MaxNet \in Nat
ASSUME EnvAssumption == Env \subseteq EnvAll

--------------------------------------------------------------------------------
VARIABLES
    \* fields of real_client_t
    state,             \* tws_client_state
    serverVersion,     \* what the server reported last
    clientId,
    enable_reconnect,
    free_flag,
    pt,                \* the protothread: who yielded last, and where
    cmd,               \* the packet being decoded, 0 between packets
    reconnect_timer,   \* TRUE while the timer is active
    socket,            \* "none", "leaked", "connecting", "stream", "closing"
    writes,            \* requests libuv holds, oldest first, by what they carry
    done,              \* how many of them the kernel took, callback still due
    \* the loop and the call stack
    phase,             \* of the libuv loop: "timers", "io", "closing"
    handler,           \* "none", "read" (on_read_cb), "finish" (closing the socket)
    rx,                \* tokens on_read_cb has received and not yet decoded
    event,             \* user callback running: "none", "conn", "data", "err"
    disc,              \* the CLIENT_DISCONNECTED callback is running
    \* memory, process, network
    freed,             \* the client's memory was given to sk_free
    process,           \* "running", "exit", "crash", "abort" (uv_close on a closing
                       \* socket), "corrupt" (a handle in use was initialised again)
    net,               \* tokens sent by the server and not read yet
    peer               \* the server: "silent", "logon", "greeted", "api", "asked"

fields     == <<serverVersion, clientId, enable_reconnect, free_flag, reconnect_timer>>
decoder    == <<pt, cmd>>
stack      == <<handler, rx, event, disc>>
link       == <<socket, writes, done>>
world      == <<freed, process>>
server     == <<net, peer>>
vars == <<state, fields, decoder, stack, link, phase, world, server>>

--------------------------------------------------------------------------------
(* tws_client_state: the order matters, the code compares with < and >.       *)
CLOSED        == 1
DISCONNECTING == 2
CONNECTING    == 3
CONNECTED     == 4
AUTHED        == 5
READY         == 6

NOBODY == 0                \* PT_INIT: no label is set
LOGIN  == -1               \* the label is inside decode_login_package
PtInit == [owner |-> NOBODY, label |-> 0]

Running == process = "running"
\* No client or user code is on the stack: libuv may make its next call.
Idle == Running /\ handler = "none" /\ event = "none" /\ ~disc
\* The library callback on the stack goes on, its event callback has returned.
Continues(h) == Running /\ handler = h /\ event = "none" /\ ~disc
\* The user's code runs.  The user does not touch a client it has destroyed.
UserRuns ==
    /\ Running /\ ~free_flag
    /\ \/ disc \/ event # "none"
       \/ handler = "none" /\ phase # "closing"

\* Operators marked "Mutated" are not part of the specification: each is the form
\* the operator after it would have with a plausible bug, and a property must
\* notice the difference.
CloseBegins_Mutated ==
    IF state > CLOSED
    THEN state' = DISCONNECTING /\ disc' = TRUE
    ELSE UNCHANGED <<state, disc>>

\* tws_client_close, up to and including the call of the event callback.
CloseBegins ==
    IF state > DISCONNECTING
    THEN state' = DISCONNECTING /\ disc' = TRUE
    ELSE UNCHANGED <<state, disc>>

UvClose_Mutated == socket' = IF socket = "stream" THEN "closing" ELSE socket

\* ... and after it: uv_close, which asserts that the handle is not closing.
UvClose == socket' = "closing"

\* tws_client_stop and tws_client_disable_reconnect turn reconnecting off.
StopReconnecting_Mutated == enable_reconnect' = FALSE /\ UNCHANGED reconnect_timer
StopReconnecting == enable_reconnect' = FALSE /\ reconnect_timer' = FALSE

\* uv_write refuses a socket that is closing, and on_write_cb is never called.
Write(request) ==
    /\ writes' = IF socket = "stream" THEN Append(writes, request) ELSE writes
    /\ UNCHANGED <<socket, done>>

StartAPI_Mutated(st) == Write("start")

\* tws_client_startAPI
StartAPI(st) == IF st > AUTHED THEN UNCHANGED link ELSE Write("start")

ReconnectStart_Mutated(armed) == reconnect_timer' = armed

\* _client_reconnect_start: TwsReconnect models the delay it computes.
ReconnectStart(armed) == reconnect_timer' = (enable_reconnect \/ armed)

DecodeReset_Mutated == cmd' = 0 /\ UNCHANGED pt

\* tws_decode_reset
DecodeReset == pt' = PtInit /\ cmd' = 0

\* _client_connect, with the reconnect timer armed or not.  After uv_tcp_init over a
\* handle in use nothing is defined; over one that is being closed uv__finish_close
\* fails its assertion.
Dial(armed) ==
    /\ DecodeReset
    /\ \/ /\ socket \in {"none", "leaked"}
          /\ state' = CONNECTING /\ socket' = "connecting"
          /\ reconnect_timer' = armed
          /\ UNCHANGED process
       \/ /\ socket \in {"none", "leaked"} /\ "sync_error" \in Env
          /\ state' = CLOSED /\ socket' = "leaked"
          /\ ReconnectStart(armed)
          /\ UNCHANGED process
       \/ /\ socket \notin {"none", "leaked"}
          /\ process' = "corrupt" /\ reconnect_timer' = armed
          /\ UNCHANGED <<state, socket>>
    /\ UNCHANGED <<writes, done>>

--------------------------------------------------------------------------------
(* Calls of the user                                                          *)

\* tws_client_enable_reconnect initialises the timer.  One that is active stays in
\* libuv's heap, without its callback: what the loop does from there on is undefined.
EnableReconnect ==
    /\ UserRuns
    /\ enable_reconnect' = TRUE
    /\ \/ ~reconnect_timer /\ UNCHANGED process
       \/ reconnect_timer /\ "enable_with_timer" \in Env /\ process' = "corrupt"
    /\ UNCHANGED <<state, serverVersion, clientId, free_flag, reconnect_timer,
                   decoder, stack, link, phase, freed, server>>

\* tws_client_disable_reconnect
DisableReconnect ==
    /\ UserRuns
    /\ StopReconnecting
    /\ UNCHANGED <<state, serverVersion, clientId, free_flag,
                   decoder, stack, link, phase, world, server>>

\* tws_client_connect, the address parses.  The function has no guard.
Connect ==
    /\ UserRuns
    /\ state # CLOSED => "dial_open" \in Env
    /\ reconnect_timer => "dial_with_timer" \in Env
    /\ Dial(reconnect_timer)
    /\ UNCHANGED <<serverVersion, clientId, enable_reconnect, free_flag,
                   stack, phase, freed, server>>

\* tws_client_connect, uv_ip4_addr refuses the address.
ConnectBadAddress ==
    /\ UserRuns /\ state = CLOSED
    /\ reconnect_timer => "bad_with_timer" \in Env
    /\ enable_reconnect' = FALSE
    /\ UNCHANGED <<state, serverVersion, clientId, free_flag, reconnect_timer,
                   decoder, stack, link, phase, world, server>>

\* Closing from inside a packet's callback, with decoded input left over.
MayClose == handler = "read" /\ rx # <<>> => "close_in_read" \in Env

\* tws_client_close
Close ==
    /\ UserRuns /\ MayClose
    /\ CloseBegins
    /\ UNCHANGED <<fields, decoder, handler, rx, event, link, phase, world, server>>

\* tws_client_stop
Stop ==
    /\ UserRuns /\ MayClose
    /\ StopReconnecting
    /\ CloseBegins
    /\ UNCHANGED <<serverVersion, clientId, free_flag, decoder, handler, rx, event,
                   link, phase, world, server>>

NothingToClose_Early == state <= DISCONNECTING
NothingToClose_Never == FALSE
NothingToClose == state = CLOSED

\* tws_client_destroy: a closed client is freed at once, its timer is not stopped.
Destroy ==
    /\ UserRuns /\ MayClose
    /\ free_flag' = TRUE
    /\ IF NothingToClose
       THEN /\ reconnect_timer => "destroy_with_timer" \in Env
            /\ freed' = TRUE
            /\ UNCHANGED <<state, disc, enable_reconnect, reconnect_timer>>
       ELSE /\ StopReconnecting
            /\ CloseBegins
            /\ UNCHANGED freed
    /\ UNCHANGED <<serverVersion, clientId, decoder, handler, rx, event, link,
                   phase, process, server>>

\* Any request function of tws_encode.c: CHECK_CONNECTED, then one write.
Command ==
    /\ UserRuns /\ state >= READY
    /\ Len(writes) < MaxWrites
    /\ Write("command")
    /\ UNCHANGED <<state, fields, decoder, stack, phase, world, server>>

UserCall ==
    \/ EnableReconnect \/ DisableReconnect \/ Connect \/ ConnectBadAddress
    \/ Close \/ Stop \/ Destroy \/ Command

--------------------------------------------------------------------------------
(* Returns of the user's callbacks                                            *)

\* The rest of tws_client_close.
CloseEnds ==
    /\ Running /\ disc
    /\ disc' = FALSE
    /\ IF socket = "closing"
       THEN process' = "abort" /\ UNCHANGED <<socket, net, peer>>
       ELSE /\ UvClose /\ net' = <<>> /\ peer' = "silent"
            /\ UNCHANGED process
    /\ UNCHANGED <<state, fields, decoder, handler, rx, event, writes, done, phase, freed>>

\* The callback of a packet returns: PEND clears the label, the dispatcher cmd.
PacketEnds ==
    /\ Running /\ ~disc /\ event = "data"
    /\ event' = "none"
    /\ DecodeReset
    /\ UNCHANGED <<state, fields, handler, rx, disc, link, phase, world, server>>

\* The ERR_MSG callback of decode_login_package returns: it closes the client.
LoginErrorEnds ==
    /\ Running /\ ~disc /\ event = "err"
    /\ event' = "none"
    /\ CloseBegins
    /\ pt' = PtInit
    /\ UNCHANGED <<fields, cmd, handler, rx, link, phase, world, server>>

\* The CLIENT_CONNECTED callback returns to on_start_api and libuv.
ConnectedEnds ==
    /\ Running /\ ~disc /\ event = "conn"
    /\ event' = "none"
    /\ UNCHANGED <<state, fields, decoder, handler, rx, disc, link, phase, world, server>>

--------------------------------------------------------------------------------
(* The loop: phases and the callbacks of each phase                           *)

NextPhase ==
    /\ Idle
    /\ \/ phase = "timers" /\ phase' = "io"
       \/ phase = "io" /\ phase' = "closing"
       \/ phase = "closing" /\ socket # "closing" /\ phase' = "timers"
    /\ UNCHANGED <<state, fields, decoder, stack, link, world, server>>

NextId == (clientId + 1) % IdRange

\* on_reconnect_timer_cb.  On a freed client it reads memory that may have been
\* reused: it crashes, or finds the old contents and dials.
ReconnectTimerCb ==
    /\ Idle /\ phase = "timers" /\ reconnect_timer
    /\ \/ /\ freed
          /\ process' = "crash" /\ reconnect_timer' = FALSE
          /\ UNCHANGED <<state, clientId, decoder, link>>
       \/ /\ state < CONNECTING
          /\ clientId' = NextId
          /\ Dial(FALSE)
       \/ /\ state >= CONNECTING
          /\ reconnect_timer' = FALSE
          /\ UNCHANGED <<state, clientId, decoder, link, process>>
    /\ UNCHANGED <<serverVersion, enable_reconnect, free_flag, stack, phase, freed, server>>

\* on_connect, status 0: read_start and logon.
OnConnect ==
    /\ Idle /\ phase = "io" /\ socket = "connecting"
    /\ state' = CONNECTED
    /\ socket' = "stream"
    /\ writes' = Append(writes, "logon")
    /\ UNCHANGED <<fields, decoder, stack, done, phase, world, server>>

\* on_connect with an error, on_read_cb with an error or the end of the stream.
OnFailure ==
    /\ Idle /\ phase = "io" /\ socket \in {"connecting", "stream"}
    /\ CloseBegins
    /\ UNCHANGED <<fields, decoder, handler, rx, event, link, phase, world, server>>

\* What the server learns when the kernel has taken a request.
Arrives(request) ==
    \/ request = "logon" /\ peer' = "logon"
    \/ request = "start" /\ peer' = "api"
    \/ request = "command" /\ peer' = IF peer = "api" THEN "asked" ELSE peer

\* on_write_cb, status 0.  It reads its callback pointer from the request it has
\* just freed; on_start_api is the only such callback.
OnWritten(request) ==
    \/ /\ "freed_read" \in Env
       /\ process' = "crash" /\ UNCHANGED <<state, event>>
    \/ /\ request = "start"
       /\ state' = READY /\ event' = "conn" /\ UNCHANGED process
    \/ /\ request # "start"
       /\ UNCHANGED <<state, event, process>>

OnWriteFailed_Mutated == OnWritten(Head(writes)) /\ UNCHANGED disc

\* on_write_cb, status < 0.
OnWriteFailed == CloseBegins /\ UNCHANGED <<event, process>>

\* uv_write or the poll hands a request to the kernel; its callback comes later.
KernelTakes ==
    /\ Running /\ "late_write" \in Env
    /\ socket = "stream" /\ done < Len(writes)
    /\ Arrives(writes[done + 1])
    /\ done' = done + 1
    /\ UNCHANGED <<state, fields, decoder, stack, socket, writes, phase, world, net>>

\* on_write_cb for the oldest request.  Without "late_write" the kernel takes
\* it and the callback runs before anything else happens.
OnWriteCb ==
    /\ Idle /\ phase = "io" /\ socket = "stream" /\ writes # <<>>
    /\ IF done > 0
       THEN done' = done - 1 /\ UNCHANGED peer
       ELSE "late_write" \notin Env /\ Arrives(Head(writes)) /\ UNCHANGED done
    /\ writes' = Tail(writes)
    /\ OnWritten(Head(writes))
    /\ UNCHANGED <<fields, decoder, handler, rx, disc, socket, phase, freed, net>>

\* on_write_cb for a request that met a broken connection.
OnWriteError ==
    /\ Idle /\ phase = "io" /\ socket = "stream" /\ writes # <<>> /\ done = 0
    /\ writes' = Tail(writes)
    /\ OnWriteFailed
    /\ UNCHANGED <<fields, decoder, handler, rx, socket, done, phase, freed, server>>

\* uv__finish_close: the callbacks of the requests that are left, then on_close_cb.
\* A dial that was pending is cancelled too: on_connect finds the client
\* disconnecting and does nothing.
FinishClose ==
    /\ Idle /\ phase = "closing" /\ socket = "closing"
    /\ handler' = "finish"
    /\ UNCHANGED <<state, fields, decoder, rx, event, disc, link, phase, world, server>>

\* on_write_cb during uv__finish_close: a request the kernel took reports
\* success, the others UV_ECANCELED.
FinishWrite ==
    /\ Continues("finish") /\ writes # <<>>
    /\ writes' = Tail(writes)
    /\ IF done > 0
       THEN done' = done - 1 /\ OnWritten(Head(writes)) /\ UNCHANGED disc
       ELSE OnWriteFailed /\ UNCHANGED done
    /\ UNCHANGED <<fields, decoder, handler, rx, socket, phase, freed, server>>

OnCloseCb ==
    /\ Continues("finish") /\ writes = <<>>
    /\ handler' = "none" /\ socket' = "none"
    /\ state' = CLOSED
    /\ IF free_flag THEN freed' = TRUE /\ UNCHANGED reconnect_timer
                    ELSE ReconnectStart(reconnect_timer) /\ UNCHANGED freed
    /\ UNCHANGED <<serverVersion, clientId, enable_reconnect, free_flag, decoder,
                   rx, event, disc, writes, done, phase, process, server>>

--------------------------------------------------------------------------------
(* on_read_cb and the decoder: TwsReadBuffer models how the tokens are cut    *)
(* out of the byte stream, TwsDecode what each packet contains.               *)

OnRead ==
    /\ Idle /\ phase = "io" /\ socket = "stream" /\ net # <<>>
    /\ handler' = "read"
    /\ \E n \in 1..Len(net) :
          /\ rx' = SubSeq(net, 1, n)
          /\ net' = SubSeq(net, n + 1, Len(net))
    /\ UNCHANGED <<state, fields, decoder, event, disc, link, phase, world, peer>>

ReadEnds ==
    /\ Continues("read") /\ rx = <<>>
    /\ handler' = "none"
    /\ UNCHANGED <<state, fields, decoder, rx, event, disc, link, phase, world, server>>

NextToken == Continues("read") /\ rx # <<>>

\* A token for decode_login_package: the version, which an old server sends alone.
LoginVersion ==
    /\ NextToken /\ state < AUTHED /\ pt.owner # LOGIN
    /\ rx' = Tail(rx)
    /\ serverVersion' = Head(rx)
    /\ IF Head(rx) >= OLD_SERVER
       THEN pt' = [owner |-> LOGIN, label |-> 1] /\ UNCHANGED event
       ELSE event' = "err" /\ UNCHANGED pt
    /\ UNCHANGED <<state, clientId, enable_reconnect, free_flag, reconnect_timer, cmd,
                   handler, disc, link, phase, world, server>>

\* ... and its time, which is skipped.  UPDATE_TWS, or authenticated: the read
\* buffer is emptied and START_API written.
LoginTime ==
    /\ NextToken /\ state < AUTHED /\ pt.owner = LOGIN
    /\ IF serverVersion < MIN_REQ_SERVER_VERSION
       THEN /\ event' = "err" /\ rx' = Tail(rx)
            /\ UNCHANGED <<state, decoder, link>>
       ELSE /\ state' = AUTHED /\ rx' = <<>>
            /\ DecodeReset
            /\ StartAPI(AUTHED)
            /\ UNCHANGED event
    /\ UNCHANGED <<fields, handler, disc, phase, world, server>>

\* decode_response_package between two packets: the token is the next packet's id.
PacketId ==
    /\ NextToken /\ state >= AUTHED /\ cmd = 0
    /\ rx' = Tail(rx) /\ cmd' = Head(rx)
    /\ UNCHANGED <<state, fields, pt, handler, event, disc, link, phase, world, server>>

\* The default case of the switch: exit(0).
UnknownPacket ==
    /\ NextToken /\ state >= AUTHED /\ cmd # 0 /\ cmd \notin Cmds
    /\ process' = "exit"
    /\ UNCHANGED <<state, fields, decoder, stack, link, phase, freed, server>>

\* A token for the receive_* function of the packet: it yields, or has its last
\* token and calls back.  VERIFY_COMPLETED starts the API first if it succeeded.
VERIFY_COMPLETED == 66

PacketToken ==
    /\ NextToken /\ state >= AUTHED /\ cmd \in Cmds
    /\ rx' = Tail(rx)
    /\ IF pt.label + 1 < Fields[cmd]
       THEN pt' = [owner |-> cmd, label |-> pt.label + 1] /\ UNCHANGED <<event, link>>
       ELSE /\ event' = "data" /\ UNCHANGED pt
            /\ \/ UNCHANGED link
               \/ cmd = VERIFY_COMPLETED /\ StartAPI(state)
    /\ UNCHANGED <<state, fields, cmd, handler, disc, phase, world, server>>

--------------------------------------------------------------------------------
(* The TWS server: not in this repository, modelled from what the client     *)
(* expects of it.                                                             *)
TIME == MIN_REQ_SERVER_VERSION + 1     \* atoi of a date is a large number

Greet ==
    /\ Running /\ socket = "stream" /\ peer = "logon"
    /\ \E v \in Versions : net' = IF v < OLD_SERVER THEN <<v>> ELSE <<v, TIME>>
    /\ peer' = "greeted"
    /\ UNCHANGED <<state, fields, decoder, stack, link, phase, world>>

Send ==
    /\ Running /\ socket = "stream" /\ peer \in {"api", "asked"}
    /\ \E m \in Messages :
          /\ Head(m) = VERIFY_COMPLETED => peer = "asked"
          /\ Head(m) \notin Cmds => "unknown_packet" \in Env
          /\ Len(net) + Len(m) <= MaxNet
          /\ net' = net \o m
    /\ UNCHANGED <<state, fields, decoder, stack, link, phase, world, peer>>

--------------------------------------------------------------------------------
\* tws_client_new
Init ==
    /\ state = CLOSED /\ serverVersion = 0 /\ clientId = 0
    /\ enable_reconnect = FALSE /\ free_flag = FALSE /\ reconnect_timer = FALSE
    /\ pt = PtInit /\ cmd = 0
    /\ socket = "none" /\ writes = <<>> /\ done = 0
    /\ phase = "timers" /\ handler = "none" /\ rx = <<>> /\ event = "none" /\ disc = FALSE
    /\ freed = FALSE /\ process = "running"
    /\ net = <<>> /\ peer = "silent"

Returns == CloseEnds \/ PacketEnds \/ LoginErrorEnds \/ ConnectedEnds
Decode == LoginVersion \/ LoginTime \/ PacketId \/ UnknownPacket \/ PacketToken
Finish == FinishWrite \/ OnCloseCb
Next ==
    \/ UserCall
    \/ Returns
    \/ NextPhase \/ ReconnectTimerCb
    \/ OnConnect \/ OnFailure \/ KernelTakes \/ OnWriteCb \/ OnWriteError
    \/ OnRead \/ ReadEnds \/ Decode
    \/ FinishClose \/ Finish
    \/ Greet \/ Send

Spec == Init /\ [][Next]_vars

(* Fairness.  The loop runs while it has anything to do: a callback that was  *)
(* started returns, a phase that is entered is left, a socket that is closing *)
(* is finished, a timer that is armed becomes due and fires.                  *)
Fairness ==
    /\ WF_vars(Returns) /\ WF_vars(ReadEnds \/ Decode)
    /\ WF_vars(FinishClose) /\ WF_vars(Finish)
    /\ SF_vars(NextPhase) /\ SF_vars(ReconnectTimerCb)

FairSpec == Spec /\ Fairness

--------------------------------------------------------------------------------
(* Properties                                                                 *)

FlagsOK ==
    /\ enable_reconnect \in BOOLEAN /\ reconnect_timer \in BOOLEAN
    /\ free_flag \in BOOLEAN /\ freed \in BOOLEAN /\ disc \in BOOLEAN

DataOK ==
    /\ state \in CLOSED..READY /\ serverVersion \in Nat /\ clientId \in 0..IdRange - 1
    /\ pt \in [owner : Nat \cup {LOGIN}, label : Nat] /\ cmd \in Nat
    /\ socket \in {"none", "leaked", "connecting", "stream", "closing"}
    /\ writes \in Seq({"logon", "start", "command"}) /\ done \in 0..Len(writes)
    /\ phase \in {"timers", "io", "closing"}
    /\ handler \in {"none", "read", "finish"} /\ rx \in Seq(Nat)
    /\ event \in {"none", "conn", "data", "err"}
    /\ process \in {"running", "exit", "crash", "abort", "corrupt"}
    /\ net \in Seq(Nat) /\ peer \in {"silent", "logon", "greeted", "api", "asked"}

(* Every variable has its type; done never counts more requests than there are. *)
TypeOK == FlagsOK /\ DataOK

(* The label a protothread resumes at was set by the function that resumes:   *)
(* all decoders share one struct pt, and which function gets the next token   *)
(* depends on state and cmd, which closes, reconnects and callbacks change.   *)
OwnLabel ==
    NextToken => pt.owner \in {NOBODY, IF state < AUTHED THEN LOGIN ELSE cmd}

(* The client dials by itself only while reconnecting is enabled and it is    *)
(* not destroyed: not after tws_client_stop, _disable_reconnect, _destroy or  *)
(* a refused address.  Only on_reconnect_timer_cb changes clientId.           *)
NoAutoDialWhenDisabled ==
    [][clientId' # clientId => enable_reconnect /\ ~free_flag]_vars

(* "now the client ready for command" (tws_type.h:33): a client in            *)
(* TWS_ST_READY has an open socket its commands can be written to.            *)
ReadyIsUsable == state = READY => socket = "stream"

(* A client that is disconnecting comes back only by closing its socket.      *)
CloseIsFinal == [][state = DISCONNECTING => state' \in {DISCONNECTING, CLOSED}]_vars

(* uv_close is called once for a socket: libuv asserts that a handle is not   *)
(* closing yet, and tws_client_close is entered again from callbacks.         *)
NoAbort == process # "abort"

(* tws_client_connect is to "start the connection of the client"              *)
(* (tws_client.h:33), tws_client_enable_reconnect to prepare its timer: each  *)
(* initialises a libuv handle, and never one that the loop still uses.        *)
NoReinit == process # "corrupt"

(* START_API is sent once for a connection, and before any command.           *)
StartOnce ==
    \A i \in DOMAIN writes : writes[i] = "start" =>
        /\ state # READY
        /\ \A j \in 1..i-1 : writes[j] = "logon"

(* A destroyed client does nothing any more once its memory is freed.         *)
DestroyIsFinal == [][freed => UNCHANGED <<state, process>>]_vars

(* tws_client_close, "waiting for reconnect if enable" (tws_client.h:40): a   *)
(* client that lost its connection dials, and when a dial fails at once tries *)
(* again under the next id, unless the user turns that off.                   *)
Retries(id) == clientId = id /\ (state = DISCONNECTING \/ (state = CLOSED /\ reconnect_timer))
TurnedOff == ~enable_reconnect \/ free_flag \/ ~Running
ReconnectsAfterLoss ==
    \A id \in 0..IdRange - 1 :
        Retries(id) ~> \/ state = CONNECTING
                       \/ clientId # id /\ reconnect_timer
                       \/ TurnedOff

(* A connection that is closed is released: on_close_cb runs.                 *)
CloseCompletes == state = DISCONNECTING ~> state = CLOSED \/ ~Running

(* tws_client_destroy frees the client in the end.                            *)
DestroyFrees == free_flag ~> freed \/ ~Running

--------------------------------------------------------------------------------
(* The client implements the sessions its user sees.                          *)
SessionOf ==
    IF state = CLOSED THEN "closed"
    ELSE IF state = DISCONNECTING THEN "lost"
    ELSE IF state = READY THEN "ready" ELSE "opening"

Session == INSTANCE TwsSession WITH
    session <- SessionOf, auto <- enable_reconnect, id <- clientId

(* CLIENT_CONNECTED comes at most once for a connection, CLIENT_DISCONNECTED  *)
(* exactly once, then the socket is released before anything is dialed; only  *)
(* a client that may reconnect dials by itself, under a new id.               *)
ImplementsSession == Session!Spec

(* ... and every session that is lost is released.                            *)
ImplementsFairSession == Session!FairSpec
================================================================================
