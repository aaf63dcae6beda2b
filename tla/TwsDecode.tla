------------------------------- MODULE TwsDecode -------------------------------
(* The decoder of a TWS client: the login and the 43 packets, as protothreads *)
(* that share one label (src/src/tws_decode.c), and the memory they handle,   *)
(* against a TWS that greets and sends packets.  TWS writes a packet down     *)
(* from what it contains; the client decides token by token what comes next,  *)
(* from the tokens it has seen.  The actions of the client take the token as  *)
(* an argument: here it is the next one of TWS, in TwsReceive what the read   *)
(* buffer holds.                                                              *)
EXTENDS TwsPackets, SequencesExt

CONSTANTS
    Packets,   \* the packets the client knows, and the login, by name: see TwsPackets
    Shapes     \* the packets TWS may send

LOGIN == "LOGIN"
UNKNOWN == "UNKNOWN"      \* a packet whose id the client does not know

(* A shape says what is in a packet: its version, the length of its arrays,   *)
(* whether the values that conditions test are set, the one among both that   *)
(* is different, and whether the other strings are filled.                    *)
ASSUME ShapesAssumption ==
    Shapes \subseteq [cmd : DOMAIN Packets \cup {UNKNOWN}, version : Nat, count : Nat,
                     flag : {0, 1}, odd : STRING \X STRING, filled : {0, 1}]

\* The same name has the same kind of value in the steps s and t, and conditions test
\* values of the kind they need.
Consistent(s, t) ==
    s.name # NONE =>
        /\ s.kind = "version" <=> s.name = VERSION
        /\ s.name = t.loop => s.kind = "count"
        /\ s.name = t.when => s.kind \notin {"count", "version"}
        /\ s.name = t.name => (s.kind = "count" <=> t.kind = "count")

PacketsOK ==
    /\ LOGIN \in DOMAIN Packets /\ DOMAIN Packets \cap {"", UNKNOWN} = {}
    /\ \A c \in DOMAIN Packets :
          LET steps == Packets[c].steps
          IN  Ordered(steps) /\ \A i, k \in DOMAIN steps : Consistent(steps[i], steps[k])

ASSUME PacketsAssumption == PacketsOK

VARIABLES
    authed,    \* the client is in TWS_ST_AUTHED or above
    cmd,       \* the packet being decoded, "" between packets and during the login
    pt,        \* the protothread: <<i, j>>, waiting for step i, of array element j
    val,       \* the values of this packet's tokens, those later steps may depend on
    mem,       \* the memory slots of this packet: "stale", "null", "owned"
    lost,      \* slots of this packet that were overwritten while they owned memory
    calling,   \* the event callback of this packet runs
    process,   \* "running", "crash", "exit"
    sending,   \* TWS: the packet it sends
    outgoing   \* ... and the place of it whose token it sends next, Start between packets

packet == <<val, mem, lost>>
vars == <<authed, cmd, pt, packet, calling, process, sending, outgoing>>

PtInit == Start

--------------------------------------------------------------------------------
(* TWS: the tokens of a packet, and their order.                              *)

Idle == [cmd |-> "", version |-> 0, count |-> 0, flag |-> 0, odd |-> NONE, filled |-> 0]

Layout(cmd_) == IF cmd_ = UNKNOWN THEN Num(1) ELSE Packets[cmd_].steps

\* The length of an array, the value of a flag.
Odd(sh, name, usual) == IF sh.odd = name THEN (IF usual = 0 THEN 1 ELSE 0) ELSE usual
CountOf(sh, name) == Odd(sh, name, sh.count)
FlagOf(sh, name) == Odd(sh, name, sh.flag)

SentStep(sh, s) ==
    /\ InVersion(sh.version, s)
    /\ s.when # NONE => FlagOf(sh, s.when) = 1

\* The values that conditions test.
Tested(cmd_) == {Layout(cmd_)[i].when : i \in DOMAIN Layout(cmd_)}

TokenOf(sh, s) ==
    CASE s.kind = "version" -> sh.version
      [] s.kind = "count"   -> CountOf(sh, s.name)
      [] OTHER -> IF s.name \in Tested(sh.cmd) THEN FlagOf(sh, s.name) ELSE sh.filled

\* The places of a packet that have a token of their own: a step, or a step of an array's
\* element.
Elements(sh, s) == IF s.loop = NONE THEN {0} ELSE 0 .. CountOf(sh, s.loop) - 1
Places(sh) ==
    LET steps == Layout(sh.cmd)
        sent == {i \in DOMAIN steps : SentStep(sh, steps[i])}
    IN  UNION {{i} \X Elements(sh, steps[i]) : i \in sent}

\* The place that TWS sends after the place a.
Following(sh, a) ==
    LET steps == Layout(sh.cmd)
        left == {b \in Places(sh) : Precedes(steps, a, b)}
    IN  IF left = {} THEN Start
        ELSE CHOOSE b \in left : \A c \in left : c = b \/ Precedes(steps, b, c)

--------------------------------------------------------------------------------
(* The function that gets the next token: tws_decode_message, and the switch. *)

Receiver == IF authed THEN cmd ELSE LOGIN
Steps == Packets[Receiver].steps

--------------------------------------------------------------------------------
(* Memory                                                                     *)

\* Steps that write to memory, outside arrays.
Writes(s) ==
    /\ s.kind \in {"str", "dup", "count", "alloc", "num"}
    /\ s.loop = NONE /\ s.name # NONE

\* The slots of a packet when its first token is decoded.  The union holds what
\* other packets left in it.
FreshMemory(cmd_) ==
    LET p == Packets[cmd_]
        slots == {s.name : s \in {x \in ToSet(p.steps) : Writes(x)}}
                 \cup p.made \cup {n \in p.freed : n[1] \notin ElementStructs} \cup p.shown
    IN  [s \in {<<n, 0>> : n \in slots} |->
            IF s[1] \in p.made THEN "owned"
            ELSE IF s[1] \in p.nulled \/ s[1][1] \in p.zeroed THEN "null" ELSE "stale"]

\* The elements of an array: calloc clears their slots; those that do not yield are
\* assigned at once.
WithElements(m, array, n) ==
    LET body == {s \in ToSet(Steps) : s.loop = array /\ s.kind \in {"str", "same"}}
        new == {<<x.name, j>> : x \in body, j \in 0..n-1}
    IN  [s \in DOMAIN m \cup new |->
            IF s \notin new THEN m[s]
            ELSE IF \E x \in body : x.name = s[1] /\ x.kind = "same" THEN "owned" ELSE "null"]

\* What a token makes of the memory m.
Store(m, s, j, token) ==
    LET set(value) == Assign(m, <<s.name, j>>, value)
    IN  CASE s.kind = "str" -> set(IF token = 0 THEN "null" ELSE "owned")
          [] s.kind = "num" /\ s.name # NONE -> set("null")
          [] s.kind = "dup" -> set("owned")
          [] s.kind = "alloc" /\ token # 0 -> set("owned")
          [] s.kind = "count" /\ token > 0 -> WithElements(set("owned"), s.name, token)
          [] OTHER -> m

Overwritten(m, s, j) ==
    IF s.kind \in {"str", "dup"} /\ <<s.name, j>> \in DOMAIN m /\ m[<<s.name, j>>] = "owned"
    THEN {s.name} ELSE {}

Holding(m, value) == {s[1] : s \in {x \in DOMAIN m : m[x] = value}}

--------------------------------------------------------------------------------
(* Actions of the client                                                      *)

ClientInit ==
    /\ cmd = "" /\ pt = PtInit /\ val = <<>> /\ mem = <<>> /\ lost = {}
    /\ calling = FALSE /\ process = "running"

Takes == process = "running" /\ ~calling

\* decode_response_package between packets: the token is the id of a packet.
PacketId(id) ==
    /\ Takes /\ authed /\ cmd = ""
    /\ cmd' = id
    /\ UNCHANGED <<pt, packet, calling, process>>

\* ... with an id it does not know, the next token ends in the default case.
UnknownPacket ==
    /\ Takes /\ authed /\ cmd = UNKNOWN
    /\ process' = "exit"
    /\ UNCHANGED <<cmd, pt, packet, calling>>

\* The receive_* function resumes with a token: at its label, or at its beginning.
Resumes == Takes /\ Receiver \in DOMAIN Packets
At == IF pt = PtInit THEN <<1, 0>> ELSE pt
AtStep == Steps[At[1]]
Memory == IF pt = PtInit THEN FreshMemory(Receiver) ELSE mem
Values(token) == IF AtStep.name = NONE THEN val ELSE Assign(val, AtStep.name, token)
Next_(token) == NextStep(Steps, Values(token), At[1], At[2])

\* tws_init_contract_details of a pointer that is NULL.
DerefsNull(token) ==
    AtStep.kind = "count" /\ token > 0 /\ AtStep.name \in Packets[Receiver].derefs

Crash(token) ==
    /\ Resumes /\ DerefsNull(token)
    /\ process' = "crash"
    /\ UNCHANGED <<cmd, pt, packet, calling>>

\* The token is the last of a login with a server that is new enough.
Authenticates(token) ==
    /\ ~authed /\ Next_(token) = PtInit
    /\ Value(Values(token), VERSION) >= MIN_REQ_SERVER_VERSION

\* It takes the token, and yields or calls back.
TakeToken(token) ==
    /\ Resumes /\ ~DerefsNull(token) /\ ~Authenticates(token)
    /\ calling' = (Next_(token) = PtInit)
    /\ pt' = IF Next_(token) = PtInit THEN pt ELSE Next_(token)
    /\ val' = Values(token)
    /\ mem' = Store(Memory, AtStep, At[2], token)
    /\ lost' = lost \cup Overwritten(Memory, AtStep, At[2])
    /\ UNCHANGED <<cmd, process>>

NoPacket == val' = <<>> /\ mem' = <<>> /\ lost' = {}

\* tws_decode_reset, its part here
DecodeReset_Mutated == cmd' = "" /\ UNCHANGED pt
DecodeReset == cmd' = "" /\ pt' = PtInit

\* The login is complete: the client is in TWS_ST_AUTHED.
LoginDone(token) ==
    /\ Resumes /\ Authenticates(token)
    /\ DecodeReset /\ NoPacket
    /\ UNCHANGED <<calling, process>>

\* Back from the callback it frees and ends, and so does the dispatcher.  A login
\* that failed closes the client.
PacketDone_Mutated == cmd' = "" /\ UNCHANGED pt
PacketDone == cmd' = "" /\ pt' = PtInit

End ==
    /\ calling /\ calling' = FALSE
    /\ PacketDone /\ NoPacket
    /\ UNCHANGED process

\* The connection is lost and made again: _client_connect calls tws_decode_reset,
\* whatever was being decoded.
Reconnect ==
    /\ Takes
    /\ DecodeReset /\ NoPacket
    /\ UNCHANGED <<calling, process>>

--------------------------------------------------------------------------------
(* The client and TWS                                                         *)

Init == ClientInit /\ authed = FALSE /\ sending = Idle /\ outgoing = Start

\* TWS begins a packet.
Begin(sh) == outgoing = Start /\ sending' = sh /\ outgoing' = <<1, 0>>

\* The token that arrives, if any; TWS goes on to the next one.
Arriving == IF outgoing = Start THEN {} ELSE {TokenOf(sending, Layout(sending.cmd)[outgoing[1]])}
GoOn ==
    /\ outgoing' = Following(sending, outgoing)
    /\ sending' = IF outgoing' = Start THEN Idle ELSE sending

\* TWS answers the logon of a new connection.
Greet ==
    /\ Takes /\ ~authed /\ pt = PtInit
    /\ \E sh \in Shapes : sh.cmd = LOGIN /\ Begin(sh)
    /\ UNCHANGED <<authed, cmd, pt, packet, calling, process>>

SendPacket ==
    /\ \E sh \in Shapes : sh.cmd # LOGIN /\ PacketId(sh.cmd) /\ Begin(sh)
    /\ UNCHANGED authed

Next ==
    \/ Greet \/ SendPacket
    \/ \E token \in Arriving :
          \/ (TakeToken(token) \/ Crash(token) \/ UnknownPacket) /\ GoOn /\ UNCHANGED authed
          \/ LoginDone(token) /\ GoOn /\ authed' = TRUE
    \/ End /\ UNCHANGED <<authed, sending, outgoing>>
    \/ Reconnect /\ authed' = FALSE /\ sending' = Idle /\ outgoing' = Start

Spec == Init /\ [][Next]_vars

--------------------------------------------------------------------------------
(* Properties                                                                 *)

\* A protothread waits at a step of its packet's table, in an element that the array
\* has: whatever the tokens, what it writes next is inside the allocation.
InTable ==
    pt # PtInit =>
        /\ Receiver \in DOMAIN Packets /\ pt[1] \in DOMAIN Steps
        /\ pt[2] \in 0 .. (IF Steps[pt[1]].loop = NONE THEN 0
                           ELSE Value(val, Steps[pt[1]].loop) - 1)

TypeOK ==
    /\ InTable
    /\ authed \in BOOLEAN /\ cmd \in DOMAIN Packets \cup {"", UNKNOWN}
    /\ calling \in BOOLEAN /\ process \in {"running", "crash", "exit"}
    /\ \A s \in DOMAIN mem : mem[s] \in {"stale", "null", "owned"}

(* The client stays in step with TWS: the field a decoder waits for is the    *)
(* one TWS sends next, and the callback comes with the last one, in every     *)
(* version of every packet, over arrays, optional fields, logins, lost        *)
(* connections and the packets before.                                        *)
InStep ==
    process = "running" =>
        IF outgoing # Start THEN ~calling /\ Receiver = sending.cmd /\ At = outgoing
        ELSE calling \/ cmd = ""

(* "pt_value == PT_ENDED means the packet decode finished, so we wait for     *)
(* next commnad" (tws_decode.c:1554): between packets the next token is the   *)
(* id of a packet.                                                            *)
PacketFinished == authed /\ cmd = "" => outgoing = Start

\* What is known to keep the value an earlier event left in the union: the slot, and
\* the version from which on it is assigned.  The items and elements of an empty
\* reply never are, nor the rest of the event that reports an outdated server.
KnownStale ==
    {<<"TICK_PRICE", <<"tick_price", "sizeTickType">>, 2>>,
     <<"HISTORICAL_DATA", <<"historical_data", "startDateStr">>, 2>>,
     <<"HISTORICAL_DATA", <<"historical_data", "endDateStr">>, 2>>,
     <<"HISTORICAL_DATA", <<"historical_data", "items">>, MANY>>,
     <<"SCANNER_DATA", <<"scanner_data", "elements">>, MANY>>,
     <<"ORDER_STATUS", <<"order_status", "permId">>, 2>>,
     <<"ORDER_STATUS", <<"order_status", "parentId">>, 3>>,
     <<"ORDER_STATUS", <<"order_status", "lastFillPrice">>, 4>>,
     <<"ORDER_STATUS", <<"order_status", "clientId">>, 5>>,
     <<LOGIN, <<"err_msg", "id">>, MANY>>, <<LOGIN, <<"err_msg", "errorMsg">>, MANY>>}

\* What is known not to be freed, and the version from which on it is not.
KnownLeaks ==
    {<<"POSITION", <<"position", "account">>, 0>>,
     <<"MARKET_DEPTH_L2", <<"market_depth_l2", "marketMaker">>, 0>>,
     <<"OPEN_ORDER", <<"order", "openClose">>, 0>>,
     <<"OPEN_ORDER", <<"order", "deltaNeutralOpenClose">>, 31>>,
     <<"OPEN_ORDER", <<"order", "orderComboLegs">>, 29>>}

PacketVersion == Value(val, VERSION)

(* An event callback only sees values of its own packet, never what an        *)
(* earlier packet, finished or cut off by a reset, left in the union; the     *)
(* same pointers are freed after it.  The exceptions are KnownStale.          *)
EventIsInitialised ==
    calling => \A slot \in Holding(mem, "stale") :
                   \E k \in KnownStale :
                       /\ k[1] = Receiver /\ k[2] = slot
                       /\ k[3] = MANY \/ PacketVersion < k[3]

(* Every allocation of a packet is freed after its callback, but for          *)
(* KnownLeaks: whatever the version, the lengths and the empty strings.       *)
FreesAll ==
    calling => \A slot \in (Holding(mem, "owned") \ Packets[Receiver].freed) \cup lost :
                   \E k \in KnownLeaks : k[1] = Receiver /\ k[2] = slot /\ PacketVersion >= k[3]

--------------------------------------------------------------------------------
(* What the tables themselves must be like, for these properties to hold.     *)

\* TWS has nothing to send where the client takes the token of the step before.
Yields(sh) == \A b \in Places(sh) : Layout(sh.cmd)[b[1]].kind # "same"

\* A slot is assigned by a step that no flag and no array guards.
Assigns(s, slot) ==
    Writes(s) /\ s.kind \in {"str", "dup", "num"} /\ s.when = NONE /\ s.name = slot

\* What an earlier packet may have left in a slot is assigned in every version, from the
\* one KnownStale names on: by one step, or by one step and from some version on another.
Initialises ==
    \A c \in DOMAIN Packets : \A slot \in Holding(FreshMemory(c), "stale") :
        LET steps == Packets[c].steps
            known == {k[3] : k \in {x \in KnownStale : x[1] = c /\ x[2] = slot}}
        IN  \E version \in known \cup {0} :
                \/ version = MANY
                \/ \E i, k \in DOMAIN steps :
                      /\ Assigns(steps[i], slot) /\ steps[i].from =< version
                      /\ Assigns(steps[k], slot) /\ steps[k].from =< steps[i].below
                      /\ steps[k].below = MANY

Leaks(c, slot, version) ==
    \E k \in KnownLeaks : k[1] = c /\ k[2] = slot /\ k[3] =< version

\* Steps after which a slot may own memory, and those that forget what it owned.
Owns(s) == s.kind \in {"str", "dup", "alloc", "count"}
Forgets(s) == s.kind \in {"str", "dup"}
Later(s, t) == IF s.from < t.from THEN t.from ELSE s.from

\* An array that derefs names never gets to its elements.
Reached(p) == {i \in DOMAIN p.steps : p.steps[i].loop \notin p.derefs \ {NONE}}

\* What a packet may own is freed after it, and no version of it has two steps that
\* assign a string to one slot, or one that assigns to a slot that owns memory from the
\* beginning; but for KnownLeaks.
Frees ==
    \A c \in DOMAIN Packets :
        LET p == Packets[c]
        IN  /\ \A slot \in p.made : slot \in p.freed \/ Leaks(c, slot, 0)
            /\ \A i \in Reached(p) :
                  LET s == p.steps[i]
                  IN  /\ Owns(s) => s.name \in p.freed \/ Leaks(c, s.name, s.from)
                      /\ s.kind = "same" => s.name \in p.freed
                      /\ Forgets(s) /\ s.name \in p.made => Leaks(c, s.name, s.from)
                      /\ \A k \in Reached(p) \ {i} :
                            LET t == p.steps[k]
                            IN  Forgets(s) /\ t.name = s.name =>
                                    /\ t.kind # "same"
                                    /\ \/ ~Owns(t) \/ Leaks(c, s.name, Later(s, t))
                                       \/ ~InVersion(Later(s, t), s) \/ ~InVersion(Later(s, t), t)
================================================================================
