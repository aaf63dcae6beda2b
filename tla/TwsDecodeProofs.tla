---------------------------- MODULE TwsDecodeProofs ----------------------------
(* Theorems about TwsDecode, for every table of packets and every TWS.        *)
EXTENDS TwsDecode, TwsStepsProofs

Cells == {"stale", "null", "owned"}
IsMemory(m) == \A s \in DOMAIN m : m[s] \in Cells

(* A value read so far is a number, and the step a protothread waits for has  *)
(* its token: the conditions around it still hold.                            *)
DecodeInv ==
    /\ TypeOK
    /\ \A n \in DOMAIN val : val[n] \in Nat
    /\ pt # PtInit /\ ~calling => YieldsAt(Steps, val, pt[1])

--------------------------------------------------------------------------------
(* Memory.                                                                    *)
LEMMA AssignIsMemory ==
    ASSUME NEW m, NEW x, NEW e \in Cells, IsMemory(m)
    PROVE  IsMemory(Assign(m, x, e))
BY DEF IsMemory, Assign

LEMMA FreshIsMemory == \A c : IsMemory(FreshMemory(c))
BY DEF FreshMemory, IsMemory, Cells

LEMMA StoreIsMemory ==
    ASSUME NEW m, NEW s, NEW j, NEW token, IsMemory(m)
    PROVE  IsMemory(Store(m, s, j, token))
<1> DEFINE set(value) == Assign(m, <<s.name, j>>, value)
<1>1. \A e \in Cells : IsMemory(set(e))
      BY AssignIsMemory
<1>2. \A n : IsMemory(n) => IsMemory(WithElements(n, s.name, token))
      BY DEF WithElements, IsMemory, Cells
<1>4. "null" \in Cells /\ "owned" \in Cells
      BY DEF Cells
<1> HIDE DEF set
<1>5. Store(m, s, j, token) \in
          {m, set("null"), set("owned"), WithElements(set("owned"), s.name, token)}
      BY DEF Store, set
<1> QED BY <1>1, <1>2, <1>4, <1>5

--------------------------------------------------------------------------------
(* The values of a packet after one more token.                               *)
LEMMA ValuesFacts ==
    ASSUME DecodeInv, NEW token \in Nat
    PROVE  /\ \A n \in DOMAIN Values(token) : Values(token)[n] \in Nat
           /\ \A n : Value(Values(token), n) \in Nat /\ Value(val, n) \in Nat
           /\ \A n : \/ AtStep.name # NONE /\ AtStep.name = n
                  \/ Value(Values(token), n) = Value(val, n)
<1>1. \A n \in DOMAIN val : val[n] \in Nat
      BY DEF DecodeInv
<1>2. CASE AtStep.name = NONE
      BY <1>1, <1>2 DEF Values, Value
<1>3. CASE AtStep.name # NONE
  <2>1. /\ DOMAIN Values(token) = {AtStep.name} \cup DOMAIN val
        /\ \A n \in DOMAIN Values(token) :
              Values(token)[n] = IF n = AtStep.name THEN token ELSE val[n]
        BY <1>3 DEF Values, Assign
  <2> QED BY <1>1, <1>3, <2>1 DEF Value
<1> QED BY <1>2, <1>3

(* Where the protothread stands when it gets a token.                         *)
LEMMA AtFacts ==
    ASSUME DecodeInv, Resumes
    PROVE  /\ Ordered(Steps) /\ Len(Steps) \in Nat /\ DOMAIN Steps = 1..Len(Steps)
           /\ At[1] \in DOMAIN Steps /\ At[2] \in Nat
           /\ IF AtStep.loop = NONE THEN At[2] = 0
              ELSE /\ pt # PtInit /\ pt = At
                   /\ YieldsAt(Steps, val, At[1]) /\ At[2] < Value(val, AtStep.loop)
                   /\ AtStep.name # NONE =>
                         AtStep.name \notin {VERSION, AtStep.when, AtStep.loop}
<1>1. Receiver \in DOMAIN Packets /\ ~calling
      BY DEF Resumes, Takes
<1>2. Ordered(Steps)
      BY <1>1, PacketsAssumption DEF PacketsOK, Steps
<1>3. /\ Len(Steps) \in Nat /\ DOMAIN Steps = 1..Len(Steps) /\ 1 \in DOMAIN Steps
      /\ Steps[1].loop = NONE
      BY <1>2, OrderedFacts
<1>4. \A k \in DOMAIN Steps : Steps[k].loop # NONE /\ Steps[k].name # NONE =>
          Steps[k].name \notin {VERSION, Steps[k].when, Steps[k].loop}
      BY <1>2 DEF Ordered
<1>5. CASE pt = PtInit
  <2>1. At = <<1, 0>> BY <1>5 DEF At
  <2>2. At[1] = 1 /\ At[2] = 0 BY <2>1
  <2> QED BY <1>2, <1>3, <2>2 DEF AtStep
<1>6. CASE pt # PtInit
  <2>1. At = pt BY <1>6 DEF At
  <2>2. /\ pt[1] \in DOMAIN Steps
        /\ pt[2] \in 0 .. (IF Steps[pt[1]].loop = NONE THEN 0
                           ELSE Value(val, Steps[pt[1]].loop) - 1)
        /\ YieldsAt(Steps, val, pt[1])
        BY <1>1, <1>6 DEF DecodeInv, TypeOK, InTable
  <2>3. Value(val, AtStep.loop) \in Nat
        BY DEF DecodeInv, Value
  <2>4. /\ pt[2] \in Nat
        /\ IF AtStep.loop = NONE THEN pt[2] = 0 ELSE pt[2] < Value(val, AtStep.loop)
        BY <2>1, <2>2, <2>3 DEF AtStep
  <2>5. AtStep.loop # NONE /\ AtStep.name # NONE =>
            AtStep.name \notin {VERSION, AtStep.when, AtStep.loop}
        BY <1>4, <2>1, <2>2 DEF AtStep
  <2> QED BY <1>2, <1>3, <1>6, <2>1, <2>2, <2>4, <2>5
<1> QED BY <1>5, <1>6

(* Where it stands afterwards: at the first place behind, for what it knows.  *)
LEMMA NextFacts ==
    ASSUME DecodeInv, Resumes, NEW token \in Nat
    PROVE  FirstBehind(Steps, Values(token), At[1], At[2], Next_(token))
<1> DEFINE v == Values(token)
           i == At[1]
           j == At[2]
           loop == Steps[i].loop
           next == NextStep(Steps, v, i, j)
<1>1. Ordered(Steps) /\ i \in DOMAIN Steps /\ j \in Nat
      BY AtFacts
<1>2. IF loop = NONE THEN j = 0
      ELSE /\ YieldsAt(Steps, val, i) /\ j < Value(val, loop)
           /\ \A n \in {VERSION, Steps[i].when, loop} : Value(v, n) = Value(val, n)
  <2>1. \A n : (AtStep.name # NONE /\ AtStep.name = n) \/ Value(v, n) = Value(val, n)
        BY ValuesFacts
  <2> QED BY <2>1, AtFacts DEF AtStep
<1>3. IF loop = NONE THEN j = 0 ELSE YieldsAt(Steps, v, i) /\ j < Value(v, loop)
      BY <1>2 DEF YieldsAt, Enabled
<1>4. \A n : Value(v, n) \in Nat
      BY ValuesFacts
<1> HIDE DEF v, i, j
<1>5. FirstBehind(Steps, v, i, j, next)
      BY <1>1, <1>3, <1>4, NextIsFirst
<1> QED BY <1>5, Zenon DEF Next_, v, i, j

--------------------------------------------------------------------------------
(* The invariant, for the actions of the client, whatever token they get.     *)
LEMMA SameSteps ==
    ASSUME UNCHANGED <<authed, cmd>>
    PROVE  Receiver' = Receiver /\ Steps' = Steps
BY DEF Receiver, Steps

LEMMA EmptyDomain == DOMAIN <<>> = {}
OBVIOUS

LEMMA InitDecode == ClientInit /\ authed \in BOOLEAN => DecodeInv
<1> SUFFICES ASSUME ClientInit, authed \in BOOLEAN PROVE DecodeInv
    OBVIOUS
<1>1. calling \in BOOLEAN
      BY Zenon DEF ClientInit
<1>2. DOMAIN val = {} /\ DOMAIN mem = {}
  <2>1. val = <<>> /\ mem = <<>> BY Zenon DEF ClientInit
  <2> QED BY <2>1, EmptyDomain, Zenon
<1>3. pt = PtInit /\ cmd = "" /\ process = "running"
      BY DEF ClientInit
<1> QED BY <1>1, <1>2, <1>3 DEF DecodeInv, TypeOK, InTable

LEMMA TokenDecode ==
    ASSUME DecodeInv, NEW token \in Nat, TakeToken(token), UNCHANGED authed
    PROVE  DecodeInv'
<1> DEFINE v == Values(token)
           next == Next_(token)
<1>1. /\ Resumes /\ Receiver \in DOMAIN Packets /\ ~calling
      /\ calling' = (next = PtInit) /\ pt' = IF next = PtInit THEN pt ELSE next
      /\ val' = v /\ UNCHANGED <<authed, cmd, process>>
      BY DEF TakeToken, Resumes, Takes
<1>2. Receiver' = Receiver /\ Steps' = Steps
      BY <1>1 DEF Receiver, Steps
<1>3. \A n \in DOMAIN v : v[n] \in Nat
      BY ValuesFacts
<1>4. IsMemory(mem')
  <2>1. IsMemory(mem) BY DEF DecodeInv, TypeOK, IsMemory, Cells
  <2>2. IsMemory(Memory) BY <2>1, FreshIsMemory DEF Memory
  <2>3. mem' = Store(Memory, AtStep, At[2], token) BY DEF TakeToken
  <2> QED BY <2>2, <2>3, StoreIsMemory
<1>5. calling' \in BOOLEAN /\ process' \in {"running", "crash", "exit"}
      /\ authed' \in BOOLEAN /\ cmd' \in DOMAIN Packets \cup {"", UNKNOWN}
  <2>1. calling' \in BOOLEAN BY <1>1, Zenon
  <2> QED BY <2>1, <1>1 DEF DecodeInv, TypeOK
<1>6. CASE next = PtInit
  <2>1. /\ pt' = pt /\ calling'
        BY <1>1, <1>6
  <2>2. InTable'
    <3> SUFFICES ASSUME pt # PtInit PROVE InTable'
        BY <2>1 DEF InTable
    <3>1. /\ pt = At /\ At[1] \in DOMAIN Steps /\ At[2] \in Nat
          /\ AtStep = Steps[pt[1]]
          BY AtFacts, <1>1 DEF At, AtStep
    <3>2. CASE AtStep.loop = NONE
      <4>1. pt[2] \in 0..0 BY <3>1, <3>2, <1>1 DEF DecodeInv, TypeOK, InTable
      <4> QED BY <4>1, <3>1, <3>2, <2>1, <1>1, <1>2 DEF InTable
    <3>3. CASE AtStep.loop # NONE
      <4>1. At[2] < Value(val, AtStep.loop) /\ AtStep.name # AtStep.loop
        <5>1. At[2] < Value(val, AtStep.loop) BY <3>3, <1>1, AtFacts
        <5>2. AtStep.name # NONE => AtStep.name # AtStep.loop
              BY <3>3, <1>1, AtFacts
        <5> QED BY <5>1, <5>2, <3>3
      <4>2. Value(v, AtStep.loop) = Value(val, AtStep.loop) /\ Value(v, AtStep.loop) \in Nat
            BY <4>1, ValuesFacts
      <4> HIDE DEF v
      <4>3. pt[2] \in 0 .. Value(v, AtStep.loop) - 1
            BY <3>1, <4>1, <4>2
      <4>4. pt'[1] \in DOMAIN Steps' /\ Steps'[pt'[1]] = AtStep /\ pt'[2] = pt[2]
            /\ Receiver' \in DOMAIN Packets
            BY <3>1, <2>1, <1>1, <1>2
      <4> QED BY <3>3, <4>3, <4>4, <1>1 DEF InTable
    <3> QED BY <3>2, <3>3
  <2> QED BY <2>1, <2>2, <1>1, <1>3, <1>4, <1>5 DEF DecodeInv, TypeOK, IsMemory, Cells
<1>7. CASE next # PtInit
  <2>0. PICK k, l : next = <<k, l>> /\ IsPlace(Steps, v, k, l)
        BY <1>1, <1>7, NextFacts, Zenon DEF FirstBehind, PtInit
  <2>1. /\ k \in DOMAIN Steps /\ l \in Nat
        /\ next = <<k, l>> /\ YieldsAt(Steps, v, k)
        /\ IF Steps[k].loop = NONE THEN l = 0 ELSE l < Value(v, Steps[k].loop)
        BY <2>0 DEF IsPlace
  <2>2. Value(v, Steps[k].loop) \in Nat
        BY ValuesFacts
  <2> HIDE DEF v, next
  <2>3. pt' = <<k, l>>
        BY <1>1, <1>7, <2>1
  <2>4. pt'[1] = k /\ pt'[2] = l
        BY <2>3
  <2>5. l \in 0 .. (IF Steps[k].loop = NONE THEN 0 ELSE Value(v, Steps[k].loop) - 1)
        BY <2>1, <2>2
  <2>6. InTable'
        BY <2>1, <2>4, <2>5, <1>1, <1>2 DEF InTable
  <2>7. YieldsAt(Steps', val', pt'[1])
        BY <2>1, <2>4, <1>1, <1>2
  <2> QED BY <2>6, <2>7, <1>1, <1>3, <1>4, <1>5 DEF DecodeInv, TypeOK, IsMemory, Cells
<1> QED BY <1>6, <1>7

(* The decoder and the dispatcher begin again: no packet, no label.           *)
LEMMA ResetDecode ==
    ASSUME DecodeInv, pt' = PtInit, NoPacket, authed' \in BOOLEAN, calling' \in BOOLEAN,
           cmd' = "", process' = process
    PROVE  DecodeInv'
<1>1. DOMAIN val' = {} /\ DOMAIN mem' = {}
  <2>1. val' = <<>> /\ mem' = <<>> BY Zenon DEF NoPacket
  <2> QED BY <2>1, EmptyDomain, Zenon
<1> QED BY <1>1 DEF DecodeInv, TypeOK, InTable

(* A packet begins, or is unknown; the client crashes.                        *)
LEMMA DispatchDecode ==
    ASSUME DecodeInv, UNCHANGED authed, NEW token,
           \/ \E id \in DOMAIN Packets \cup {"", UNKNOWN} : PacketId(id)
           \/ UnknownPacket \/ Crash(token)
    PROVE  DecodeInv'
<1>1. CASE \E id \in DOMAIN Packets \cup {"", UNKNOWN} : PacketId(id)
  <2>1. /\ authed /\ cmd = "" /\ cmd' \in DOMAIN Packets \cup {"", UNKNOWN}
        /\ UNCHANGED <<pt, val, mem, lost, calling, process, authed>>
        BY <1>1 DEF PacketId, packet
  <2>2. pt = PtInit
    <3>1. Receiver = "" BY <2>1 DEF Receiver
    <3> QED BY <3>1, PacketsAssumption DEF PacketsOK, DecodeInv, TypeOK, InTable
  <2> QED BY <2>1, <2>2 DEF DecodeInv, TypeOK, InTable
<1>2. CASE UnknownPacket \/ Crash(token)
  <2>1. /\ process' \in {"exit", "crash"}
        /\ UNCHANGED <<cmd, pt, val, mem, lost, calling, authed>>
        BY <1>2 DEF UnknownPacket, Crash, packet
  <2>2. Receiver' = Receiver /\ Steps' = Steps
    <3>1. UNCHANGED <<authed, cmd>> BY <2>1
    <3> QED BY <3>1, SameSteps, Zenon
  <2> QED BY <2>1, <2>2 DEF DecodeInv, TypeOK, InTable
<1> QED BY <1>1, <1>2

(* The callback returns, the login is complete, or the connection is new.     *)
LEMMA EndDecode ==
    ASSUME DecodeInv, NEW token, authed' \in BOOLEAN, End \/ LoginDone(token) \/ Reconnect
    PROVE  DecodeInv'
<1>1. /\ pt' = PtInit /\ NoPacket /\ cmd' = "" /\ process' = process
      /\ calling' = FALSE \/ calling' = calling
      BY DEF End, PacketDone, LoginDone, Reconnect, DecodeReset
<1>2. calling' \in BOOLEAN
  <2>1. calling \in BOOLEAN BY DEF DecodeInv, TypeOK
  <2> QED BY <1>1, <2>1, Zenon
<1> QED BY <1>1, <1>2, ResetDecode

LEMMA StutterDecode ==
    ASSUME DecodeInv, UNCHANGED <<authed, cmd, pt, val, mem, lost, calling, process>>
    PROVE  DecodeInv'
<1>1. Receiver' = Receiver /\ Steps' = Steps
      BY DEF Receiver, Steps
<1> QED BY <1>1 DEF DecodeInv, TypeOK, InTable

--------------------------------------------------------------------------------
(* The packets of TWS.                                                        *)

LEMMA TokenIsNat ==
    ASSUME NEW sh \in Shapes, NEW s
    PROVE  TokenOf(sh, s) \in Nat
<1>1. /\ sh.version \in Nat /\ sh.count \in Nat /\ sh.flag \in Nat /\ sh.filled \in Nat
      BY ShapesAssumption
<1>2. \A name : CountOf(sh, name) \in Nat /\ FlagOf(sh, name) \in Nat
      BY <1>1 DEF CountOf, FlagOf, Odd
<1> QED BY <1>1, <1>2 DEF TokenOf

IInv == DecodeInv /\ (outgoing # Start => sending \in Shapes)

LEMMA DecodeStep ==
    ASSUME IInv, [Next]_vars
    PROVE  IInv'
<1>0. DecodeInv /\ authed \in BOOLEAN
      BY DEF IInv, DecodeInv, TypeOK
<1>1. CASE Greet
  <2>1. sending' \in Shapes BY <1>1 DEF Greet, Begin
  <2>2. DecodeInv' BY <1>0, <1>1, StutterDecode DEF Greet, packet
  <2> QED BY <2>1, <2>2 DEF IInv
<1>2. CASE SendPacket
  <2>1. PICK sh \in Shapes : PacketId(sh.cmd) /\ sending' = sh BY <1>2 DEF SendPacket, Begin
  <2>2. sh.cmd \in DOMAIN Packets \cup {"", UNKNOWN} BY ShapesAssumption
  <2>3. DecodeInv' BY <1>0, <1>2, <2>1, <2>2, DispatchDecode DEF SendPacket
  <2> QED BY <2>1, <2>3 DEF IInv
<1>3. ASSUME NEW token \in Arriving, GoOn
      PROVE  token \in Nat /\ (outgoing' # Start => sending' \in Shapes)
  <2>1. outgoing # Start /\ token = TokenOf(sending, Layout(sending.cmd)[outgoing[1]])
        BY DEF Arriving
  <2>2. sending \in Shapes BY <2>1 DEF IInv
  <2>3. token \in Nat BY <2>1, <2>2, TokenIsNat
  <2> QED BY <1>3, <2>2, <2>3 DEF GoOn
<1>4. ASSUME NEW token \in Arriving, GoOn, UNCHANGED authed,
             TakeToken(token) \/ Crash(token) \/ UnknownPacket
      PROVE  IInv'
  <2>1. DecodeInv' BY <1>0, <1>3, <1>4, TokenDecode, DispatchDecode
  <2> QED BY <1>3, <1>4, <2>1 DEF IInv
<1>5. ASSUME NEW token \in Arriving, GoOn, LoginDone(token), authed' = TRUE
      PROVE  IInv'
  <2>1. DecodeInv' BY <1>0, <1>5, EndDecode
  <2> QED BY <1>3, <1>5, <2>1 DEF IInv
<1>6. CASE End /\ UNCHANGED <<authed, sending, outgoing>>
  <2>1. DecodeInv' BY <1>0, <1>6, EndDecode
  <2> QED BY <1>6, <2>1 DEF IInv
<1>7. CASE Reconnect /\ authed' = FALSE /\ sending' = Idle /\ outgoing' = Start
  <2>1. DecodeInv' BY <1>0, <1>7, EndDecode
  <2> QED BY <1>7, <2>1 DEF IInv
<1>8. CASE UNCHANGED vars
  <2>1. DecodeInv' BY <1>0, <1>8, StutterDecode DEF vars, packet
  <2> QED BY <1>8, <2>1 DEF IInv, vars
<1> QED BY <1>1, <1>2, <1>4, <1>5, <1>6, <1>7, <1>8 DEF Next

LEMMA DecodeInit == Init => IInv
<1> SUFFICES ASSUME Init PROVE IInv
    OBVIOUS
<1>1. authed \in BOOLEAN BY Zenon DEF Init
<1>2. DecodeInv BY <1>1, InitDecode DEF Init
<1> QED BY <1>2 DEF IInv, Init

(* Whatever the packets, their versions, lengths and flags, and wherever      *)
(* connections are lost: a decoder waits at a step of its packet's table, in  *)
(* an element of an array that is as long (the loops of tws_decode.c).        *)
THEOREM DecoderStaysInTable == Spec => []TypeOK
<1>1. IInv => TypeOK
      BY DEF IInv, DecodeInv
<1> QED BY <1>1, DecodeInit, DecodeStep, PTL DEF Spec

--------------------------------------------------------------------------------
(* The memory of a packet, for the actions of the client, whatever tokens     *)
(* they get: what the slots hold follows from the steps taken so far.         *)

\* What is still stale was so at the beginning, and its steps are to come.
StaleInv ==
    \A s \in DOMAIN mem : mem[s] = "stale" =>
        /\ s \in DOMAIN FreshMemory(Receiver) /\ FreshMemory(Receiver)[s] = "stale"
        /\ \A k \in DOMAIN Steps :
              Assigns(Steps[k], s[1]) /\ InVersion(PacketVersion, Steps[k]) =>
                  ~calling /\ pt[1] <= k

\* The step k has assigned memory to the slot s, in this version.
Assigned(s, version, k) ==
    s[2] \in Nat /\ Owns(Steps[k]) /\ Steps[k].name = s[1] /\ InVersion(version, Steps[k])

OfElement(s, k) == Steps[k].kind = "same" /\ Steps[k].name = s[1]

OwnedInv ==
    \A s \in DOMAIN mem : mem[s] = "owned" =>
        \/ s[1] \in Packets[Receiver].made
        \/ \E k \in Reached(Packets[Receiver]) :
              \/ OfElement(s, k)
              \/ Assigned(s, PacketVersion, k) /\ (calling \/ Precedes(Steps, <<k, s[2]>>, pt))

\* An array that would crash the client is empty.
DerefInv ==
    \A k \in DOMAIN Steps : k \notin Reached(Packets[Receiver]) => Value(val, Steps[k].loop) = 0

MemInv ==
    /\ pt = PtInit /\ ~calling => val = <<>>
    /\ pt # PtInit => pt[1] # 1
    /\ pt # PtInit \/ calling =>
          Receiver \in DOMAIN Packets /\ StaleInv /\ OwnedInv /\ DerefInv

LostInv ==
    IF pt = PtInit /\ ~calling THEN lost = {}
    ELSE \A n \in lost : Leaks(Receiver, n, PacketVersion)

LEMMA FreshFacts ==
    ASSUME NEW c, NEW s \in DOMAIN FreshMemory(c)
    PROVE  /\ s = <<s[1], 0>>
           /\ FreshMemory(c)[s] = "owned" => s[1] \in Packets[c].made
BY DEF FreshMemory

LEMMA ElementsFacts ==
    ASSUME NEW m, NEW array, NEW n, NEW x \in DOMAIN WithElements(m, array, n)
    PROVE  LET e == WithElements(m, array, n)[x]
           IN  /\ e = "stale" => x \in DOMAIN m /\ m[x] = "stale"
               /\ e = "owned" =>
                     \/ x \in DOMAIN m /\ m[x] = "owned"
                     \/ \E k \in DOMAIN Steps : OfElement(x, k) /\ Steps[k].loop = array
<1> DEFINE body == {s \in ToSet(Steps) : s.loop = array /\ s.kind \in {"str", "same"}}
           new == {<<y.name, j>> : y \in body, j \in 0..n-1}
           same == \E y \in body : y.name = x[1] /\ y.kind = "same"
<1>1. /\ DOMAIN WithElements(m, array, n) = DOMAIN m \cup new
      /\ WithElements(m, array, n)[x] =
            IF x \notin new THEN m[x] ELSE IF same THEN "owned" ELSE "null"
      BY DEF WithElements
<1>2. same => \E k \in DOMAIN Steps : OfElement(x, k) /\ Steps[k].loop = array
      BY DEF ToSet, OfElement
<1> HIDE DEF new, same
<1> QED BY <1>1, <1>2

LEMMA AssignFacts ==
    ASSUME NEW m, NEW y, NEW e, NEW x \in DOMAIN Assign(m, y, e)
    PROVE  IF x = y THEN Assign(m, y, e)[x] = e ELSE x \in DOMAIN m /\ Assign(m, y, e)[x] = m[x]
BY DEF Assign

(* What a token makes of the slots.                                           *)
LEMMA StoreFacts ==
    ASSUME NEW m, NEW s, NEW j, NEW token, NEW x \in DOMAIN Store(m, s, j, token)
    PROVE  LET e == Store(m, s, j, token)[x]
           IN  /\ e = "stale" =>
                     /\ x \in DOMAIN m /\ m[x] = "stale"
                     /\ s.kind \in {"str", "dup", "num"} /\ s.name # NONE => x # <<s.name, j>>
               /\ e = "owned" =>
                     \/ x \in DOMAIN m /\ m[x] = "owned"
                     \/ Owns(s) /\ x = <<s.name, j>>
                     \/ /\ s.kind = "count" /\ token > 0
                        /\ \E k \in DOMAIN Steps : OfElement(x, k) /\ Steps[k].loop = s.name
<1> DEFINE y == <<s.name, j>>
           set(value) == Assign(m, y, value)
           e == Store(m, s, j, token)[x]
<1>1. Store(m, s, j, token) =
          CASE s.kind = "str" -> set(IF token = 0 THEN "null" ELSE "owned")
            [] s.kind = "num" /\ s.name # NONE -> set("null")
            [] s.kind = "dup" -> set("owned")
            [] s.kind = "alloc" /\ token # 0 -> set("owned")
            [] s.kind = "count" /\ token > 0 -> WithElements(set("owned"), s.name, token)
            [] OTHER -> m
      BY Zenon DEF Store
<1>2. \A value : x \in DOMAIN set(value) =>
          IF x = y THEN set(value)[x] = value ELSE x \in DOMAIN m /\ set(value)[x] = m[x]
      BY AssignFacts
<1>3. x \in DOMAIN WithElements(set("owned"), s.name, token) =>
          LET f == WithElements(set("owned"), s.name, token)[x]
          IN  /\ f = "stale" => x \in DOMAIN set("owned") /\ set("owned")[x] = "stale"
              /\ f = "owned" =>
                    \/ x \in DOMAIN set("owned") /\ set("owned")[x] = "owned"
                    \/ \E k \in DOMAIN Steps : OfElement(x, k) /\ Steps[k].loop = s.name
      BY ElementsFacts
<1> DEFINE same == \E k \in DOMAIN Steps : OfElement(x, k) /\ Steps[k].loop = s.name
           Goal == /\ e = "stale" =>
                         /\ x \in DOMAIN m /\ m[x] = "stale"
                         /\ s.kind \in {"str", "dup", "num"} /\ s.name # NONE => x # y
                   /\ e = "owned" =>
                         \/ x \in DOMAIN m /\ m[x] = "owned"
                         \/ Owns(s) /\ x = y
                         \/ s.kind = "count" /\ token > 0 /\ same
<1> HIDE DEF y, set, same
<1>4. CASE s.kind = "str"
  <2>1. Store(m, s, j, token) = set(IF token = 0 THEN "null" ELSE "owned") BY <1>1, <1>4
  <2>2. Goal BY <1>2, <1>4, <2>1 DEF Owns
  <2> QED BY <2>2, Zenon DEF y, same
<1>5. CASE s.kind = "num"
  <2>1. Store(m, s, j, token) = IF s.name # NONE THEN set("null") ELSE m BY <1>1, <1>5
  <2>2. Goal BY <1>2, <1>5, <2>1 DEF Owns
  <2> QED BY <2>2, Zenon DEF y, same
<1>6. CASE s.kind = "dup"
  <2>1. Store(m, s, j, token) = set("owned") BY <1>1, <1>6
  <2>2. Goal BY <1>2, <1>6, <2>1 DEF Owns
  <2> QED BY <2>2, Zenon DEF y, same
<1>7. CASE s.kind = "alloc"
  <2>1. Store(m, s, j, token) = IF token # 0 THEN set("owned") ELSE m BY <1>1, <1>7
  <2>2. Goal BY <1>2, <1>7, <2>1 DEF Owns
  <2> QED BY <2>2, Zenon DEF y, same
<1>8. CASE s.kind = "count"
  <2>1. Store(m, s, j, token) =
            IF token > 0 THEN WithElements(set("owned"), s.name, token) ELSE m
        BY <1>1, <1>8
  <2>2. CASE token > 0
    <3>1. Goal BY <1>2, <1>3, <1>8, <2>1, <2>2 DEF Owns, same
    <3> QED BY <3>1, Zenon DEF y, same
  <2>3. CASE ~(token > 0)
    <3>1. Goal BY <1>8, <2>1, <2>3
    <3> QED BY <3>1, Zenon DEF y, same
  <2> QED BY <2>2, <2>3
<1>9. CASE s.kind \notin {"str", "num", "dup", "alloc", "count"}
  <2>1. Store(m, s, j, token) = m BY <1>1, <1>9
  <2>2. Goal BY <1>9, <2>1
  <2> QED BY <2>2, Zenon DEF y, same
<1> QED BY <1>4, <1>5, <1>6, <1>7, <1>8, <1>9

LEMMA ReachedFacts ==
    ASSUME NEW k
    PROVE  k \in Reached(Packets[Receiver]) <=>
               /\ k \in DOMAIN Steps
               /\ Steps[k].loop = NONE \/ Steps[k].loop \notin Packets[Receiver].derefs
BY DEF Reached, Steps

(* What the invariants say when a token comes, of the version that is known   *)
(* with it, at the beginning of a packet and later.                           *)
LEMMA BeforeToken ==
    ASSUME DecodeInv, MemInv, Resumes, NEW token \in Nat
    PROVE  LET version == Value(Values(token), VERSION)
           IN  /\ version \in Nat
               /\ pt # PtInit => version = PacketVersion
               /\ InVersion(version, AtStep) /\ At[1] \in Reached(Packets[Receiver])
               /\ \A s \in DOMAIN Memory : Memory[s] = "stale" =>
                     /\ s \in DOMAIN FreshMemory(Receiver) /\ FreshMemory(Receiver)[s] = "stale"
                     /\ \A k \in DOMAIN Steps :
                           Assigns(Steps[k], s[1]) /\ InVersion(version, Steps[k]) => At[1] <= k
               /\ \A s \in DOMAIN Memory : Memory[s] = "owned" =>
                     \/ s[1] \in Packets[Receiver].made
                     \/ \E k \in Reached(Packets[Receiver]) :
                           \/ OfElement(s, k)
                           \/ Assigned(s, version, k) /\ Precedes(Steps, <<k, s[2]>>, At)
               /\ DerefInv
<1> DEFINE version == Value(Values(token), VERSION)
<1>1. /\ Ordered(Steps) /\ DOMAIN Steps = 1..Len(Steps) /\ At[1] \in DOMAIN Steps
      /\ AtStep.loop # NONE => pt # PtInit
      BY AtFacts
<1>2. version \in Nat BY ValuesFacts
<1>3. ~calling /\ Receiver \in DOMAIN Packets BY DEF Resumes, Takes
<1>4. CASE pt = PtInit
  <2>1. At[1] = 1 /\ Memory = FreshMemory(Receiver) /\ AtStep = Steps[1]
    <3>1. At = <<1, 0>> BY <1>4 DEF At
    <3> QED BY <1>4, <3>1 DEF AtStep, Memory
  <2>2. InVersion(version, AtStep)
        BY <1>1, <1>2, <2>1, OrderedFacts DEF InVersion
  <2>3. At[1] \in Reached(Packets[Receiver])
        BY <1>1, <1>4, ReachedFacts DEF AtStep
  <2>4. \A k \in DOMAIN Steps : At[1] <= k BY <1>1, <2>1
  <2>5. \A s \in DOMAIN Memory : Memory[s] = "owned" => s[1] \in Packets[Receiver].made
        BY <2>1, FreshFacts
  <2>6. \A n : Value(val, n) = 0
    <3>1. val = <<>> BY <1>3, <1>4 DEF MemInv
    <3>2. DOMAIN val = {} BY <3>1, EmptyDomain, Zenon
    <3> QED BY <3>2 DEF Value
  <2>7. DerefInv BY <2>6 DEF DerefInv
  <2> QED BY <1>2, <1>4, <2>1, <2>2, <2>3, <2>4, <2>5, <2>7
<1>5. CASE pt # PtInit
  <2>1. /\ At = pt /\ Memory = mem /\ AtStep = Steps[pt[1]] /\ pt[1] # 1
        /\ StaleInv /\ OwnedInv /\ DerefInv
        BY <1>5 DEF At, Memory, AtStep, MemInv
  <2>2. version = PacketVersion
    <3>1. AtStep.name # VERSION BY <1>1, <2>1, OrderedSteps DEF AtStep
    <3>2. (AtStep.name # NONE /\ AtStep.name = VERSION) \/ version = Value(val, VERSION)
          BY ValuesFacts
    <3> QED BY <3>1, <3>2 DEF PacketVersion
  <2>3. YieldsAt(Steps, val, pt[1]) BY <1>3, <1>5 DEF DecodeInv
  <2>4. /\ InVersion(PacketVersion, AtStep)
        /\ AtStep.loop # NONE => Value(val, AtStep.loop) > 0
        BY <2>1, <2>3 DEF YieldsAt, Enabled, PacketVersion
  <2>5. At[1] \in Reached(Packets[Receiver])
    <3> SUFFICES ASSUME At[1] \notin Reached(Packets[Receiver]) PROVE FALSE
        OBVIOUS
    <3>1. AtStep.loop # NONE BY <1>1, ReachedFacts DEF AtStep
    <3>2. Value(val, AtStep.loop) = 0 BY <1>1, <2>1 DEF DerefInv
    <3> QED BY <2>4, <3>1, <3>2
  <2>6. \A s \in DOMAIN Memory : Memory[s] = "stale" =>
            /\ s \in DOMAIN FreshMemory(Receiver) /\ FreshMemory(Receiver)[s] = "stale"
            /\ \A k \in DOMAIN Steps :
                  Assigns(Steps[k], s[1]) /\ InVersion(version, Steps[k]) => At[1] <= k
    <3> HIDE DEF version
    <3> QED BY <2>1, <2>2 DEF StaleInv
  <2>7. \A s \in DOMAIN Memory : Memory[s] = "owned" =>
            \/ s[1] \in Packets[Receiver].made
            \/ \E k \in Reached(Packets[Receiver]) :
                  \/ OfElement(s, k)
                  \/ Assigned(s, version, k) /\ Precedes(Steps, <<k, s[2]>>, At)
    <3> HIDE DEF version
    <3> QED BY <1>3, <2>1, <2>2, Zenon DEF OwnedInv
  <2> HIDE DEF version
  <2>8. InVersion(version, AtStep) BY <2>2, <2>4
  <2> QED BY <1>2, <2>1, <2>2, <2>5, <2>6, <2>7, <2>8, Zenon DEF version
<1> QED BY <1>4, <1>5

(* Where the token leaves the protothread, in terms of the order of places.   *)
LEMMA AfterToken ==
    ASSUME DecodeInv, MemInv, Resumes, NEW token \in Nat, TakeToken(token), UNCHANGED authed
    PROVE  /\ Receiver' = Receiver /\ Steps' = Steps
           /\ val' = Values(token) /\ PacketVersion' = Value(Values(token), VERSION)
           /\ pt' # PtInit => pt'[1] # 1
           /\ pt' # PtInit \/ calling'
           /\ ~calling' =>
                 /\ pt'[1] \in DOMAIN Steps /\ pt'[2] \in Nat
                 /\ Precedes(Steps, <<At[1], At[2]>>, pt')
           /\ \A k \in DOMAIN Steps :
                 At[1] < k /\ Steps[k].loop = NONE /\ YieldsAt(Steps, Values(token), k) =>
                     ~calling' /\ pt'[1] <= k
<1> DEFINE v == Values(token)
           next == Next_(token)
           i == At[1]
           j == At[2]
<1>1. /\ val' = v /\ calling' = (next = PtInit) /\ pt' = IF next = PtInit THEN pt ELSE next
      /\ UNCHANGED <<authed, cmd>>
      BY DEF TakeToken
<1>2. Receiver' = Receiver /\ Steps' = Steps
      BY <1>1 DEF Receiver, Steps
<1>3. PacketVersion' = Value(v, VERSION)
      BY <1>1 DEF PacketVersion
<1>4. FirstBehind(Steps, v, i, j, next)
      BY NextFacts
<1>5. /\ DOMAIN Steps = 1..Len(Steps) /\ Len(Steps) \in Nat /\ i \in DOMAIN Steps
      BY AtFacts
<1>6. ASSUME NEW k \in DOMAIN Steps, i < k, Steps[k].loop = NONE, YieldsAt(Steps, v, k)
      PROVE  /\ IsPlace(Steps, v, k, 0) /\ Precedes(Steps, <<i, j>>, <<k, 0>>)
             /\ \A m, n : Precedes(Steps, <<m, n>>, <<k, 0>>) => m < k
      BY <1>6, PrecedesIs DEF IsPlace, InLoop
<1>7. pt' # PtInit => pt'[1] # 1
  <2>1. CASE next = PtInit
    <3>1. pt' = pt BY <1>1, <2>1
    <3>2. pt # PtInit => pt[1] # 1 BY DEF MemInv
    <3> QED BY <3>1, <3>2
  <2>2. CASE next # PtInit
    <3>1. PICK m, n : next = <<m, n>> /\ m # 1
          BY <1>4, <2>2, Zenon DEF FirstBehind, PtInit
    <3> QED BY <1>1, <2>2, <3>1
  <2> QED BY <2>1, <2>2
<1>8. pt' # PtInit \/ calling'
      BY <1>1
<1> HIDE DEF v, next, i, j
<1>9. CASE next = PtInit
  <2>1. calling' /\ \A k, l : IsPlace(Steps, v, k, l) => ~Precedes(Steps, <<i, j>>, <<k, l>>)
    <3>1. ~\E m, n : next = <<m, n>> /\ IsPlace(Steps, v, m, n)
      <4> SUFFICES ASSUME NEW m, NEW n, next = <<m, n>>, IsPlace(Steps, v, m, n) PROVE FALSE
          OBVIOUS
      <4>1. m = 0 BY <1>9 DEF PtInit, Start
      <4>2. m \in DOMAIN Steps BY DEF IsPlace
      <4> QED BY <1>5, <4>1, <4>2
    <3>2. \A k, l : IsPlace(Steps, v, k, l) => ~Precedes(Steps, <<i, j>>, <<k, l>>)
          BY <1>4, <3>1, Zenon DEF FirstBehind
    <3> QED BY <1>1, <1>9, <3>2
  <2>2. \A k \in DOMAIN Steps :
            ~(i < k /\ Steps[k].loop = NONE /\ YieldsAt(Steps, v, k))
        BY <1>6, <2>1, Zenon
  <2> QED BY <1>1, <1>2, <1>3, <1>7, <1>8, <2>1, <2>2, Zenon DEF v, i, j
<1>10. CASE next # PtInit
  <2>1. PICK m, n : /\ next = <<m, n>> /\ IsPlace(Steps, v, m, n)
                    /\ Precedes(Steps, <<i, j>>, <<m, n>>)
                    /\ \A k, l : IsPlace(Steps, v, k, l) /\ Precedes(Steps, <<i, j>>, <<k, l>>) =>
                            <<k, l>> = <<m, n>> \/ Precedes(Steps, <<m, n>>, <<k, l>>)
        BY <1>4, <1>10, Zenon DEF FirstBehind, PtInit
  <2>2. ~calling' /\ pt' = <<m, n>> /\ pt'[1] = m /\ pt'[2] = n
        BY <1>1, <1>10, <2>1
  <2>3. m \in DOMAIN Steps /\ n \in Nat BY <2>1 DEF IsPlace
  <2>4. ASSUME NEW k \in DOMAIN Steps, i < k, Steps[k].loop = NONE, YieldsAt(Steps, v, k)
        PROVE  m <= k
    <3>1. <<k, 0>> = <<m, n>> \/ m < k BY <1>6, <2>1, <2>4
    <3>2. k = m \/ m < k BY <3>1
    <3> QED BY <1>5, <2>3, <3>2
  <2>5. pt'[1] \in DOMAIN Steps /\ pt'[2] \in Nat /\ Precedes(Steps, <<i, j>>, pt')
        BY <2>1, <2>2, <2>3
  <2>6. \A k \in DOMAIN Steps :
            i < k /\ Steps[k].loop = NONE /\ YieldsAt(Steps, v, k) => ~calling' /\ pt'[1] <= k
        BY <2>2, <2>4
  <2> QED BY <1>1, <1>2, <1>3, <1>7, <1>8, <2>5, <2>6, Zenon DEF v, i, j
<1> QED BY <1>9, <1>10

LEMMA TokenMem ==
    ASSUME DecodeInv, MemInv, NEW token \in Nat, TakeToken(token), UNCHANGED authed
    PROVE  MemInv'
<1> DEFINE version == Value(Values(token), VERSION)
           i == At[1]
           j == At[2]
<1>1. /\ Resumes /\ Receiver \in DOMAIN Packets /\ ~DerefsNull(token)
      /\ mem' = Store(Memory, AtStep, j, token)
      BY DEF TakeToken, Resumes
<1>2. /\ Ordered(Steps) /\ DOMAIN Steps = 1..Len(Steps) /\ Len(Steps) \in Nat
      /\ i \in DOMAIN Steps /\ j \in Nat /\ AtStep = Steps[i]
      /\ AtStep.loop = NONE => j = 0
      BY <1>1, AtFacts DEF AtStep
<1>3. /\ Receiver' = Receiver /\ Steps' = Steps /\ PacketVersion' = version
      /\ val' = Values(token)
      /\ pt' # PtInit => pt'[1] # 1
      /\ pt' # PtInit \/ calling'
      /\ ~calling' => /\ pt'[1] \in DOMAIN Steps /\ pt'[2] \in Nat
                      /\ Precedes(Steps, <<i, j>>, pt')
      /\ \A k \in DOMAIN Steps :
            i < k /\ Steps[k].loop = NONE /\ YieldsAt(Steps, Values(token), k) =>
                ~calling' /\ pt'[1] <= k
      BY <1>1, AfterToken
<1>4. /\ version \in Nat /\ InVersion(version, AtStep) /\ i \in Reached(Packets[Receiver])
      /\ \A s \in DOMAIN Memory : Memory[s] = "stale" =>
            /\ s \in DOMAIN FreshMemory(Receiver) /\ FreshMemory(Receiver)[s] = "stale"
            /\ \A k \in DOMAIN Steps :
                  Assigns(Steps[k], s[1]) /\ InVersion(version, Steps[k]) => i <= k
      /\ \A s \in DOMAIN Memory : Memory[s] = "owned" =>
            \/ s[1] \in Packets[Receiver].made
            \/ \E k \in Reached(Packets[Receiver]) :
                  \/ OfElement(s, k)
                  \/ Assigned(s, version, k) /\ Precedes(Steps, <<k, s[2]>>, At)
      /\ DerefInv
      BY <1>1, BeforeToken, Zenon
<1>5. FreshMemory(Receiver)' = FreshMemory(Receiver) /\ Packets[Receiver]' = Packets[Receiver]
      BY <1>3 DEF FreshMemory
<1>6. StaleInv'
  <2> SUFFICES ASSUME NEW s \in DOMAIN mem', mem'[s] = "stale"
               PROVE  /\ s \in DOMAIN FreshMemory(Receiver) /\ FreshMemory(Receiver)[s] = "stale"
                      /\ \A k \in DOMAIN Steps :
                            Assigns(Steps[k], s[1]) /\ InVersion(version, Steps[k]) =>
                                ~calling' /\ pt'[1] <= k
      BY <1>3, <1>5 DEF StaleInv
  <2>1. /\ s \in DOMAIN Memory /\ Memory[s] = "stale"
        /\ AtStep.kind \in {"str", "dup", "num"} /\ AtStep.name # NONE => s # <<AtStep.name, j>>
        BY <1>1, StoreFacts
  <2>2. s \in DOMAIN FreshMemory(Receiver) /\ FreshMemory(Receiver)[s] = "stale"
        BY <1>4, <2>1
  <2>3. s = <<s[1], 0>> BY <2>2, FreshFacts
  <2>4. ASSUME NEW k \in DOMAIN Steps, Assigns(Steps[k], s[1]), InVersion(version, Steps[k])
        PROVE  ~calling' /\ pt'[1] <= k
    <3>1. i <= k BY <1>4, <2>1, <2>4
    <3>2. /\ Steps[k].kind \in {"str", "dup", "num"} /\ Steps[k].loop = NONE
          /\ Steps[k].when = NONE /\ Steps[k].name = s[1] /\ s[1] # NONE
          BY <2>4 DEF Assigns, Writes
    <3>3. i # k
      <4> SUFFICES ASSUME i = k PROVE FALSE
          OBVIOUS
      <4>1. AtStep = Steps[k] BY <1>2
      <4>2. j = 0 BY <1>2, <3>2, <4>1
      <4>3. s # <<s[1], 0>> BY <2>1, <3>2, <4>1, <4>2
      <4> QED BY <2>3, <4>3
    <3>4. YieldsAt(Steps, Values(token), k)
          BY <2>4, <3>2 DEF YieldsAt, Enabled
    <3>5. i < k BY <1>2, <3>1, <3>3
    <3> QED BY <1>3, <3>2, <3>4, <3>5
  <2> QED BY <2>2, <2>4
<1>7. OwnedInv'
  <2> SUFFICES ASSUME NEW s \in DOMAIN mem', mem'[s] = "owned"
               PROVE  \/ s[1] \in Packets[Receiver].made
                      \/ \E k \in Reached(Packets[Receiver]) :
                            \/ OfElement(s, k)
                            \/ Assigned(s, version, k)
                                 /\ (calling' \/ Precedes(Steps, <<k, s[2]>>, pt'))
      BY <1>3, <1>5 DEF OwnedInv, OfElement, Assigned
  <2>1. \/ s \in DOMAIN Memory /\ Memory[s] = "owned"
        \/ Owns(AtStep) /\ s = <<AtStep.name, j>>
        \/ /\ AtStep.kind = "count" /\ token > 0
           /\ \E k \in DOMAIN Steps : OfElement(s, k) /\ Steps[k].loop = AtStep.name
        BY <1>1, StoreFacts
  <2>2. CASE s \in DOMAIN Memory /\ Memory[s] = "owned"
    <3>1. CASE s[1] \in Packets[Receiver].made BY <3>1
    <3>2. CASE \E k \in Reached(Packets[Receiver]) : OfElement(s, k) BY <3>2
    <3>3. CASE \E k \in Reached(Packets[Receiver]) :
                  Assigned(s, version, k) /\ Precedes(Steps, <<k, s[2]>>, At)
      <4>1. PICK k \in Reached(Packets[Receiver]) :
                Assigned(s, version, k) /\ Precedes(Steps, <<k, s[2]>>, At)
            BY <3>3
      <4>2. k \in DOMAIN Steps /\ s[2] \in Nat BY <4>1, ReachedFacts DEF Assigned
      <4>3. ~calling' => Precedes(Steps, <<k, s[2]>>, pt')
        <5> SUFFICES ASSUME ~calling' PROVE Precedes(Steps, <<k, s[2]>>, pt')
            OBVIOUS
        <5>1. PlaceIn(Steps, pt') /\ PlaceIn(Steps, At) /\ PlaceIn(Steps, <<k, s[2]>>)
              BY <1>2, <1>3, <4>2 DEF PlaceIn
        <5>2. Precedes(Steps, At, pt') BY <1>3 DEF Precedes
        <5> QED BY <1>2, <4>1, <5>1, <5>2, PrecedesTransitive
      <4> QED BY <4>1, <4>3
    <3> HIDE DEF version
    <3> QED BY <1>4, <2>2, <3>1, <3>2, <3>3, Zenon
  <2>3. CASE Owns(AtStep) /\ s = <<AtStep.name, j>>
    <3>1. s[1] = AtStep.name /\ s[2] = j BY <2>3
    <3>2. Assigned(s, version, i) BY <1>2, <1>4, <2>3, <3>1 DEF Assigned
    <3>3. calling' \/ Precedes(Steps, <<i, s[2]>>, pt') BY <1>3, <3>1
    <3> QED BY <1>4, <3>2, <3>3
  <2>4. CASE /\ AtStep.kind = "count" /\ token > 0
             /\ \E k \in DOMAIN Steps : OfElement(s, k) /\ Steps[k].loop = AtStep.name
    <3>1. PICK k \in DOMAIN Steps : OfElement(s, k) /\ Steps[k].loop = AtStep.name
          BY <2>4
    <3>2. AtStep.name \notin Packets[Receiver].derefs
          BY <1>1, <2>4 DEF DerefsNull
    <3>3. k \in Reached(Packets[Receiver]) BY <3>1, <3>2, ReachedFacts
    <3> QED BY <3>1, <3>3
  <2> QED BY <2>1, <2>2, <2>3, <2>4
<1>8. DerefInv'
  <2> SUFFICES ASSUME NEW k \in DOMAIN Steps, k \notin Reached(Packets[Receiver])
               PROVE  Value(Values(token), Steps[k].loop) = 0
      BY <1>3, <1>5 DEF DerefInv
  <2>1. Value(val, Steps[k].loop) = 0 BY <1>4 DEF DerefInv
  <2>2. Steps[k].loop # NONE /\ Steps[k].loop \in Packets[Receiver].derefs
        BY ReachedFacts
  <2>3. CASE AtStep.name = Steps[k].loop
    <3>1. AtStep.kind = "count"
          BY <1>1, <1>2, <2>2, <2>3, PacketsAssumption DEF PacketsOK, Consistent, Steps
    <3>2. ~(token > 0) BY <1>1, <2>2, <2>3, <3>1 DEF DerefsNull
    <3>3. token = 0 BY <3>2
    <3>4. Value(Values(token), AtStep.name) = token
          BY <2>2, <2>3 DEF Values, Value, Assign
    <3> QED BY <2>3, <3>3, <3>4
  <2>4. CASE AtStep.name # Steps[k].loop
    <3>1. Value(Values(token), Steps[k].loop) = Value(val, Steps[k].loop)
          BY <2>4, ValuesFacts
    <3> QED BY <2>1, <3>1
  <2> QED BY <2>3, <2>4
<1>9. Receiver' \in DOMAIN Packets
      BY <1>1, <1>3
<1> QED BY <1>3, <1>6, <1>7, <1>8, <1>9, Zenon DEF MemInv

LEMMA LeaksLater ==
    ASSUME NEW c, NEW slot, NEW v \in Nat, NEW w \in Nat, v <= w, Leaks(c, slot, v)
    PROVE  Leaks(c, slot, w)
<1>1. PICK k \in KnownLeaks : k[1] = c /\ k[2] = slot /\ k[3] =< v
      BY DEF Leaks
<1>2. k[3] \in Nat
      BY DEF KnownLeaks
<1> QED BY <1>1, <1>2 DEF Leaks

(* A string that replaces another, or what was allocated before, is known.    *)
LEMMA TokenLost ==
    ASSUME DecodeInv, MemInv, LostInv, Frees,
           NEW token \in Nat, TakeToken(token), UNCHANGED authed
    PROVE  LostInv'
<1> DEFINE version == Value(Values(token), VERSION)
           i == At[1]
           j == At[2]
           p == Packets[Receiver]
<1>1. /\ Resumes /\ Receiver \in DOMAIN Packets /\ ~calling
      /\ lost' = lost \cup Overwritten(Memory, AtStep, j)
      BY DEF TakeToken, Resumes, Takes
<1>2. /\ Ordered(Steps) /\ i \in DOMAIN Steps /\ j \in Nat /\ AtStep = Steps[i]
      /\ Steps = p.steps
      BY <1>1, AtFacts DEF AtStep, Steps
<1>3. /\ Receiver' = Receiver /\ PacketVersion' = version /\ (pt' # PtInit \/ calling')
      BY <1>1, AfterToken
<1>4. /\ version \in Nat
      /\ pt # PtInit => version = PacketVersion
      /\ InVersion(version, AtStep) /\ i \in Reached(p)
      /\ \A s \in DOMAIN Memory : Memory[s] = "owned" =>
            \/ s[1] \in p.made
            \/ \E k \in Reached(p) :
                  \/ OfElement(s, k)
                  \/ Assigned(s, version, k) /\ Precedes(Steps, <<k, s[2]>>, At)
      BY <1>1, BeforeToken
<1>5. \A k \in DOMAIN Steps : Steps[k].from \in Nat /\ Steps[k].below \in Nat
      BY <1>2, OrderedFacts
<1>6. ASSUME NEW n \in lost PROVE Leaks(Receiver, n, version)
  <2>1. pt # PtInit BY <1>1, <1>6 DEF LostInv
  <2>2. Leaks(Receiver, n, PacketVersion) BY <1>6, <2>1 DEF LostInv
  <2> HIDE DEF version
  <2> QED BY <1>4, <2>1, <2>2
<1>7. ASSUME NEW n \in Overwritten(Memory, AtStep, j) PROVE Leaks(Receiver, n, version)
  <2> DEFINE s == <<AtStep.name, j>>
             from == AtStep.from
  <2>1. n = AtStep.name /\ Forgets(AtStep) /\ s \in DOMAIN Memory /\ Memory[s] = "owned"
        BY <1>7 DEF Overwritten, Forgets
  <2>2. s[1] = n /\ s[2] = j BY <2>1
  <2>3. from \in Nat /\ from <= version
        BY <1>2, <1>4, <1>5 DEF InVersion
  <2>4. CASE s[1] \in p.made
    <3>1. Leaks(Receiver, n, from)
          BY <1>1, <1>2, <1>4, <2>1, <2>2, <2>4 DEF Frees
    <3> QED BY <1>4, <2>3, <3>1, LeaksLater
  <2>5. CASE \E k \in Reached(p) : OfElement(s, k)
    <3>1. PICK k \in Reached(p) : Steps[k].kind = "same" /\ Steps[k].name = n
          BY <2>2, <2>5 DEF OfElement
    <3>2. k # i BY <1>2, <2>1, <3>1 DEF Forgets
    <3> QED BY <1>1, <1>2, <1>4, <2>1, <3>1, <3>2 DEF Frees
  <2>6. CASE \E k \in Reached(p) : Assigned(s, version, k) /\ Precedes(Steps, <<k, s[2]>>, At)
    <3>1. PICK k \in Reached(p) : Assigned(s, version, k) /\ Precedes(Steps, <<k, s[2]>>, At)
          BY <2>6
    <3>2. /\ k \in DOMAIN Steps /\ Owns(Steps[k]) /\ Steps[k].name = n
          /\ InVersion(version, Steps[k])
          BY <2>2, <3>1, ReachedFacts DEF Assigned
    <3>3. k # i
      <4>1. Precedes(Steps, <<k, j>>, <<i, j>>) BY <2>2, <3>1 DEF Precedes
      <4>2. i \in Nat BY <1>1, AtFacts
      <4> QED BY <1>2, <4>1, <4>2, PrecedesIs
    <3> DEFINE t == Steps[k]
               later == Later(AtStep, t)
    <3>4. later \in Nat /\ later <= version
          BY <1>4, <1>5, <2>3, <3>2 DEF Later, InVersion
    <3>5. InVersion(later, AtStep) /\ InVersion(later, t)
          BY <1>2, <1>4, <1>5, <2>3, <3>2, <3>4 DEF Later, InVersion
    <3>6. Leaks(Receiver, n, later)
      <4>1. \/ ~Owns(t) \/ Leaks(Receiver, AtStep.name, later)
            \/ ~InVersion(later, AtStep) \/ ~InVersion(later, t)
            BY <1>1, <1>2, <1>4, <2>1, <3>1, <3>2, <3>3 DEF Frees
      <4> QED BY <2>1, <3>2, <3>5, <4>1
    <3> HIDE DEF later
    <3> QED BY <1>4, <3>4, <3>6, LeaksLater
  <2> HIDE DEF version
  <2> QED BY <1>4, <2>1, <2>4, <2>5, <2>6
<1> QED BY <1>1, <1>3, <1>6, <1>7 DEF LostInv

(* No packet: nothing is owned, and nothing was lost.                         *)
LEMMA ResetMem ==
    ASSUME pt' = PtInit, NoPacket, ~calling'
    PROVE  MemInv' /\ LostInv'
BY DEF NoPacket, MemInv, LostInv

LEMMA InitMem == ClientInit => MemInv /\ LostInv
BY DEF ClientInit, MemInv, LostInv

LEMMA DispatchMem ==
    ASSUME DecodeInv, MemInv, UNCHANGED authed, NEW id, PacketId(id)
    PROVE  MemInv' /\ (LostInv => LostInv')
<1>1. /\ authed /\ cmd = "" /\ ~calling
      /\ UNCHANGED <<pt, val, mem, lost, calling>>
      BY DEF PacketId, Takes, packet
<1>2. pt = PtInit
  <2>1. Receiver = "" BY <1>1 DEF Receiver
  <2> QED BY <2>1, PacketsAssumption DEF PacketsOK, DecodeInv, TypeOK, InTable
<1> QED BY <1>1, <1>2 DEF MemInv, LostInv

LEMMA StutterMem ==
    ASSUME MemInv, UNCHANGED <<authed, cmd, pt, val, mem, lost, calling>>
    PROVE  MemInv' /\ (LostInv => LostInv')
<1>1. Receiver' = Receiver /\ Steps' = Steps /\ PacketVersion' = PacketVersion
      BY DEF Receiver, Steps, PacketVersion
<1>2. FreshMemory(Receiver)' = FreshMemory(Receiver) /\ Packets[Receiver]' = Packets[Receiver]
      BY <1>1 DEF FreshMemory
<1> QED BY <1>1, <1>2 DEF MemInv, LostInv, StaleInv, OwnedInv, DerefInv, Assigned, OfElement

(* What an event shows is of its own packet.                                  *)
LEMMA ShowsOwn ==
    ASSUME DecodeInv, MemInv, Initialises
    PROVE  EventIsInitialised
<1> SUFFICES ASSUME calling, NEW slot \in Holding(mem, "stale")
             PROVE  \E k \in KnownStale :
                        /\ k[1] = Receiver /\ k[2] = slot
                        /\ k[3] = MANY \/ PacketVersion < k[3]
    BY DEF EventIsInitialised
<1>1. Receiver \in DOMAIN Packets /\ StaleInv
      BY DEF MemInv
<1>2. PICK s \in DOMAIN mem : mem[s] = "stale" /\ s[1] = slot
      BY DEF Holding
<1>3. /\ slot \in Holding(FreshMemory(Receiver), "stale")
      /\ \A k \in DOMAIN Steps :
            ~(Assigns(Steps[k], slot) /\ InVersion(PacketVersion, Steps[k]))
      BY <1>1, <1>2 DEF StaleInv, Holding
<1>4. Ordered(Steps) /\ Steps = Packets[Receiver].steps
      BY <1>1, PacketsAssumption DEF PacketsOK, Steps
<1>5. \A k \in DOMAIN Steps : Steps[k].from \in Nat /\ Steps[k].below \in Nat
      BY <1>4, OrderedFacts
<1>6. PacketVersion \in Nat
      BY DEF PacketVersion, Value, DecodeInv
<1> DEFINE known == {k[3] : k \in {x \in KnownStale : x[1] = Receiver /\ x[2] = slot}}
<1>7. PICK version \in known \cup {0} :
          \/ version = MANY
          \/ \E i, k \in DOMAIN Steps :
                /\ Assigns(Steps[i], slot) /\ Steps[i].from =< version
                /\ Assigns(Steps[k], slot) /\ Steps[k].from =< Steps[i].below
                /\ Steps[k].below = MANY
      BY <1>1, <1>3, <1>4, Zenon DEF Initialises
<1>8. version \in Nat
  <2>1. \A k \in KnownStale : k[3] \in Nat BY DEF KnownStale, MANY
  <2> QED BY <1>7, <2>1
<1>9. version = MANY \/ PacketVersion < version
  <2> SUFFICES ASSUME version # MANY, version <= PacketVersion PROVE FALSE
      BY <1>6, <1>8
  <2>1. PICK i, k \in DOMAIN Steps :
            /\ Assigns(Steps[i], slot) /\ Steps[i].from =< version
            /\ Assigns(Steps[k], slot) /\ Steps[k].from =< Steps[i].below
            /\ Steps[k].below = MANY
        BY <1>7
  <2>2. InVersion(PacketVersion, Steps[i]) \/ InVersion(PacketVersion, Steps[k])
        BY <1>5, <1>6, <1>8, <2>1 DEF InVersion
  <2> QED BY <1>3, <2>1, <2>2
<1>10. version # 0
      BY <1>6, <1>9 DEF MANY
<1>11. version \in known
      BY <1>7, <1>10
<1> QED BY <1>9, <1>11

(* What it allocated is freed, or known to leak.                              *)
LEMMA FreesOwn ==
    ASSUME DecodeInv, MemInv, LostInv, Frees
    PROVE  FreesAll
<1> DEFINE p == Packets[Receiver]
<1> SUFFICES ASSUME calling, NEW slot \in (Holding(mem, "owned") \ p.freed) \cup lost
             PROVE  Leaks(Receiver, slot, PacketVersion)
    BY DEF FreesAll, Leaks
<1>1. Receiver \in DOMAIN Packets /\ OwnedInv
      BY DEF MemInv
<1>2. PacketVersion \in Nat
      BY DEF PacketVersion, Value, DecodeInv
<1>3. Ordered(Steps) /\ Steps = p.steps
      BY <1>1, PacketsAssumption DEF PacketsOK, Steps
<1>4. CASE slot \in lost
      BY <1>4 DEF LostInv
<1>5. CASE slot \in Holding(mem, "owned") \ p.freed
  <2>1. PICK s \in DOMAIN mem : mem[s] = "owned" /\ s[1] = slot
        BY <1>5 DEF Holding
  <2>2. CASE slot \in p.made
    <3>1. Leaks(Receiver, slot, 0) BY <1>1, <1>5, <2>2 DEF Frees
    <3> QED BY <1>2, <3>1, LeaksLater
  <2>3. CASE \E k \in Reached(p) : OfElement(s, k) \/ Assigned(s, PacketVersion, k)
    <3>1. PICK k \in Reached(p) : OfElement(s, k) \/ Assigned(s, PacketVersion, k)
          BY <2>3
    <3>2. k \in DOMAIN Steps BY <3>1, ReachedFacts
    <3>3. ~OfElement(s, k)
          BY <1>1, <1>3, <1>5, <2>1, <3>1 DEF Frees, OfElement
    <3>4. Owns(Steps[k]) /\ Steps[k].name = slot /\ InVersion(PacketVersion, Steps[k])
          BY <2>1, <3>1, <3>3 DEF Assigned
    <3>5. Leaks(Receiver, slot, Steps[k].from)
          BY <1>1, <1>3, <1>5, <3>1, <3>4 DEF Frees
    <3>6. Steps[k].from \in Nat /\ Steps[k].from <= PacketVersion
          BY <1>2, <1>3, <3>2, <3>4, OrderedFacts DEF InVersion
    <3> QED BY <1>2, <3>5, <3>6, LeaksLater
  <2> QED BY <1>1, <2>1, <2>2, <2>3 DEF OwnedInv
<1> QED BY <1>4, <1>5

LEMMA MemoryStep ==
    ASSUME IInv, MemInv, [Next]_vars
    PROVE  MemInv' /\ (Frees /\ LostInv => LostInv')
<1>0. DecodeInv BY DEF IInv
<1>1. CASE Greet
  <2>1. UNCHANGED <<authed, cmd, pt, val, mem, lost, calling>> BY <1>1 DEF Greet, packet
  <2> QED BY <2>1, StutterMem
<1>2. CASE SendPacket
  <2>1. (\E sh \in Shapes : PacketId(sh.cmd)) /\ UNCHANGED authed BY <1>2 DEF SendPacket
  <2> QED BY <1>0, <2>1, DispatchMem
<1>3. ASSUME NEW token \in Arriving PROVE token \in Nat
  <2>1. outgoing # Start /\ token = TokenOf(sending, Layout(sending.cmd)[outgoing[1]])
        BY DEF Arriving
  <2>2. sending \in Shapes BY <2>1 DEF IInv
  <2> QED BY <2>1, <2>2, TokenIsNat
<1>4. ASSUME NEW token \in Arriving, TakeToken(token), UNCHANGED authed
      PROVE  MemInv' /\ (Frees /\ LostInv => LostInv')
      BY <1>0, <1>3, <1>4, TokenMem, TokenLost
<1>5. ASSUME NEW token, Crash(token) \/ UnknownPacket, UNCHANGED authed
      PROVE  MemInv' /\ (Frees /\ LostInv => LostInv')
  <2>1. UNCHANGED <<authed, cmd, pt, val, mem, lost, calling>>
        BY <1>5 DEF Crash, UnknownPacket, packet
  <2> QED BY <2>1, StutterMem
<1>6. ASSUME NEW token, LoginDone(token) \/ End \/ Reconnect
      PROVE  MemInv' /\ (Frees /\ LostInv => LostInv')
  <2>1. /\ pt' = PtInit /\ NoPacket
        /\ calling' = FALSE \/ (~calling /\ calling' = calling)
        BY <1>6 DEF LoginDone, End, Reconnect, PacketDone, DecodeReset, Resumes, Takes
  <2>2. ~calling' BY <2>1, Zenon
  <2> QED BY <2>1, <2>2, ResetMem
<1>7. CASE UNCHANGED vars
  <2>1. UNCHANGED <<authed, cmd, pt, val, mem, lost, calling>> BY <1>7 DEF vars, packet
  <2> QED BY <2>1, StutterMem
<1> QED BY <1>1, <1>2, <1>4, <1>5, <1>6, <1>7 DEF Next

LEMMA MemoryInit == Init => IInv /\ MemInv /\ LostInv
BY DecodeInit, InitMem DEF Init

(* Where the tables assign what they show, as Initialises says: whatever TWS  *)
(* sends, in every version, and whatever was cut off by a lost connection,    *)
(* the callbacks see values of their own packet, but for KnownStale.          *)
THEOREM EventsShowOwnValues == Initialises => (Spec => []EventIsInitialised)
<1> SUFFICES ASSUME Initialises PROVE Spec => []EventIsInitialised
    OBVIOUS
<1>1. ASSUME IInv /\ MemInv, [Next]_vars PROVE (IInv /\ MemInv)'
      BY <1>1, DecodeStep, MemoryStep
<1>2. IInv /\ MemInv => EventIsInitialised
      BY ShowsOwn DEF IInv
<1> QED BY MemoryInit, <1>1, <1>2, PTL DEF Spec

(* Where they free what they allocate, as Frees says: every allocation of     *)
(* every packet is freed after its callback, but for KnownLeaks.              *)
THEOREM PacketsAreFreed == Frees => (Spec => []FreesAll)
<1> SUFFICES ASSUME Frees PROVE Spec => []FreesAll
    OBVIOUS
<1>1. ASSUME IInv /\ MemInv /\ LostInv, [Next]_vars PROVE (IInv /\ MemInv /\ LostInv)'
      BY <1>1, DecodeStep, MemoryStep
<1>2. IInv /\ MemInv /\ LostInv => FreesAll
      BY FreesOwn DEF IInv
<1> QED BY MemoryInit, <1>1, <1>2, PTL DEF Spec

--------------------------------------------------------------------------------
(* The client and TWS: what a packet contains, as the values of its tokens.   *)
Contents(sh) ==
    LET steps == Layout(sh.cmd)
    IN  [n \in {steps[i].name : i \in DOMAIN steps} |->
            TokenOf(sh, steps[CHOOSE i \in DOMAIN steps : steps[i].name = n])]

LEMMA LayoutFacts ==
    ASSUME NEW c \in DOMAIN Packets
    PROVE  LET steps == Layout(c)
           IN  /\ steps = Packets[c].steps /\ Ordered(steps)
               /\ \A i, k \in DOMAIN steps : Consistent(steps[i], steps[k])
BY PacketsAssumption DEF PacketsOK, Layout

LEMMA ContentsFacts ==
    ASSUME NEW sh \in Shapes, sh.cmd \in DOMAIN Packets
    PROVE  LET steps == Layout(sh.cmd)
           IN  /\ steps = Packets[sh.cmd].steps /\ Ordered(steps)
               /\ \A n : Value(Contents(sh), n) \in Nat
               /\ \A k \in DOMAIN steps : steps[k].name # NONE =>
                     Value(Contents(sh), steps[k].name) = TokenOf(sh, steps[k])
<1> DEFINE steps == Layout(sh.cmd)
           at(n) == CHOOSE i \in DOMAIN steps : steps[i].name = n
<1>1. \A i, k \in DOMAIN steps : Consistent(steps[i], steps[k])
      BY LayoutFacts
<1>2. steps = Packets[sh.cmd].steps /\ Ordered(steps)
      BY LayoutFacts
<1>3. \A n : n \in {steps[i].name : i \in DOMAIN steps} =>
          at(n) \in DOMAIN steps /\ steps[at(n)].name = n
      OBVIOUS
<1>4. /\ DOMAIN Contents(sh) = {steps[i].name : i \in DOMAIN steps}
      /\ \A n \in DOMAIN Contents(sh) : Contents(sh)[n] = TokenOf(sh, steps[at(n)])
      BY DEF Contents
<1>5. \A n : Value(Contents(sh), n) \in Nat
      BY <1>4, TokenIsNat DEF Value
<1> HIDE DEF steps, at
<1>6. ASSUME NEW k \in DOMAIN steps, steps[k].name # NONE
      PROVE  Value(Contents(sh), steps[k].name) = TokenOf(sh, steps[k])
  <2> DEFINE n == steps[k].name
             i == at(n)
  <2>1. i \in DOMAIN steps /\ steps[i].name = n
        BY <1>3
  <2>2. Value(Contents(sh), n) = TokenOf(sh, steps[i])
        BY <1>4 DEF Value
  <2> HIDE DEF n, i
  <2>3. n = steps[k].name BY DEF n
  <2>4. /\ steps[i].kind = "version" <=> n = VERSION
        /\ steps[k].kind = "version" <=> n = VERSION
        /\ steps[i].kind = "count" <=> steps[k].kind = "count"
        BY <1>1, <1>6, <2>1, <2>3 DEF Consistent
  <2>5. TokenOf(sh, steps[i]) = TokenOf(sh, steps[k])
        BY <2>1, <2>3, <2>4 DEF TokenOf
  <2> QED BY <2>2, <2>3, <2>5
<1> QED BY <1>2, <1>5, <1>6 DEF steps

(* The conditions of the client, for who knows the contents, are those of TWS. *)
LEMMA SentYields ==
    ASSUME NEW sh \in Shapes, sh.cmd \in DOMAIN Packets, NEW k \in DOMAIN Layout(sh.cmd)
    PROVE  LET s == Layout(sh.cmd)[k]
               w == Contents(sh)
           IN  /\ YieldsAt(Layout(sh.cmd), w, k) <=>
                     /\ s.kind # "same" /\ SentStep(sh, s)
                     /\ s.loop # NONE => CountOf(sh, s.loop) > 0
               /\ s.loop # NONE => CountOf(sh, s.loop) = Value(w, s.loop)
<1> DEFINE steps == Layout(sh.cmd)
           s == steps[k]
           w == Contents(sh)
<1>1. /\ steps = Packets[sh.cmd].steps /\ Ordered(steps)
      /\ \A n : Value(w, n) \in Nat
      /\ \A i \in DOMAIN steps : steps[i].name # NONE =>
            Value(w, steps[i].name) = TokenOf(sh, steps[i])
      BY ContentsFacts
<1>2. /\ steps[1].name = VERSION => Value(w, VERSION) = sh.version
      /\ sh.version \in Nat
  <2>1. 1 \in DOMAIN steps BY <1>1, OrderedFacts
  <2>2. VERSION # NONE BY DEF VERSION, NONE
  <2>3. steps[1].name = VERSION => steps[1].kind = "version"
        BY <2>1, <2>2, LayoutFacts DEF Consistent
  <2>4. sh.version \in Nat BY ShapesAssumption
  <2> QED BY <1>1, <2>1, <2>2, <2>3, <2>4 DEF TokenOf
<1>3. InVersion(Value(w, VERSION), s) <=> InVersion(sh.version, s)
  <2>1. CASE steps[1].name = VERSION BY <1>2, <2>1
  <2>2. CASE steps[1].name # VERSION
    <3>1. ~(s.from > 0 \/ s.below # MANY) BY <1>1, <2>2 DEF Ordered
    <3>2. s.from \in Nat BY <1>1, OrderedFacts
    <3> QED BY <1>1, <1>2, <3>1, <3>2 DEF InVersion
  <2> QED BY <2>1, <2>2
<1>4. s.when # NONE => (Value(w, s.when) # 0 <=> FlagOf(sh, s.when) = 1)
  <2> SUFFICES ASSUME s.when # NONE PROVE Value(w, s.when) # 0 <=> FlagOf(sh, s.when) = 1
      OBVIOUS
  <2>1. PICK i \in DOMAIN steps : steps[i].name = s.when
        BY <1>1 DEF Ordered, Gives
  <2>2. steps[i].kind \notin {"count", "version"}
        BY <2>1, LayoutFacts DEF Consistent
  <2>3. s.when \in Tested(sh.cmd) BY DEF Tested
  <2>4. Value(w, s.when) = FlagOf(sh, s.when)
        BY <1>1, <2>1, <2>2, <2>3 DEF TokenOf
  <2>5. FlagOf(sh, s.when) \in {0, 1}
    <3>1. sh.flag \in {0, 1} BY ShapesAssumption
    <3> QED BY <3>1 DEF FlagOf, Odd
  <2> QED BY <2>4, <2>5
<1>5. s.loop # NONE => CountOf(sh, s.loop) = Value(w, s.loop)
  <2> SUFFICES ASSUME s.loop # NONE PROVE CountOf(sh, s.loop) = Value(w, s.loop)
      OBVIOUS
  <2>1. PICK i \in DOMAIN steps : steps[i].name = s.loop
        BY <1>1 DEF Ordered, Gives
  <2>2. steps[i].kind = "count"
        BY <2>1, LayoutFacts DEF Consistent
  <2> QED BY <1>1, <2>1, <2>2 DEF TokenOf
<1> HIDE DEF w, steps
<1>6. YieldsAt(steps, w, k) <=>
          /\ s.kind # "same"
          /\ InVersion(Value(w, VERSION), s)
          /\ s.when # NONE => Value(w, s.when) # 0
          /\ s.loop # NONE => Value(w, s.loop) > 0
      BY DEF YieldsAt, Enabled
<1>7. SentStep(sh, s) <=>
          InVersion(sh.version, s) /\ (s.when # NONE => FlagOf(sh, s.when) = 1)
      BY Zenon DEF SentStep
<1>8. YieldsAt(steps, w, k) <=>
          /\ s.kind # "same" /\ SentStep(sh, s)
          /\ s.loop # NONE => CountOf(sh, s.loop) > 0
  <2> HIDE DEF s
  <2> QED BY <1>3, <1>4, <1>5, <1>6, <1>7
<1> QED BY <1>5, <1>8 DEF s, w, steps

(* So are its places, where there is a token for each.                        *)
LEMMA PlacesAreSent ==
    ASSUME NEW sh \in Shapes, sh.cmd \in DOMAIN Packets, Yields(sh)
    PROVE  /\ \A b \in Places(sh) : b = <<b[1], b[2]>>
           /\ \A k, l : <<k, l>> \in Places(sh) <=> IsPlace(Layout(sh.cmd), Contents(sh), k, l)
<1> DEFINE steps == Layout(sh.cmd)
           w == Contents(sh)
<1>1. \A b : b \in Places(sh) <=>
          \E k \in DOMAIN steps : \E l \in Elements(sh, steps[k]) :
              SentStep(sh, steps[k]) /\ b = <<k, l>>
      BY DEF Places
<1>2. \A k, l : <<k, l>> \in Places(sh) <=>
          k \in DOMAIN steps /\ SentStep(sh, steps[k]) /\ l \in Elements(sh, steps[k])
      BY <1>1
<1>3. \A k, l : <<k, l>> \in Places(sh) => steps[k].kind # "same"
      BY DEF Yields
<1>4. \A k \in DOMAIN steps :
          /\ YieldsAt(steps, w, k) <=>
                /\ steps[k].kind # "same" /\ SentStep(sh, steps[k])
                /\ steps[k].loop # NONE => CountOf(sh, steps[k].loop) > 0
          /\ steps[k].loop # NONE => CountOf(sh, steps[k].loop) = Value(w, steps[k].loop)
      BY SentYields
<1>5. \A n : Value(w, n) \in Nat
      BY ContentsFacts
<1> HIDE DEF steps, w
<1>6. ASSUME NEW k, NEW l
      PROVE  <<k, l>> \in Places(sh) <=> IsPlace(steps, w, k, l)
  <2>1. ASSUME k \in DOMAIN steps, steps[k].loop = NONE
        PROVE  <<k, l>> \in Places(sh) <=> IsPlace(steps, w, k, l)
    <3>1. l \in Elements(sh, steps[k]) <=> l = 0 BY <2>1 DEF Elements
    <3> QED BY <1>2, <1>3, <1>4, <2>1, <3>1 DEF IsPlace
  <2>2. ASSUME k \in DOMAIN steps, steps[k].loop # NONE
        PROVE  <<k, l>> \in Places(sh) <=> IsPlace(steps, w, k, l)
    <3> DEFINE count == CountOf(sh, steps[k].loop)
    <3>1. count \in Nat /\ count = Value(w, steps[k].loop) BY <1>4, <1>5, <2>2
    <3>2. Elements(sh, steps[k]) = 0 .. count - 1 BY <2>2 DEF Elements
    <3> HIDE DEF count
    <3>3. l \in Elements(sh, steps[k]) <=> l \in Nat /\ l < count
          BY <3>1, <3>2
    <3>4. l \in Nat /\ l < count => count > 0 BY <3>1
    <3> QED BY <1>2, <1>3, <1>4, <2>2, <3>1, <3>3, <3>4 DEF IsPlace, count
  <2>3. k \notin DOMAIN steps => <<k, l>> \notin Places(sh) /\ ~IsPlace(steps, w, k, l)
        BY <1>2 DEF IsPlace
  <2> QED BY <2>1, <2>2, <2>3
<1> QED BY <1>1, <1>6 DEF steps, w

(* TWS goes on to the first place behind the one whose token it has sent.     *)
LEMMA FollowingIsFirst ==
    ASSUME NEW sh \in Shapes, sh.cmd \in DOMAIN Packets, Yields(sh), NEW a \in Places(sh)
    PROVE  LET next == NextStep(Layout(sh.cmd), Contents(sh), a[1], a[2])
           IN  Following(sh, a) = next /\ (next # Start => next \in Places(sh))
<1> DEFINE steps == Layout(sh.cmd)
           w == Contents(sh)
           next == NextStep(steps, w, a[1], a[2])
           left == {b \in Places(sh) : Precedes(steps, a, b)}
<1>1. /\ \A b \in Places(sh) : b = <<b[1], b[2]>>
      /\ \A k, l : <<k, l>> \in Places(sh) <=> IsPlace(steps, w, k, l)
      BY PlacesAreSent
<1>2. Ordered(steps) /\ \A n : Value(w, n) \in Nat
      BY LayoutFacts, ContentsFacts
<1>3. Following(sh, a) =
          IF left = {} THEN Start
          ELSE CHOOSE b \in left : \A c \in left : c = b \/ Precedes(steps, b, c)
      BY Zenon DEF Following
<1> HIDE DEF steps, w
<1>4. IsPlace(steps, w, a[1], a[2]) BY <1>1
<1>5. FirstBehind(steps, w, a[1], a[2], next)
  <2>1. /\ a[1] \in DOMAIN steps /\ a[2] \in Nat
        /\ IF steps[a[1]].loop = NONE THEN a[2] = 0
           ELSE YieldsAt(steps, w, a[1]) /\ a[2] < Value(w, steps[a[1]].loop)
        BY <1>4 DEF IsPlace
  <2> QED BY <1>2, <2>1, NextIsFirst
<1>6. \A b : Precedes(steps, <<a[1], a[2]>>, b) <=> Precedes(steps, a, b)
      BY DEF Precedes
<1>7. \A b \in Places(sh) : PlaceIn(steps, b)
  <2> SUFFICES ASSUME NEW b \in Places(sh) PROVE PlaceIn(steps, b)
      OBVIOUS
  <2>1. IsPlace(steps, w, b[1], b[2]) BY <1>1
  <2> QED BY <2>1 DEF IsPlace, PlaceIn
<1> HIDE DEF next
<1>8. CASE /\ next = Start
           /\ \A k, l : IsPlace(steps, w, k, l) => ~Precedes(steps, <<a[1], a[2]>>, <<k, l>>)
  <2>1. \A b \in Places(sh) : ~Precedes(steps, a, b)
    <3> SUFFICES ASSUME NEW b \in Places(sh) PROVE ~Precedes(steps, a, b)
        OBVIOUS
    <3>1. b = <<b[1], b[2]>> BY <1>1
    <3>2. IsPlace(steps, w, b[1], b[2]) BY <1>1, <3>1
    <3>3. ~Precedes(steps, <<a[1], a[2]>>, <<b[1], b[2]>>) BY <1>8, <3>2
    <3> QED BY <1>6, <3>1, <3>3
  <2>2. left = {} BY <2>1
  <2> QED BY <1>3, <1>8, <2>2 DEF steps, w, next
<1>9. CASE \E m, n : /\ next = <<m, n>> /\ IsPlace(steps, w, m, n) /\ m # 1
                     /\ Precedes(steps, <<a[1], a[2]>>, <<m, n>>)
                     /\ \A k, l : IsPlace(steps, w, k, l)
                                    /\ Precedes(steps, <<a[1], a[2]>>, <<k, l>>) =>
                             <<k, l>> = <<m, n>> \/ Precedes(steps, <<m, n>>, <<k, l>>)
  <2>1. PICK m, n : /\ next = <<m, n>> /\ IsPlace(steps, w, m, n)
                    /\ Precedes(steps, <<a[1], a[2]>>, <<m, n>>)
                    /\ \A k, l : IsPlace(steps, w, k, l)
                                   /\ Precedes(steps, <<a[1], a[2]>>, <<k, l>>) =>
                            <<k, l>> = <<m, n>> \/ Precedes(steps, <<m, n>>, <<k, l>>)
        BY <1>9
  <2>2. next \in left BY <1>1, <1>6, <2>1
  <2>3. \A c \in left : c = next \/ Precedes(steps, next, c)
    <3> SUFFICES ASSUME NEW c \in Places(sh), Precedes(steps, a, c)
                 PROVE  c = next \/ Precedes(steps, next, c)
        OBVIOUS
    <3>1. c = <<c[1], c[2]>> BY <1>1
    <3>2. IsPlace(steps, w, c[1], c[2]) BY <1>1, <3>1
    <3>3. Precedes(steps, <<a[1], a[2]>>, <<c[1], c[2]>>) BY <1>6, <3>1
    <3>4. <<c[1], c[2]>> = <<m, n>> \/ Precedes(steps, <<m, n>>, <<c[1], c[2]>>)
          BY <2>1, <3>2, <3>3
    <3> QED BY <2>1, <3>1, <3>4
  <2>4. ASSUME NEW b \in left, \A c \in left : c = b \/ Precedes(steps, b, c)
        PROVE  b = next
    <3> SUFFICES ASSUME b # next PROVE FALSE
        OBVIOUS
    <3>1. Precedes(steps, b, next) /\ Precedes(steps, next, b) BY <2>2, <2>3, <2>4
    <3>2. PlaceIn(steps, b) /\ PlaceIn(steps, next) BY <1>7, <2>2
    <3> QED BY <1>2, <3>1, <3>2, PrecedesTransitive
  <2> DEFINE first == CHOOSE b \in left : \A c \in left : c = b \/ Precedes(steps, b, c)
  <2> HIDE DEF left
  <2>5. first \in left /\ \A c \in left : c = first \/ Precedes(steps, first, c)
        BY <2>2, <2>3, Zenon
  <2>6. Following(sh, a) = first BY <1>3, <2>2
  <2>7. first = next
    <3> HIDE DEF first
    <3> QED BY <2>4, <2>5
  <2>8. next \in Places(sh) BY <2>2 DEF left
  <2> QED BY <2>6, <2>7, <2>8 DEF steps, w, next
<1> QED BY <1>5, <1>8, <1>9, Zenon DEF FirstBehind

(* The place of the client is that of TWS, and it knows what the packet gave  *)
(* before that place.                                                         *)
KnowsPlace(sh, a) ==
    /\ sh \in Shapes /\ Receiver = sh.cmd /\ At = a
    /\ sh.cmd \in DOMAIN Packets =>
          a \in Places(sh) /\ Agree(Layout(sh.cmd), val, Contents(sh), a[1] - 1)

SyncInv ==
    /\ pt = PtInit /\ ~calling => val = <<>>
    /\ ~authed => cmd = ""
    /\ process # "running" => ~calling /\ (authed => cmd # "")
    /\ process = "running" =>
          IF outgoing = Start THEN calling \/ (cmd = "" /\ pt = PtInit)
          ELSE ~calling /\ KnowsPlace(sending, outgoing)

(* A packet begins.                                                           *)
LEMMA BeginSync ==
    ASSUME NEW sh \in Shapes, Receiver' = sh.cmd, pt' = PtInit, val' = <<>>
    PROVE  KnowsPlace(sh, <<1, 0>>)'
<1>1. At' = <<1, 0>> BY DEF At
<1>2. ASSUME sh.cmd \in DOMAIN Packets
      PROVE  /\ <<1, 0>> \in Places(sh)
             /\ Agree(Layout(sh.cmd), <<>>, Contents(sh), 0)
  <2> DEFINE steps == Layout(sh.cmd)
  <2>1. Ordered(steps) BY <1>2, LayoutFacts
  <2>2. /\ 1 \in DOMAIN steps /\ steps[1].from = 0 /\ steps[1].below = MANY
        /\ steps[1].when = NONE /\ steps[1].loop = NONE
        BY <2>1, OrderedFacts
  <2>3. SentStep(sh, steps[1]) /\ 0 \in Elements(sh, steps[1])
    <3>1. sh.version \in Nat BY ShapesAssumption
    <3> QED BY <2>2, <3>1 DEF SentStep, InVersion, Elements
  <2>4. <<1, 0>> \in Places(sh)
        BY <2>2, <2>3 DEF Places
  <2>5. Value(<<>>, VERSION) \in Nat
    <3>1. VERSION \notin DOMAIN <<>> BY EmptyDomain
    <3> QED BY <3>1 DEF Value
  <2>6. Value(Contents(sh), VERSION) \in Nat BY <1>2, ContentsFacts
  <2>7. 1..0 = {} OBVIOUS
  <2>8. Agree(steps, <<>>, Contents(sh), 0) BY <2>5, <2>6, <2>7 DEF Agree
  <2> QED BY <2>4, <2>8
<1> QED BY <1>1, <1>2 DEF KnowsPlace

(* A value that conditions test is a version, a length or a flag.             *)
LEMMA TestedKinds ==
    ASSUME NEW c \in DOMAIN Packets, NEW i \in DOMAIN Layout(c),
           Layout(c)[i].name \in TestedNames(Layout(c))
    PROVE  LET s == Layout(c)[i]
           IN  s.name # NONE /\ (s.kind \in {"version", "count"} \/ s.name \in Tested(c))
<1> DEFINE steps == Layout(c)
           s == steps[i]
<1>1. \A k \in DOMAIN steps : Consistent(s, steps[k])
      BY LayoutFacts
<1>2. s.name # NONE
      BY TestedNamesFacts
<1>3. CASE s.name = VERSION
      BY <1>1, <1>2, <1>3 DEF Consistent
<1>4. ASSUME NEW k \in DOMAIN steps, s.name = steps[k].loop PROVE s.kind = "count"
      BY <1>1, <1>2, <1>4 DEF Consistent
<1>5. ASSUME NEW k \in DOMAIN steps, s.name = steps[k].when PROVE s.name \in Tested(c)
      BY <1>5 DEF Tested
<1> QED BY <1>2, <1>3, <1>4, <1>5 DEF TestedNames

(* A token of a packet: what the client knows with it, and where it goes on.  *)
LEMMA TokenFollows ==
    ASSUME NEW sh \in Shapes, Yields(sh), NEW a, KnowsPlace(sh, a), Resumes, NEW token,
           Layout(sh.cmd)[a[1]].name \in TestedNames(Layout(sh.cmd)) =>
               token = TokenOf(sh, Layout(sh.cmd)[a[1]])
    PROVE  LET next == Following(sh, a)
               steps == Layout(sh.cmd)
           IN  /\ Next_(token) = next
               /\ next # Start =>
                     /\ next \in Places(sh)
                     /\ Agree(steps, Values(token), Contents(sh), next[1] - 1)
               /\ steps[1].name = VERSION => Value(Values(token), VERSION) = sh.version
<1> DEFINE steps == Layout(sh.cmd)
           w == Contents(sh)
           u == Values(token)
           i == a[1]
           j == a[2]
           next == Following(sh, a)
<1>1. Receiver \in DOMAIN Packets
      BY DEF Resumes, Takes
<1>2. Receiver = sh.cmd /\ At = a
      BY DEF KnowsPlace
<1>3. a \in Places(sh) /\ Agree(steps, val, w, i - 1) /\ sh.cmd \in DOMAIN Packets
      BY <1>1 DEF KnowsPlace
<1>5. /\ \A b \in Places(sh) : b = <<b[1], b[2]>>
      /\ \A k, l : <<k, l>> \in Places(sh) <=> IsPlace(steps, w, k, l)
      BY <1>3, PlacesAreSent
<1>6. i \in DOMAIN steps /\ YieldsAt(steps, w, i)
  <2>1. IsPlace(steps, w, i, j) BY <1>3, <1>5
  <2> QED BY <2>1 DEF IsPlace
<1>7. /\ Steps = steps /\ Ordered(steps)
      /\ \A k \in DOMAIN steps : steps[k].name # NONE =>
            Value(w, steps[k].name) = TokenOf(sh, steps[k])
      BY <1>1, <1>2, <1>3, <1>6, ContentsFacts DEF Steps
<1>8. AtStep = steps[i] BY <1>2, <1>7 DEF AtStep
<1>9. \A n \in TestedNames(steps) :
          Value(u, n) = IF n = steps[i].name THEN Value(w, n) ELSE Value(val, n)
  <2>0. NONE \notin TestedNames(steps) BY TestedNamesFacts
  <2>1. CASE steps[i].name = NONE BY <1>8, <2>0, <2>1 DEF Values
  <2>2. CASE steps[i].name # NONE
    <3>1. u = Assign(val, steps[i].name, token) BY <1>8, <2>2 DEF Values
    <3>2. \A n : Value(u, n) = IF n = steps[i].name THEN token ELSE Value(val, n)
          BY <3>1 DEF Value, Assign
    <3>3. steps[i].name \in TestedNames(steps) => token = Value(w, steps[i].name)
          BY <1>6, <1>7, <2>2
    <3> HIDE DEF steps, w, u, i
    <3> QED BY <3>2, <3>3
  <2> QED BY <2>1, <2>2
<1>10. next = NextStep(steps, w, i, j) /\ (next # Start => next \in Places(sh))
       BY <1>3, FollowingIsFirst
<1>14. steps[1].name = VERSION => Value(w, VERSION) = sh.version
  <2> SUFFICES ASSUME steps[1].name = VERSION PROVE Value(w, VERSION) = sh.version
      OBVIOUS
  <2>1. 1 \in DOMAIN steps BY <1>7, OrderedFacts
  <2>2. VERSION # NONE BY DEF VERSION, NONE
  <2>3. steps[1].kind = "version" BY <1>3, <2>1, <2>2, LayoutFacts DEF Consistent
  <2> QED BY <1>7, <2>1, <2>2, <2>3 DEF TokenOf
<1> HIDE DEF steps, w, u, i, j, next
<1>11. /\ Agree(steps, u, w, i)
       /\ NextStep(steps, u, i, j) = NextStep(steps, w, i, j)
       /\ \A k, l : <<k, l>> = NextStep(steps, w, i, j) /\ <<k, l>> # Start =>
              Agree(steps, u, w, k - 1)
       BY <1>3, <1>6, <1>7, <1>9, Follow
<1>12. Next_(token) = next
  <2>1. Next_(token) = NextStep(steps, u, i, j) BY <1>2, <1>7 DEF Next_, u, i, j
  <2> QED BY <1>10, <1>11, <2>1
<1>13. next # Start => Agree(steps, u, w, next[1] - 1)
  <2>1. next # Start => next = <<next[1], next[2]>> BY <1>5, <1>10
  <2> QED BY <1>10, <1>11, <2>1
<1>15. steps[1].name = VERSION => Value(u, VERSION) = Value(w, VERSION)
  <2>1. 1 \in 1..i BY <1>6, <1>7, OrderedFacts
  <2>2. YieldsAt(steps, w, 1) BY <1>7, <1>11, FirstYields DEF Agree
  <2>3. VERSION \in TestedNames(steps) BY TestedNamesFacts
  <2> QED BY <1>11, <2>1, <2>2, <2>3 DEF Agree
<1> QED BY <1>10, <1>12, <1>13, <1>14, <1>15 DEF steps, w, u, next

LEMMA TokenSync ==
    ASSUME \A sh \in Shapes : Yields(sh), SyncInv, NEW token \in Arriving, Resumes
    PROVE  LET next == Following(sending, outgoing)
               steps == Layout(sending.cmd)
           IN  /\ Next_(token) = next
               /\ sending \in Shapes /\ Receiver = sending.cmd
               /\ next # Start =>
                     /\ next \in Places(sending)
                     /\ Agree(steps, Values(token), Contents(sending), next[1] - 1)
<1>1. /\ process = "running" /\ outgoing # Start
      /\ token = TokenOf(sending, Layout(sending.cmd)[outgoing[1]])
      BY DEF Resumes, Takes, Arriving
<1>2. sending \in Shapes /\ KnowsPlace(sending, outgoing) /\ Receiver = sending.cmd
      BY <1>1 DEF SyncInv, KnowsPlace
<1> QED BY <1>1, <1>2, TokenFollows

LEMMA SyncStep ==
    ASSUME \A sh \in Shapes : Yields(sh), IInv, SyncInv, [Next]_vars
    PROVE  SyncInv'
<1>1. DecodeInv BY DEF IInv
<1>2. /\ "" \notin DOMAIN Packets /\ UNKNOWN \notin DOMAIN Packets
      BY PacketsAssumption DEF PacketsOK
<1>3. <<1, 0>> # Start BY DEF Start
<1>4. CASE Greet
  <2>1. PICK sh \in Shapes : sh.cmd = LOGIN /\ Begin(sh)
        BY <1>4 DEF Greet
  <2>2. /\ Takes /\ ~authed /\ pt = PtInit
        /\ UNCHANGED <<authed, cmd, pt, val, calling, process>>
        BY <1>4 DEF Greet, packet
  <2>3. outgoing' = <<1, 0>> /\ sending' = sh BY <2>1 DEF Begin
  <2>4. val = <<>> BY <2>2 DEF SyncInv, Takes
  <2>5. KnowsPlace(sh, <<1, 0>>)'
    <3>1. Receiver' = sh.cmd BY <2>1, <2>2 DEF Receiver
    <3> QED BY <2>2, <2>4, <3>1, BeginSync
  <2>6. KnowsPlace(sending, outgoing)' BY <2>3, <2>5 DEF KnowsPlace
  <2> QED BY <1>3, <2>2, <2>3, <2>6 DEF SyncInv, Takes
<1>5. CASE SendPacket
  <2>1. PICK sh \in Shapes : sh.cmd # LOGIN /\ PacketId(sh.cmd) /\ Begin(sh)
        BY <1>5 DEF SendPacket
  <2>2. /\ Takes /\ authed /\ cmd = "" /\ cmd' = sh.cmd
        /\ UNCHANGED <<authed, pt, val, calling, process>>
        BY <1>5, <2>1 DEF SendPacket, PacketId, packet
  <2>3. outgoing' = <<1, 0>> /\ sending' = sh BY <2>1 DEF Begin
  <2>4. pt = PtInit
    <3>1. Receiver = "" BY <2>2 DEF Receiver
    <3> QED BY <1>1, <1>2, <3>1 DEF DecodeInv, TypeOK, InTable
  <2>5. val = <<>> BY <2>2, <2>4 DEF SyncInv, Takes
  <2>6. KnowsPlace(sh, <<1, 0>>)'
    <3>1. Receiver' = sh.cmd BY <2>2 DEF Receiver
    <3> QED BY <2>2, <2>4, <2>5, <3>1, BeginSync
  <2>7. KnowsPlace(sending, outgoing)' BY <2>3, <2>6 DEF KnowsPlace
  <2> QED BY <1>3, <2>2, <2>3, <2>5, <2>7 DEF SyncInv, Takes
<1>6. ASSUME NEW token \in Arriving, TakeToken(token), GoOn, UNCHANGED authed
      PROVE  SyncInv'
  <2> DEFINE next == Following(sending, outgoing)
  <2>1. Resumes /\ process = "running" /\ ~calling /\ UNCHANGED <<authed, cmd, process>>
        BY <1>6 DEF TakeToken, Resumes, Takes
  <2>2. /\ Next_(token) = next /\ sending \in Shapes /\ Receiver = sending.cmd
        /\ next # Start =>
              /\ next \in Places(sending)
              /\ Agree(Layout(sending.cmd), Values(token), Contents(sending), next[1] - 1)
        BY <1>6, <2>1, TokenSync
  <2> HIDE DEF next
  <2>3. /\ calling' = (next = PtInit) /\ pt' = IF next = PtInit THEN pt ELSE next
        /\ val' = Values(token)
        BY <1>6, <2>2, Zenon DEF TakeToken
  <2>4. /\ outgoing' = next /\ sending' = IF outgoing' = Start THEN Idle ELSE sending
        BY <1>6 DEF GoOn, next
  <2>5. Receiver' = Receiver BY <2>1, SameSteps, Zenon
  <2>6. CASE next = Start
    <3>1. calling' BY <2>3, <2>6 DEF PtInit
    <3>2. outgoing' = Start BY <2>4, <2>6
    <3> QED BY <2>1, <3>1, <3>2 DEF SyncInv
  <2>7. CASE next # Start
    <3>1. ~calling' /\ pt' = next /\ pt' # PtInit BY <2>3, <2>7 DEF PtInit
    <3>2. At' = next BY <3>1 DEF At
    <3>3. outgoing' = next /\ sending' = sending BY <2>4, <2>7
    <3>4. KnowsPlace(sending, outgoing)'
          BY <2>2, <2>3, <2>5, <2>7, <3>2, <3>3 DEF KnowsPlace
    <3> QED BY <2>1, <2>7, <3>1, <3>3, <3>4 DEF SyncInv
  <2> QED BY <2>6, <2>7
<1>7. ASSUME NEW token \in Arriving, LoginDone(token), GoOn, authed' = TRUE
      PROVE  SyncInv'
  <2>1. /\ Resumes /\ ~calling /\ calling' = calling /\ process' = "running"
        /\ Next_(token) = PtInit /\ pt' = PtInit /\ cmd' = "" /\ val' = <<>>
        BY <1>7 DEF LoginDone, Authenticates, DecodeReset, NoPacket, Resumes, Takes
  <2>2. Following(sending, outgoing) = Start BY <1>7, <2>1, TokenSync DEF PtInit
  <2>3. outgoing' = Start BY <1>7, <2>2 DEF GoOn
  <2> QED BY <1>7, <2>1, <2>3 DEF SyncInv
<1>8. ASSUME NEW token, Crash(token) \/ UnknownPacket, UNCHANGED authed
      PROVE  SyncInv'
  <2>1. /\ ~calling /\ process' # "running" /\ UNCHANGED <<pt, cmd, val, calling, authed>>
        /\ Receiver \in DOMAIN Packets \/ cmd = UNKNOWN
        BY <1>8 DEF Crash, UnknownPacket, Resumes, Takes, packet
  <2>2. authed => cmd # ""
        BY <1>2, <2>1 DEF Receiver, UNKNOWN
  <2> QED BY <2>1, <2>2 DEF SyncInv
<1>9. CASE End /\ UNCHANGED <<authed, sending, outgoing>>
  <2>1. /\ calling /\ ~calling' /\ pt' = PtInit /\ cmd' = "" /\ val' = <<>>
        /\ process' = process
        BY <1>9 DEF End, PacketDone, NoPacket
  <2>2. process = "running" /\ outgoing' = Start BY <1>9, <2>1 DEF SyncInv
  <2> QED BY <2>1, <2>2 DEF SyncInv
<1>10. CASE Reconnect /\ authed' = FALSE /\ sending' = Idle /\ outgoing' = Start
  <2>1. /\ ~calling /\ calling' = calling /\ pt' = PtInit /\ cmd' = "" /\ val' = <<>>
        /\ process' = "running" /\ outgoing' = Start
        BY <1>10 DEF Reconnect, DecodeReset, NoPacket, Takes
  <2> QED BY <2>1 DEF SyncInv
<1>11. CASE UNCHANGED vars
  <2>1. UNCHANGED <<authed, cmd, pt, val, calling, process, sending, outgoing>>
        BY <1>11 DEF vars, packet
  <2>2. Receiver' = Receiver /\ At' = At BY <2>1 DEF Receiver, At
  <2> QED BY <2>1, <2>2 DEF SyncInv, KnowsPlace
<1> QED BY <1>4, <1>5, <1>6, <1>7, <1>8, <1>9, <1>10, <1>11 DEF Next

LEMMA SyncInit == Init => IInv /\ SyncInv
BY DecodeInit DEF Init, ClientInit, SyncInv

(* Where there is a token for every step that TWS sends, as Yields says: the  *)
(* decoder of the client waits for the field that TWS sends next, and calls   *)
(* back with the last one, in every version of every packet, whatever the     *)
(* lengths and flags, and wherever connections were lost before.              *)
THEOREM StaysInStep == (\A sh \in Shapes : Yields(sh)) => (Spec => []InStep)
<1> SUFFICES ASSUME \A sh \in Shapes : Yields(sh) PROVE Spec => []InStep
    OBVIOUS
<1>1. ASSUME IInv /\ SyncInv, [Next]_vars PROVE (IInv /\ SyncInv)'
      BY <1>1, DecodeStep, SyncStep
<1>2. IInv /\ SyncInv => InStep
      BY DEF SyncInv, KnowsPlace, InStep
<1> QED BY SyncInit, <1>1, <1>2, PTL DEF Spec

(* ... and the dispatcher waits for the id of a packet only when TWS has sent *)
(* all of the one before (tws_decode.c:1554).  The bonds with security ids,   *)
(* which break this, are the packets of which Yields is false.                *)
THEOREM PacketsFinish == (\A sh \in Shapes : Yields(sh)) => (Spec => []PacketFinished)
<1> SUFFICES ASSUME \A sh \in Shapes : Yields(sh) PROVE Spec => []PacketFinished
    OBVIOUS
<1>1. ASSUME IInv /\ SyncInv, [Next]_vars PROVE (IInv /\ SyncInv)'
      BY <1>1, DecodeStep, SyncStep
<1>2. IInv /\ SyncInv => PacketFinished
  <2> SUFFICES ASSUME SyncInv, authed, cmd = "", outgoing # Start PROVE FALSE
      BY DEF PacketFinished
  <2>1. process = "running" /\ sending \in Shapes /\ sending.cmd = ""
        BY DEF SyncInv, KnowsPlace, Receiver
  <2>2. "" \notin DOMAIN Packets BY PacketsAssumption DEF PacketsOK
  <2> QED BY <2>1, <2>2, ShapesAssumption DEF UNKNOWN
<1> QED BY SyncInit, <1>1, <1>2, PTL DEF Spec
================================================================================
