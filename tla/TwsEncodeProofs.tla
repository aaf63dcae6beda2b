---------------------------- MODULE TwsEncodeProofs ----------------------------
(* Theorems about TwsEncode, for every table of requests and every buffer.    *)
EXTENDS TwsEncode, TwsStepsProofs

--------------------------------------------------------------------------------
(* A request, its table and its arguments.                                    *)
Table(c) == Requests[c.cmd]
ValuesOf(c) == ArgumentsOf(c, Table(c))

LEMMA ShapeFacts ==
    ASSUME NEW c \in Shapes
    PROVE  /\ c.cmd \in DOMAIN Requests /\ c # NoCall
           /\ c.flag \in {0, 1} /\ c.set \in {0, 1}
           /\ c.text \in Nat /\ c.tag \in Nat /\ c.count \in Int
           /\ Ordered(Table(c)) /\ Len(Table(c)) \in Nat /\ DOMAIN Table(c) = 1..Len(Table(c))
           /\ 1 \in DOMAIN Table(c) /\ Table(c)[1] = Num(1)[1]
           /\ \A i \in DOMAIN Table(c) :
                 /\ Table(c)[i] \in StepType /\ Table(c)[i].name # VERSION
                 /\ Table(c)[i].kind = "tags" => Table(c)[i].loop = NONE
<1>1. c \in [cmd : DOMAIN Requests, flag : {0, 1}, count : Int, text : Nat, tag : Nat,
             set : {0, 1}, list : {"null", "whole", "untagged"}]
      BY ShapesAssumption
<1>2. /\ c.cmd \in DOMAIN Requests
      /\ c.flag \in {0, 1} /\ c.set \in {0, 1}
      /\ c.text \in Nat /\ c.tag \in Nat /\ c.count \in Int
      BY <1>1
<1>3. c # NoCall
  <2>1. NoCall.cmd = "" BY DEF NoCall
  <2>2. c.cmd # "" BY <1>2, RequestsAssumption, Zenon
  <2> QED BY <2>1, <2>2, Zenon
<1>4. /\ Ordered(Table(c)) /\ Table(c)[1] = Num(1)[1]
      /\ \A i \in DOMAIN Table(c) : Table(c)[i].kind = "tags" => Table(c)[i].loop = NONE
      BY <1>2, RequestsAssumption DEF Table
<1>5. /\ Len(Table(c)) \in Nat /\ DOMAIN Table(c) = 1..Len(Table(c)) /\ 1 \in DOMAIN Table(c)
      /\ \A i \in DOMAIN Table(c) : /\ Table(c)[i] \in StepType
                                    /\ Table(c)[i].name = VERSION => i = 1
      BY <1>4, OrderedFacts, OrderedSteps
<1>6. Table(c)[1].name # VERSION
  <2>1. Num(1)[1].name = NONE BY DEF Num, Step
  <2>2. NONE # VERSION BY DEF NONE, VERSION
  <2> QED BY <1>4, <2>1, <2>2
<1> QED BY <1>2, <1>3, <1>4, <1>5, <1>6

(* ... and those of the one that is built.                                    *)
LEMMA CallFacts ==
    ASSUME TypeOK, call # NoCall
    PROVE  /\ call \in Shapes /\ call.cmd \in DOMAIN Requests
           /\ call.flag \in {0, 1} /\ call.set \in {0, 1} /\ call.text \in Nat /\ call.tag \in Nat
           /\ call.count \in Int
           /\ Ordered(Steps) /\ Len(Steps) \in Nat /\ DOMAIN Steps = 1..Len(Steps)
           /\ 1 \in DOMAIN Steps /\ Steps[1] = Num(1)[1]
           /\ \A i \in DOMAIN Steps :
                 /\ Steps[i] \in StepType /\ Steps[i].name # VERSION
                 /\ Steps[i].kind = "tags" => Steps[i].loop = NONE
<1>1. call \in Shapes BY DEF TypeOK
<1>2. Steps = Table(call) BY DEF Steps, Table
<1> QED BY <1>1, <1>2, ShapeFacts

(* A field has a length.                                                      *)
LEMMA FieldLength ==
    ASSUME TypeOK, call # NoCall
    PROVE  FieldLen \in Nat
<1>1. /\ call.flag \in {0, 1} /\ call.set \in {0, 1}
      /\ call.text \in Nat /\ call.tag \in Nat /\ call.count \in Int
      BY CallFacts
<1>2. OptionLen \in Nat BY <1>1 DEF OptionLen
<1>3. OptionsLen \in Nat
  <2>1. CASE call.list = "null" \/ call.count <= 0
        BY <2>1 DEF OptionsLen
  <2>2. CASE ~(call.list = "null" \/ call.count <= 0)
    <3>1. call.count \in Nat BY <2>2, <1>1
    <3>2. \A a, b \in Nat : a * b \in Nat OBVIOUS
    <3>3. call.count * OptionLen \in Nat BY <3>1, <3>2, <1>2, Zenon
    <3> QED BY <2>2, <3>3 DEF OptionsLen
  <2> QED BY <2>1, <2>2
<1>4. NumLen \in Nat /\ NumLen * call.set \in Nat /\ NumLen * call.flag \in Nat /\ 3 * call.flag \in Nat
      BY <1>1, SizeAssumption
<1> QED BY <1>1, <1>3, <1>4, Zenon DEF FieldLen

(* The value of a field is a number, and the arguments give one to every name.*)
LEMMA Values ==
    ASSUME TypeOK, call # NoCall
    PROVE  \A s \in StepType : ValueOf(call, s) \in Int
<1>1. call.flag \in Int /\ call.count \in Int BY CallFacts
<1> QED BY <1>1 DEF ValueOf

(* A condition that holds when a list is taken for empty holds anyway.        *)
LEMMA ShortenedList ==
    ASSUME TypeOK, call # NoCall, NEW n, n # VERSION,
           NEW k \in DOMAIN Steps, YieldsAt(Steps, [Arguments EXCEPT ![n] = 0], k)
    PROVE  YieldsAt(Steps, Arguments, k)
<1> DEFINE short == [Arguments EXCEPT ![n] = 0]
           s == Steps[k]
<1>1. DOMAIN short = DOMAIN Arguments
      BY DEF Arguments, ArgumentsOf
<1>2. \A m : m # n => Value(short, m) = Value(Arguments, m)
      BY <1>1 DEF Value, Arguments, ArgumentsOf
<1>3. Value(short, n) = 0
      BY <1>1 DEF Value, Arguments, ArgumentsOf
<1> HIDE DEF short
<1>4. s.kind # "same" /\ Enabled(short, s)
      BY DEF YieldsAt, short
<1>5. s.when # NONE => Value(Arguments, s.when) # 0
      BY <1>2, <1>3, <1>4 DEF Enabled
<1>6. s.loop # NONE => Value(Arguments, s.loop) > 0
  <2> SUFFICES ASSUME s.loop # NONE PROVE Value(Arguments, s.loop) > 0
      OBVIOUS
  <2>1. Value(short, s.loop) > 0 BY <1>4 DEF Enabled
  <2>2. s.loop # n BY <2>1, <1>3
  <2> QED BY <2>1, <2>2, <1>2
<1>7. InVersion(Value(Arguments, VERSION), s)
      BY <1>2, <1>4 DEF Enabled
<1> QED BY <1>4, <1>5, <1>6, <1>7 DEF YieldsAt, Enabled

--------------------------------------------------------------------------------
(* Where a request function goes on.                                          *)
LEMMA GoesOn ==
    ASSUME TypeOK, PcOK, Building, NEW v, GoOn(v), UNCHANGED call,
           \/ v = Arguments
           \/ \E n \in {AtStep.name, AtStep.loop} :
                 /\ n # VERSION /\ v = [Arguments EXCEPT ![n] = 0]
                 /\ AtStep.loop # NONE => n = AtStep.loop
    PROVE  pc' \in Nat \X Nat /\ PcOK'
<1>1. call # NoCall /\ pc # Start /\ pc \in Nat \X Nat
      BY DEF Building, TypeOK
<1>2. pc[1] \in DOMAIN Steps /\ pc[2] \in Nat /\ YieldsAt(Steps, Arguments, pc[1])
      BY <1>1 DEF PcOK
<1>3. Len(Steps) \in Nat /\ DOMAIN Steps = 1..Len(Steps)
      BY <1>1, CallFacts
<1>4. \A k \in DOMAIN Steps : YieldsAt(Steps, v, k) => YieldsAt(Steps, Arguments, k)
      BY <1>1, ShortenedList, Zenon
<1>5. AtStep.loop # NONE /\ ElementsLeft(v, AtStep.loop, pc[2]) => YieldsAt(Steps, v, pc[1])
  <2>1. CASE v = Arguments BY <2>1, <1>2
  <2>2. CASE AtStep.loop # NONE /\ v = [Arguments EXCEPT ![AtStep.loop] = 0]
    <3>1. Value(v, AtStep.loop) = 0 BY <2>2 DEF Value, Arguments, ArgumentsOf
    <3>2. ~ElementsLeft(v, AtStep.loop, pc[2])
          BY <3>1, <1>2 DEF ElementsLeft
    <3> QED BY <3>2
  <2> QED BY <2>1, <2>2
<1>6. \/ pc' = Start
      \/ \E k \in DOMAIN Steps, l \in Nat : pc' = <<k, l>> /\ YieldsAt(Steps, v, k)
  <2> DEFINE i == pc[1]
             j == pc[2]
             next == NextStep(Steps, v, i, j)
  <2>1. /\ i \in DOMAIN Steps /\ j \in Nat
        /\ Steps[i].loop # NONE /\ ElementsLeft(v, Steps[i].loop, j) => YieldsAt(Steps, v, i)
        BY <1>2, <1>5 DEF AtStep
  <2>2. pc' = next BY DEF GoOn
  <2> HIDE DEF i, j, next
  <2>3. \/ next = Start
        \/ \E k \in DOMAIN Steps, l \in Nat : next = <<k, l>> /\ YieldsAt(Steps, v, k)
    <3>1. \/ next = Start
          \/ \E k \in DOMAIN Steps, l \in Nat :
                /\ next = <<k, l>> /\ YieldsAt(Steps, v, k)
                /\ \/ l = 0
                   \/ /\ Steps[i].loop # NONE /\ Steps[k].loop = Steps[i].loop
                      /\ l = j \/ (l = j + 1 /\ ElementsLeft(v, Steps[i].loop, j))
        BY <1>3, <2>1, NextStepEnabled DEF next
    <3> QED BY <3>1, Zenon
  <2> QED BY <2>2, <2>3, Zenon
<1>7. Steps' = Steps /\ Arguments' = Arguments
      BY DEF Steps, Arguments
<1>8. CASE pc' = Start
      BY <1>8, <1>1 DEF PcOK, Start
<1>9. CASE \E k \in DOMAIN Steps, l \in Nat : pc' = <<k, l>> /\ YieldsAt(Steps, v, k)
  <2>1. PICK k \in DOMAIN Steps, l \in Nat : pc' = <<k, l>> /\ YieldsAt(Steps, v, k)
        BY <1>9
  <2>2. pc'[1] = k /\ pc' \in Nat \X Nat BY <2>1, <1>3
  <2>3. YieldsAt(Steps, Arguments, k) BY <2>1, <1>4
  <2> QED BY <2>2, <2>3, <1>1, <1>7 DEF PcOK
<1> QED BY <1>6, <1>8, <1>9

--------------------------------------------------------------------------------
(* The inductive invariant.                                                   *)

IInv == BufferInv /\ FitsIntact

(* wlen counts a field that is put into wbuf; it is cut, or put behind a full *)
(* wbuf, only when the request needs more than wbuf has.                      *)
LEMMA PutKeepsCount ==
    ASSUME BufferInv, Building, Room >= 0, Put(FieldLen), need' = need + FieldLen + 1
    PROVE  /\ wlen' \in Nat /\ need' \in Nat
           /\ wlen' = need' \/ need' > BufSize
           /\ need' <= BufSize => need <= BufSize /\ Kept(FieldLen) = FieldLen
           /\ wbuf' \in Seq(Tokens)
           /\ wbuf' = Append(wbuf, Field(FieldLen))
<1>1. call # NoCall /\ pc # Start /\ TypeOK
      BY DEF Building, BufferInv
<1> DEFINE n == FieldLen
<1>2. n \in Nat BY <1>1, FieldLength
<1>3. /\ wlen \in Nat /\ need \in Nat /\ BufSize \in Nat
      /\ wlen = need \/ need > BufSize
      BY <1>1, SizeAssumption DEF BufferInv, TypeOK
<1>4. /\ wlen' = wlen + Kept(n) + 1 /\ wbuf' = Append(wbuf, Field(n))
      /\ need' = need + n + 1
      BY DEF Put
<1> HIDE DEF n
<1>5. BufSize - wlen >= 0 BY DEF Room
<1>6. Kept(n) = IF n < BufSize - wlen THEN n
                ELSE IF BufSize - wlen > 0 THEN BufSize - wlen - 1 ELSE 0
      BY DEF Kept, Room
<1>7. Field(n) \in Tokens
  <2>1. call.cmd \in DOMAIN Requests /\ pc \in Nat \X Nat
        BY <1>1, CallFacts DEF TypeOK
  <2>2. pc[1] \in DOMAIN Steps BY <1>1 DEF BufferInv, PcOK
  <2>3. ValueOf(call, AtStep) \in Int BY <1>1, <2>2, CallFacts, Values DEF AtStep
  <2>4. (Kept(n) = n) \in BOOLEAN BY Zenon
  <2> QED BY <2>1, <2>3, <2>4, Zenon DEF Field, Tokens
<1>8. wbuf' \in Seq(Tokens)
  <2>1. wbuf \in Seq(Tokens) BY <1>1 DEF TypeOK
  <2> QED BY <2>1, <1>4, <1>7
<1>9. /\ wlen' \in Nat /\ need' \in Nat
      /\ wlen' = need' \/ need' > BufSize
      /\ need' <= BufSize => need <= BufSize /\ Kept(n) = n
      BY <1>2, <1>3, <1>4, <1>5, <1>6
<1> QED BY <1>4, <1>8, <1>9 DEF n

(* Before the first call all buffers are empty.                               *)
LEMMA InitInvariant ==
    ASSUME Init
    PROVE  IInv
<1>1. Start \in Nat \X Nat BY DEF Start
<1>2. broken \in BOOLEAN /\ confused \in BOOLEAN
      BY Zenon DEF Init
<1>3. TypeOK BY <1>1, <1>2 DEF Init, TypeOK
<1> QED BY <1>3, SizeAssumption DEF Init, IInv, BufferInv, FitsIntact, PcOK

LEMMA CallInvariant ==
    ASSUME IInv, Call
    PROVE  IInv'
<1>1. TypeOK /\ wlen = 0 /\ wbuf = <<>> /\ inbox = <<>> BY DEF IInv, BufferInv, Call
<1>2. /\ call' \in Shapes /\ pc' = <<1, 0>> /\ need' = 0 /\ process = "running"
      /\ UNCHANGED <<state, wbuf, wlen, broken, process, inbox, reading, confused>>
      BY DEF Call, tws
<1>3. TypeOK' BY <1>1, <1>2 DEF TypeOK
<1>4. call' # NoCall /\ pc' # Start
  <2>1. call' # NoCall BY <1>2, ShapeFacts
  <2>2. pc' # Start BY <1>2 DEF Start
  <2> QED BY <2>1, <2>2
<1>5. pc'[1] \in DOMAIN Steps' /\ YieldsAt(Steps', Arguments', pc'[1])
  <2>1. Ordered(Steps') /\ \A i \in DOMAIN Steps' : Steps'[i].name # VERSION
        BY <1>2, ShapeFacts DEF Steps, Table
  <2>2. Value(Arguments', VERSION) = 0
        BY <2>1 DEF Arguments, ArgumentsOf, Value
  <2> QED BY <1>2, <2>1, <2>2, OrderedFacts, FirstYields
<1>6. PcOK' BY <1>4, <1>5 DEF PcOK
<1>7. wlen' = 0 /\ need' = 0 /\ BufSize \in Nat BY <1>1, <1>2, SizeAssumption
<1> QED BY <1>1, <1>2, <1>3, <1>4, <1>6, <1>7 DEF IInv, BufferInv, FitsIntact

LEMMA SendInvariant ==
    ASSUME IInv, Send
    PROVE  IInv'
<1>1. /\ BufferInv /\ TypeOK /\ PcOK /\ Building /\ call # NoCall /\ pc[1] \in DOMAIN Steps
      /\ Room >= 0 /\ Put(FieldLen) /\ need' = need + FieldLen + 1
      /\ UNCHANGED <<state, call, process, inbox, reading, confused>>
      BY DEF IInv, BufferInv, PcOK, Send, Building, tws
<1>2. /\ wlen' \in Nat /\ need' \in Nat
      /\ wlen' = need' \/ need' > BufSize
      /\ need' <= BufSize => need <= BufSize /\ Kept(FieldLen) = FieldLen
      /\ wbuf' \in Seq(Tokens)
      /\ wbuf' = Append(wbuf, Field(FieldLen))
      BY <1>1, PutKeepsCount
<1>3. pc' \in Nat \X Nat /\ PcOK'
  <2>1. CASE ListMissing
    <3>1. GoOn([Arguments EXCEPT ![AtStep.name] = 0])
          BY <2>1 DEF Send
    <3>2. AtStep.name # VERSION /\ AtStep.loop = NONE
          BY <2>1, <1>1, CallFacts DEF AtStep, ListMissing
    <3> QED BY <3>1, <3>2, <1>1, GoesOn
  <2>2. CASE ~ListMissing
    <3>1. GoOn(Arguments) BY <2>2 DEF Send
    <3> QED BY <3>1, <1>1, GoesOn
  <2> QED BY <2>1, <2>2
<1>4. TypeOK'
  <2>1. broken' \in BOOLEAN BY Zenon DEF Send
  <2> QED BY <1>1, <1>2, <1>3, <2>1 DEF TypeOK
<1>5. FitsIntact'
  <2> SUFFICES ASSUME need' <= BufSize PROVE FitsIntact'
      BY DEF FitsIntact
  <2>1. /\ process = "running" /\ Kept(FieldLen) = FieldLen
        /\ \A i \in DOMAIN wbuf : wbuf[i].whole
        /\ \A i \in DOMAIN inbox : inbox[i].whole
        BY <1>2 DEF IInv, FitsIntact
  <2>2. Field(FieldLen).whole BY <2>1 DEF Field
  <2>3. \A i \in DOMAIN wbuf' : wbuf'[i].whole
    <3>1. wbuf \in Seq(Tokens) BY <1>1 DEF TypeOK
    <3> DEFINE f == Field(FieldLen)
    <3>2. wbuf' = Append(wbuf, f) /\ f.whole BY <1>2, <2>2
    <3> HIDE DEF f
    <3> QED BY <3>1, <3>2, <2>1
  <2> QED BY <2>1, <2>3, <1>1 DEF FitsIntact
<1> QED BY <1>1, <1>2, <1>3, <1>4, <1>5 DEF IInv, BufferInv

LEMMA RefuseInvariant ==
    ASSUME IInv, Refuse
    PROVE  IInv'
<1>1. /\ BufferInv /\ TypeOK /\ PcOK /\ Building /\ call # NoCall /\ pc[1] \in DOMAIN Steps
      /\ broken' = TRUE
      /\ UNCHANGED <<state, call, wbuf, wlen, need, process, inbox, reading, confused>>
      BY DEF IInv, BufferInv, PcOK, Refuse, Building, tws
<1>2. pc' \in Nat \X Nat /\ PcOK'
  <2>1. CASE ElementUntagged
    <3>1. GoOn([Arguments EXCEPT ![AtStep.loop] = 0]) BY <2>1 DEF Refuse
    <3>2. AtStep.loop # VERSION
          BY <2>1, <1>1, CallFacts DEF ElementUntagged, InTagList
    <3> QED BY <3>1, <3>2, <1>1, GoesOn
  <2>2. CASE ~ElementUntagged
    <3>1. GoOn(Arguments) BY <2>2 DEF Refuse
    <3> QED BY <3>1, <1>1, GoesOn
  <2> QED BY <2>1, <2>2
<1>3. TypeOK' BY <1>1, <1>2 DEF TypeOK
<1> QED BY <1>1, <1>2, <1>3 DEF IInv, BufferInv, FitsIntact

(* A field behind the end of wbuf is of a request that does not fit.          *)
LEMMA OverrunInvariant ==
    ASSUME IInv, Overrun
    PROVE  IInv'
<1>1. /\ BufferInv /\ TypeOK /\ PcOK /\ Building /\ call # NoCall
      /\ Room < 0 /\ need' = need + FieldLen + 1 /\ process' = "corrupt"
      /\ UNCHANGED <<state, call, pc, wbuf, wlen, broken, inbox, reading, confused>>
      BY DEF IInv, BufferInv, Overrun, Building, tws
<1>2. FieldLen \in Nat /\ wlen \in Nat /\ need \in Nat /\ BufSize \in Nat
      BY <1>1, FieldLength, SizeAssumption DEF TypeOK
<1>3. need' \in Nat /\ need' > BufSize
      BY <1>1, <1>2 DEF Room, BufferInv
<1>4. TypeOK' BY <1>1, <1>3 DEF TypeOK
<1>5. PcOK'
  <2>1. Steps' = Steps /\ Arguments' = Arguments BY <1>1 DEF Steps, Arguments
  <2> QED BY <2>1, <1>1 DEF PcOK
<1> QED BY <1>1, <1>2, <1>3, <1>4, <1>5 DEF IInv, BufferInv, FitsIntact

(* What is written is what was in wbuf, which is empty again.                 *)
LEMMA FlushInvariant ==
    ASSUME IInv, Flush
    PROVE  IInv'
<1>1. /\ TypeOK /\ pc = Start /\ inbox' = inbox \o wbuf /\ wbuf' = <<>> /\ wlen' = 0
      /\ call' = NoCall
      /\ state' = "starting" \/ state' = state
      /\ UNCHANGED <<pc, need, broken, process, reading, confused>>
      BY DEF IInv, BufferInv, Flush, Emptied, tws
<1>2. wbuf \in Seq(Tokens) /\ inbox \in Seq(Tokens) BY <1>1 DEF TypeOK
<1>3. inbox' \in Seq(Tokens) /\ <<>> \in Seq(Tokens)
      BY <1>1, <1>2
<1>4. TypeOK' BY <1>1, <1>3 DEF TypeOK
<1>5. PcOK' BY <1>1 DEF PcOK
<1>6. FitsIntact'
  <2> SUFFICES ASSUME need' <= BufSize PROVE FitsIntact'
      BY DEF FitsIntact
  <2>1. /\ process = "running"
        /\ \A i \in DOMAIN wbuf : wbuf[i].whole
        /\ \A i \in DOMAIN inbox : inbox[i].whole
        BY <1>1 DEF IInv, FitsIntact
  <2>2. \A i \in DOMAIN inbox' : inbox'[i].whole
        BY <1>1, <1>2, <2>1
  <2> QED BY <2>1, <2>2, <1>1 DEF FitsIntact
<1> QED BY <1>1, <1>4, <1>5, <1>6, SizeAssumption DEF IInv, BufferInv

LEMMA ReadInvariant ==
    ASSUME IInv, Read
    PROVE  IInv'
<1>1. /\ TypeOK /\ inbox # <<>> /\ inbox' = Tail(inbox)
      /\ confused' = TRUE \/ confused' = confused
      /\ UNCHANGED <<state, call, pc, wbuf, wlen, need, broken, process>>
      BY DEF IInv, BufferInv, Read, client
<1>2. inbox \in Seq(Tokens) BY <1>1 DEF TypeOK
<1>3. /\ inbox' \in Seq(Tokens)
      /\ \A i \in DOMAIN inbox' : i + 1 \in DOMAIN inbox /\ inbox'[i] = inbox[i + 1]
      BY <1>1, <1>2
<1>4. TypeOK' BY <1>1, <1>3 DEF TypeOK
<1>5. PcOK'
  <2>1. Steps' = Steps /\ Arguments' = Arguments BY <1>1 DEF Steps, Arguments
  <2> QED BY <2>1, <1>1 DEF PcOK, IInv, BufferInv
<1> QED BY <1>1, <1>3, <1>4, <1>5 DEF IInv, BufferInv, FitsIntact

(* The connection comes and goes between requests.                            *)
LEMMA ConnectionInvariant ==
    ASSUME IInv, Login \/ OnStartAPI \/ Lose
    PROVE  IInv'
<1>1. /\ TypeOK
      /\ inbox' = inbox \/ inbox' = <<>>
      /\ UNCHANGED <<call, pc, wbuf, wlen, need, process>>
      BY DEF IInv, BufferInv, Login, OnStartAPI, Lose, client, tws
<1>2. TypeOK'
  <2>1. broken' \in BOOLEAN /\ confused' \in BOOLEAN
        BY Zenon DEF IInv, BufferInv, TypeOK, Login, OnStartAPI, Lose, client, tws
  <2>2. inbox' \in Seq(Tokens)
    <3>1. inbox \in Seq(Tokens) BY <1>1 DEF TypeOK
    <3>2. <<>> \in Seq(Tokens) OBVIOUS
    <3> QED BY <1>1, <3>1, <3>2, Zenon
  <2>3. state' \in {"closed", "authed", "starting", "ready"}
        BY DEF Login, OnStartAPI, Lose
  <2> QED BY <1>1, <2>1, <2>2, <2>3 DEF TypeOK
<1>3. PcOK'
  <2>1. Steps' = Steps /\ Arguments' = Arguments BY <1>1 DEF Steps, Arguments
  <2> QED BY <2>1, <1>1 DEF PcOK, IInv, BufferInv
<1> QED BY <1>1, <1>2, <1>3 DEF IInv, BufferInv, FitsIntact

LEMMA StutterInvariant ==
    ASSUME IInv, UNCHANGED vars
    PROVE  IInv'
<1>1. UNCHANGED <<state, call, pc, wbuf, wlen, need, broken, process, inbox, reading, confused>>
      BY DEF vars, client, tws
<1>2. Steps' = Steps /\ Arguments' = Arguments BY <1>1 DEF Steps, Arguments
<1> QED BY <1>1, <1>2 DEF IInv, BufferInv, FitsIntact, TypeOK, PcOK

LEMMA Invariant == Spec => []IInv
<1>1. Init => IInv BY InitInvariant
<1>2. IInv /\ [Next]_vars => IInv'
      BY CallInvariant, SendInvariant, RefuseInvariant, OverrunInvariant, FlushInvariant,
         ReadInvariant, ConnectionInvariant, StutterInvariant DEF Next
<1> QED BY <1>1, <1>2, PTL DEF Spec

--------------------------------------------------------------------------------
(* send_int32, send_double, send_str and flush_buf: wlen counts the fields of *)
(* a request and stays inside wbuf as long as they fit, a request function is *)
(* always at a step of its table, and nothing of a request, cut ones          *)
(* included, is left in wbuf for the next.                                    *)
THEOREM BufferCorrect == Spec => []BufferInv
<1>1. IInv => BufferInv BY DEF IInv
<1> QED BY <1>1, Invariant, PTL

(* Whatever the table, the sizes and the arguments: a request whose fields    *)
(* fit wbuf is sent whole, and never makes wlen pass its end.                 *)
THEOREM FitsWhole == Spec => []FitsIntact
<1>1. IInv => FitsIntact BY DEF IInv
<1> QED BY <1>1, Invariant, PTL

--------------------------------------------------------------------------------
(* TWS in step with the client.  What it reads of a request are the tokens    *)
(* the client took from its table, one after the other.                       *)

IsToken(c, token) ==
    /\ token.cmd = c.cmd /\ token.at \in Nat \X Nat /\ token.at[1] \in DOMAIN Table(c)
    /\ YieldsAt(Table(c), ValuesOf(c), token.at[1])
    /\ token.val = ValueOf(c, Table(c)[token.at[1]])

NextOf(c, token) == NextStep(Table(c), ValuesOf(c), token.at[1], token.at[2])

\* The tokens s of the request c follow one another, and the last one leads to at.
Fields(c, s, at) ==
    \A n \in DOMAIN s : /\ IsToken(c, s[n])
                        /\ NextOf(c, s[n]) = IF n = Len(s) THEN at ELSE s[n + 1].at

\* The client builds a request, and TWS has read all of the one before.
Builds ==
    /\ inbox = <<>> /\ reading = NoRequest
    /\ Fields(call, wbuf, pc)
    /\ <<1, 0>> = IF wbuf = <<>> THEN pc ELSE wbuf[1].at

\* TWS reads the request c: it waits for the token that is next, and knows what the ones
\* before it said.
Reads(c) ==
    /\ Fields(c, inbox, Start)
    /\ \/ reading = NoRequest /\ inbox[1].at = <<1, 0>>
       \/ reading.at # Start /\ reading.cmd = c.cmd /\ reading.at = inbox[1].at
    /\ Agree(Table(c), reading.val, ValuesOf(c), inbox[1].at[1] - 1)

SyncInv ==
    ~broken =>
        /\ ~confused
        /\ call # NoCall => Builds
        /\ call = NoCall =>
               IF inbox = <<>> THEN reading = NoRequest ELSE \E c \in Shapes : Reads(c)

(* The arguments give a step's name the value of its field.                   *)
LEMMA ValueFacts ==
    ASSUME NEW c \in Shapes
    PROVE  /\ Value(ValuesOf(c), VERSION) = 0
           /\ \A k \in DOMAIN Table(c) :
                 Table(c)[k].name # NONE =>
                     Value(ValuesOf(c), Table(c)[k].name) = ValueOf(c, Table(c)[k])
<1> DEFINE t == Table(c)
<1>1. \A k \in DOMAIN t : t[k].name # VERSION BY ShapeFacts
<1>2. Value(ValuesOf(c), VERSION) = 0
      BY <1>1 DEF ValuesOf, ArgumentsOf, Value
<1>3. ASSUME NEW k \in DOMAIN t, t[k].name # NONE
      PROVE  Value(ValuesOf(c), t[k].name) = ValueOf(c, t[k])
  <2> DEFINE n == t[k].name
             i == CHOOSE x \in DOMAIN t : t[x].name = n
  <2>1. i \in DOMAIN t /\ t[i].name = n OBVIOUS
  <2>2. n \in {t[x].name : x \in DOMAIN t} OBVIOUS
  <2>3. Value(ValuesOf(c), n) = ValueOf(c, t[i])
        BY <2>2 DEF ValuesOf, ArgumentsOf, Value
  <2> HIDE DEF i
  <2>4. t[k].kind = t[i].kind
    <3>1. c.cmd \in DOMAIN Requests BY ShapeFacts
    <3> QED BY <1>3, <2>1, <3>1, RequestsAssumption DEF Table
  <2>5. ValueOf(c, t[i]) = ValueOf(c, t[k])
        BY <2>4 DEF ValueOf, Tests, Counts
  <2> QED BY <2>3, <2>5
<1> QED BY <1>2, <1>3

LEMMA FieldsAppend ==
    ASSUME NEW c, NEW s \in Seq(Tokens), NEW e, Fields(c, s, e.at), IsToken(c, e)
    PROVE  /\ Fields(c, Append(s, e), NextOf(c, e))
           /\ Append(s, e)[1] = IF s = <<>> THEN e ELSE s[1]
<1> DEFINE t == Append(s, e)
<1>1. /\ Len(s) \in Nat /\ DOMAIN s = 1..Len(s)
      /\ Len(t) = Len(s) + 1 /\ DOMAIN t = 1..Len(s)+1
      /\ \A n \in 1..Len(s) : t[n] = s[n]
      /\ t[Len(s) + 1] = e /\ (s = <<>> <=> Len(s) = 0)
      OBVIOUS
<1> HIDE DEF t
<1>2. ASSUME NEW n \in DOMAIN t
      PROVE  /\ IsToken(c, t[n])
             /\ NextOf(c, t[n]) = IF n = Len(t) THEN NextOf(c, e) ELSE t[n + 1].at
  <2>1. CASE n = Len(s) + 1 BY <1>1, <2>1
  <2>2. CASE n # Len(s) + 1
    <3>1. n \in DOMAIN s /\ n # Len(t) /\ t[n] = s[n] BY <1>1, <2>2
    <3>2. t[n + 1] = IF n = Len(s) THEN e ELSE s[n + 1]
          BY <1>1, <3>1
    <3> QED BY <3>1, <3>2 DEF Fields
  <2> QED BY <2>1, <2>2
<1>3. t[1] = IF s = <<>> THEN e ELSE s[1] BY <1>1
<1>4. Fields(c, t, NextOf(c, e)) BY <1>2 DEF Fields
<1> QED BY <1>3, <1>4 DEF t

LEMMA FieldsTail ==
    ASSUME NEW c, NEW s \in Seq(Tokens), s # <<>>, NEW at, Fields(c, s, at)
    PROVE  /\ IsToken(c, Head(s)) /\ Head(s) = s[1]
           /\ Fields(c, Tail(s), at)
           /\ Tail(s) = <<>> => NextOf(c, Head(s)) = at
           /\ Tail(s) # <<>> => /\ NextOf(c, Head(s)) = Tail(s)[1].at
                                /\ IsToken(c, Tail(s)[1])
<1> DEFINE t == Tail(s)
<1>1. /\ Len(s) \in Nat \ {0} /\ DOMAIN s = 1..Len(s) /\ Head(s) = s[1]
      /\ Len(t) = Len(s) - 1 /\ DOMAIN t = 1..Len(t)
      /\ \A n \in 1..Len(t) : t[n] = s[n + 1]
      /\ (t = <<>>) <=> (Len(t) = 0)
  <2>1. t \in Seq(Tokens) /\ Len(s) # 0 OBVIOUS
  <2>2. /\ Len(s) \in Nat \ {0} /\ DOMAIN s = 1..Len(s) /\ Head(s) = s[1]
        /\ Len(t) = Len(s) - 1
        BY <2>1
  <2>3. DOMAIN t = 1..Len(t) /\ ((t = <<>>) <=> (Len(t) = 0))
    <3> HIDE DEF t
    <3> QED BY <2>1
  <2>4. \A n \in 1..Len(t) : t[n] = s[n + 1]
        BY <2>2
  <2> QED BY <2>2, <2>3, <2>4
<1> HIDE DEF t
<1>2. \A n \in DOMAIN s : /\ IsToken(c, s[n])
                          /\ NextOf(c, s[n]) = IF n = Len(s) THEN at ELSE s[n + 1].at
      BY DEF Fields
<1>3. ASSUME NEW n \in DOMAIN t
      PROVE  /\ IsToken(c, t[n])
             /\ NextOf(c, t[n]) = IF n = Len(t) THEN at ELSE t[n + 1].at
  <2>1. n + 1 \in DOMAIN s /\ t[n] = s[n + 1] BY <1>1
  <2>2. n = Len(t) <=> n + 1 = Len(s) BY <1>1
  <2>3. n # Len(t) => t[n + 1] = s[n + 1 + 1] BY <1>1
  <2> QED BY <1>2, <2>1, <2>2, <2>3
<1>4. 1 \in DOMAIN s /\ (t # <<>> => t[1] = s[2] /\ 1 # Len(s) /\ 1 \in DOMAIN t)
      BY <1>1
<1>5. t = <<>> => 1 = Len(s) BY <1>1
<1> QED BY <1>1, <1>2, <1>3, <1>4, <1>5 DEF t, Fields

--------------------------------------------------------------------------------
(* The invariant, action by action.                                           *)

LEMMA CallSync ==
    ASSUME IInv, SyncInv, Call
    PROVE  SyncInv'
<1>1. /\ call = NoCall /\ inbox = <<>> /\ call' \in Shapes /\ pc' = <<1, 0>> /\ wbuf = <<>>
      /\ UNCHANGED <<wbuf, inbox, broken, reading, confused>>
      BY DEF IInv, BufferInv, Call, tws
<1>2. call' # NoCall BY <1>1, ShapeFacts
<1>3. Fields(call', wbuf', pc') BY <1>1 DEF Fields
<1> QED BY <1>1, <1>2, <1>3 DEF SyncInv, Builds

LEMMA SendSync ==
    ASSUME IInv, SyncInv, Send
    PROVE  SyncInv'
<1> SUFFICES ASSUME ~broken' PROVE SyncInv'
    BY DEF SyncInv
<1>1. /\ TypeOK /\ PcOK /\ call # NoCall /\ pc # Start /\ pc \in Nat \X Nat
      /\ Put(FieldLen) /\ ~broken /\ GoOn(Arguments)
      /\ UNCHANGED <<call, inbox, reading, confused>>
      BY DEF IInv, BufferInv, TypeOK, Send, Building, tws
<1>2. Builds /\ ~confused BY <1>1 DEF SyncInv
<1> DEFINE e == Field(FieldLen)
<1>3. e.cmd = call.cmd /\ e.at = pc /\ e.val = ValueOf(call, AtStep)
      BY DEF Field
<1>4. wbuf' = Append(wbuf, e) /\ wbuf \in Seq(Tokens)
      BY <1>1 DEF Put, TypeOK
<1> HIDE DEF e
<1>5. Steps = Table(call) /\ Arguments = ValuesOf(call)
      BY DEF Steps, Table, Arguments, ValuesOf
<1>6. IsToken(call, e)
      BY <1>1, <1>3, <1>5 DEF IsToken, PcOK, AtStep
<1>7. pc' = NextOf(call, e)
      BY <1>1, <1>3, <1>5 DEF GoOn, NextOf
<1>8. /\ Fields(call, wbuf', pc')
      /\ wbuf'[1] = IF wbuf = <<>> THEN e ELSE wbuf[1]
      BY <1>2, <1>3, <1>4, <1>6, <1>7, FieldsAppend DEF Builds
<1>9. wbuf' # <<>> BY <1>4
<1>10. <<1, 0>> = wbuf'[1].at
       BY <1>2, <1>3, <1>8 DEF Builds
<1> QED BY <1>1, <1>2, <1>8, <1>9, <1>10 DEF SyncInv, Builds

LEMMA FlushSync ==
    ASSUME IInv, SyncInv, Flush
    PROVE  SyncInv'
<1> SUFFICES ASSUME ~broken' PROVE SyncInv'
    BY DEF SyncInv
<1>1. /\ TypeOK /\ call # NoCall /\ pc = Start /\ inbox' = inbox \o wbuf /\ call' = NoCall
      /\ UNCHANGED <<broken, reading, confused>>
      BY DEF IInv, BufferInv, Flush, tws
<1>2. Builds /\ ~confused /\ call \in Shapes BY <1>1, CallFacts DEF SyncInv
<1>3. wbuf \in Seq(Tokens) BY <1>1 DEF TypeOK
<1>4. inbox' = wbuf BY <1>1, <1>2, <1>3 DEF Builds
<1>5. wbuf # <<>> /\ wbuf[1].at = <<1, 0>>
      BY <1>1, <1>2 DEF Builds, Start
<1>6. Agree(Table(call), reading.val, ValuesOf(call), wbuf[1].at[1] - 1)
  <2>1. wbuf[1].at[1] - 1 = 0 BY <1>5
  <2>2. reading.val = <<>> BY <1>2 DEF Builds, NoRequest
  <2>3. Value(<<>>, VERSION) = 0 BY DEF Value
  <2>4. Value(ValuesOf(call), VERSION) = 0 BY <1>2, ValueFacts
  <2> QED BY <2>1, <2>2, <2>3, <2>4 DEF Agree
<1>7. Fields(call, wbuf, Start) /\ reading = NoRequest BY <1>1, <1>2 DEF Builds
<1> DEFINE R(c) == /\ Fields(c, wbuf, Start)
                   /\ \/ reading = NoRequest /\ wbuf[1].at = <<1, 0>>
                      \/ reading.at # Start /\ reading.cmd = c.cmd /\ reading.at = wbuf[1].at
                   /\ Agree(Table(c), reading.val, ValuesOf(c), wbuf[1].at[1] - 1)
<1>8. R(call) BY <1>5, <1>6, <1>7
<1>9. \E c \in Shapes : Reads(c)'
  <2>1. \A c \in Shapes : R(c) => Reads(c)' BY <1>1, <1>4 DEF Reads
  <2> HIDE DEF R
  <2> QED BY <1>2, <1>8, <2>1
<1> QED BY <1>1, <1>2, <1>4, <1>5, <1>9 DEF SyncInv

(* TWS reads a token: it is the one it expects, and what it said before and   *)
(* says now leads TWS on as the arguments led the client.                     *)
LEMMA ReadSync ==
    ASSUME IInv, SyncInv, Read
    PROVE  SyncInv'
<1> SUFFICES ASSUME ~broken' PROVE SyncInv'
    BY DEF SyncInv
<1>1. /\ TypeOK /\ inbox # <<>> /\ inbox' = Tail(inbox) /\ inbox \in Seq(Tokens)
      /\ UNCHANGED <<call, broken>> /\ ~broken
      BY DEF IInv, BufferInv, TypeOK, Read, client
<1>2. call = NoCall /\ ~confused BY <1>1 DEF SyncInv, Builds
<1>3. PICK c \in Shapes : Reads(c) BY <1>1, <1>2 DEF SyncInv
<1> DEFINE token == Head(inbox)
           i == token.at[1]
           j == token.at[2]
           v == Assign(reading.val, Table(c)[i].name, token.val)
           next == NextOf(c, token)
<1>4. /\ IsToken(c, token) /\ token = inbox[1]
      /\ Fields(c, inbox', Start)
      /\ inbox' = <<>> => next = Start
      /\ inbox' # <<>> => next = inbox'[1].at /\ IsToken(c, inbox'[1])
      BY <1>1, <1>3, FieldsTail DEF Reads
<1>5. Expects(token)
  <2>1. token.cmd = c.cmd BY <1>4 DEF IsToken
  <2>2. CASE reading = NoRequest /\ token.at = <<1, 0>>
        BY <2>2 DEF Expects, NoRequest
  <2>3. CASE reading.at # Start /\ reading.cmd = c.cmd /\ reading.at = token.at
        BY <2>1, <2>3 DEF Expects
  <2> HIDE DEF token
  <2> QED BY <1>3, <1>4, <2>2, <2>3 DEF Reads
<1>6. /\ i \in DOMAIN Table(c) /\ YieldsAt(Table(c), ValuesOf(c), i)
      /\ token.val = ValueOf(c, Table(c)[i]) /\ token.cmd = c.cmd
      BY <1>4 DEF IsToken
<1>7. \A n \in TestedNames(Table(c)) :
          Value(v, n) = IF n = Table(c)[i].name THEN Value(ValuesOf(c), n)
                        ELSE Value(reading.val, n)
  <2>1. \A n : Value(v, n) = IF n = Table(c)[i].name THEN token.val ELSE Value(reading.val, n)
        BY DEF Value, Assign
  <2>2. Table(c)[i].name # NONE => token.val = Value(ValuesOf(c), Table(c)[i].name)
        BY <1>6, ValueFacts
  <2>3. NONE \notin TestedNames(Table(c)) BY TestedNamesFacts
  <2> HIDE DEF v, token, i
  <2> QED BY <2>1, <2>2, <2>3
<1>8. Agree(Table(c), reading.val, ValuesOf(c), i - 1)
      BY <1>3, <1>4 DEF Reads
<1>9. Ordered(Table(c)) BY ShapeFacts
<1>10. /\ NextStep(Table(c), v, i, j) = next
       /\ \A k, l : <<k, l>> = next /\ <<k, l>> # Start =>
                       Agree(Table(c), v, ValuesOf(c), k - 1)
  <2>1. NextOf(c, token) = NextStep(Table(c), ValuesOf(c), i, j) BY DEF NextOf
  <2> HIDE DEF token, i, j, v
  <2> QED BY <1>6, <1>7, <1>8, <1>9, <2>1, Follow
<1>11. /\ reading' = IF next = Start THEN NoRequest
                     ELSE [cmd |-> token.cmd, at |-> next, val |-> v]
       /\ confused' = confused
  <2>1. v = Assign(reading.val, Requests[token.cmd][token.at[1]].name, token.val)
        BY <1>6 DEF Table
  <2>2. next = NextStep(Requests[token.cmd], v, token.at[1], token.at[2])
        BY <1>6, <1>10 DEF Table
  <2> HIDE DEF next, v
  <2> QED BY <1>5, <2>1, <2>2 DEF Read
<1>12. CASE inbox' = <<>>
  <2>1. reading' = NoRequest BY <1>4, <1>11, <1>12
  <2> QED BY <1>1, <1>2, <1>11, <1>12, <2>1 DEF SyncInv
<1>13. CASE inbox' # <<>>
  <2>1. /\ next = inbox'[1].at /\ next \in Nat \X Nat /\ next[1] \in DOMAIN Table(c)
        BY <1>4, <1>13 DEF IsToken
  <2>2. next # Start
    <3>1. DOMAIN Table(c) = 1..Len(Table(c)) BY ShapeFacts
    <3> HIDE DEF next
    <3> QED BY <2>1, <3>1 DEF Start
  <2>3. Agree(Table(c), v, ValuesOf(c), next[1] - 1)
    <3>1. next = <<next[1], next[2]>>
      <4> HIDE DEF next
      <4> QED BY <2>1
    <3> HIDE DEF next, v
    <3> QED BY <1>10, <2>2, <3>1
  <2>4. reading' = [cmd |-> token.cmd, at |-> next, val |-> v]
        BY <1>11, <2>2
  <2>5. reading'.cmd = c.cmd /\ reading'.at = inbox'[1].at /\ reading'.val = v /\ reading'.at # Start
    <3> HIDE DEF next, v, token
    <3> QED BY <1>6, <2>1, <2>2, <2>4
  <2>6. Reads(c)'
    <3> HIDE DEF next, v, token
    <3> QED BY <1>4, <2>1, <2>3, <2>5 DEF Reads
  <2> QED BY <1>1, <1>2, <1>11, <1>13, <2>6 DEF SyncInv
<1> QED BY <1>12, <1>13

LEMMA OtherSync ==
    ASSUME IInv, SyncInv, Refuse \/ Overrun \/ Login \/ OnStartAPI \/ Lose \/ UNCHANGED vars
    PROVE  SyncInv'
<1>1. CASE Refuse
      BY <1>1 DEF SyncInv, Refuse
<1>2. CASE Overrun \/ Login \/ OnStartAPI \/ UNCHANGED vars
  <2>1. UNCHANGED <<call, pc, wbuf, broken, inbox, reading, confused>>
        BY <1>2 DEF Overrun, Login, OnStartAPI, vars, client, tws
  <2>2. Builds' = Builds /\ \A c \in Shapes : Reads(c)' = Reads(c)
        BY <2>1 DEF Builds, Reads
  <2> QED BY <2>1, <2>2 DEF SyncInv
<1>3. CASE Lose
      BY <1>3 DEF SyncInv, Lose
<1> QED BY <1>1, <1>2, <1>3

(* Whatever the table and the arguments: if no list function returned 0 and   *)
(* no tested field was cut, TWS finds of each request, from the fields        *)
(* before, what each field is; it reads all of it, and the next one begins    *)
(* where it expects one.                                                      *)
THEOREM TwsInStep == Spec => []InStep
<1>1. Init => IInv /\ SyncInv
  <2>1. Init => SyncInv BY DEF Init, SyncInv
  <2> QED BY <2>1, InitInvariant
<1>2. IInv /\ SyncInv /\ [Next]_vars => SyncInv'
      BY CallSync, SendSync, FlushSync, ReadSync, OtherSync DEF Next
<1>3. SyncInv => InStep
      BY DEF SyncInv, InStep
<1> QED BY <1>1, <1>2, <1>3, Invariant, PTL DEF Spec
================================================================================
