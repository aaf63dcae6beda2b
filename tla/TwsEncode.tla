------------------------------- MODULE TwsEncode -------------------------------
(* The request encoder of a TWS client: the send_* functions of               *)
(* src/src/tws_encode.c, which build one request after another in wbuf, and a *)
(* TWS that reads them.  The client decides what to send from its arguments,  *)
(* TWS what to expect from the tokens it has read.                            *)
(* A request is built without a callback in between; its steps are those of   *)
(* one function.  TwsClient models the writes and their callbacks.            *)
EXTENDS TwsRequests

CONSTANTS
    Requests,    \* the requests and their steps: see TwsRequests
    Shapes,      \* the arguments they are called with
    BufSize,     \* sizeof(wbuf)
    TagSize,     \* sizeof(sbuf) in send_options_list: one tag and value
    ListSize,    \* sizeof(obuf) in send_options_list: all of them
    NumLen       \* characters of a number

(* A shape: the request, whether the fields that conditions test are set, the *)
(* length of its arrays, of its strings and of the tags and values of its     *)
(* options, whether the numbers that may be left out are set, and what its    *)
(* lists of tags are: NULL, whole, or with a last element without a tag.      *)
ASSUME ShapesAssumption ==
    Shapes \subseteq [cmd : DOMAIN Requests, flag : {0, 1}, count : Int, text : Nat, tag : Nat,
                      set : {0, 1}, list : {"null", "whole", "untagged"}]
\* TWS can only read a table whose conditions test fields before them.
ASSUME RequestsAssumption ==
    /\ "" \notin DOMAIN Requests
    /\ \A r \in DOMAIN Requests :
          /\ Ordered(Requests[r]) /\ Requests[r][1] = Num(1)[1]
          /\ \A i \in DOMAIN Requests[r] :
                /\ Requests[r][i].kind = "tags" => Requests[r][i].loop = NONE
                /\ Requests[r][i].name # NONE =>
                      \A k \in DOMAIN Requests[r] :
                          Requests[r][k].name = Requests[r][i].name =>
                              Requests[r][k].kind = Requests[r][i].kind
ASSUME SizeAssumption == BufSize \in Nat \ {0} /\ NumLen \in Nat \ {0}
ASSUME ListAssumption == TagSize \in Nat /\ ListSize \in Nat

NoCall == [cmd |-> "", flag |-> 0, count |-> 0, text |-> 0, tag |-> 0, set |-> 0, list |-> "null"]

VARIABLES
    state,       \* "closed", "authed", "starting" (START_API is written), "ready"
    call,        \* the request function that runs, and its arguments
    pc,          \* <<i, j>>: its next field is that of step i, array element j
    wbuf,        \* the fields in wbuf
    wlen,        \* ... and their bytes
    need,        \* the bytes the request's fields so far would take in a large wbuf
    broken,      \* on this connection a request has a field missing or misread
    process,     \* "running", or "corrupt": a field was sent with wlen past wbuf
    inbox,       \* what was written and TWS has not read
    reading,     \* TWS: the request it reads, its next step, the values it has read
    confused     \* TWS: it met a token where its table has none

client == <<call, pc, wbuf, wlen, need, broken, process>>
tws == <<reading, confused>>
vars == <<state, client, inbox, tws>>

NoRequest == [cmd |-> "", at |-> Start, val |-> <<>>]

--------------------------------------------------------------------------------
(* Fields                                                                     *)

Steps == Requests[call.cmd]
AtStep == Steps[pc[1]]
Tests(s) == s.kind \in {"flag", "flagstr", "flagmax"}
Counts(s) == s.kind \in {"count", "tags"}

\* The value of a field that conditions test, the same for the client and TWS.
ValueOf(c, s) == IF Tests(s) THEN c.flag ELSE IF Counts(s) THEN c.count ELSE 0
ArgumentsOf(c, steps) ==
    [n \in {steps[i].name : i \in DOMAIN steps} |->
        ValueOf(c, steps[CHOOSE i \in DOMAIN steps : steps[i].name = n])]
Arguments == ArgumentsOf(call, Steps)

\* send_options_list: the characters of one "tag=val;" and of the list.
OptionLen == 2 * call.tag + 2
OptionsLen == IF call.list = "null" \/ call.count <= 0 THEN 0 ELSE call.count * OptionLen

\* The characters of the field at this step.
FieldLen ==
    LET kind == AtStep.kind
    IN  IF kind = "str" THEN call.text
        ELSE IF kind = "max" THEN NumLen * call.set
        ELSE IF kind = "flagmax" THEN NumLen * call.flag
        ELSE IF kind = "flagstr" THEN 3 * call.flag
        ELSE IF kind = "options" THEN OptionsLen
        ELSE NumLen

\* send_options_list returns 0: an element has no tag, does not fit sbuf, or the list
\* does not fit obuf.
OptionsRefused ==
    /\ AtStep.kind = "options" /\ call.list # "null" /\ call.count > 0
    /\ call.list = "untagged" \/ OptionLen >= TagSize \/ OptionsLen >= ListSize

InTagList == \E i \in DOMAIN Steps : Steps[i].kind = "tags" /\ Steps[i].name = AtStep.loop

\* send_tag_list returns 0 behind the length, or in front of an element.
ListMissing == AtStep.kind = "tags" /\ call.list = "null" /\ call.count > 0
ElementUntagged == InTagList /\ call.list = "untagged" /\ pc[2] = call.count - 1

--------------------------------------------------------------------------------
(* Actions of the client                                                      *)

Init ==
    /\ state = "closed" /\ call = NoCall /\ pc = Start
    /\ wbuf = <<>> /\ wlen = 0 /\ need = 0 /\ broken = FALSE /\ process = "running"
    /\ inbox = <<>> /\ reading = NoRequest /\ confused = FALSE

\* CHECK_CONNECTED, and the test of startAPI: without it a function returns at once.
Allowed(cmd) == state = (IF cmd = "START_API" THEN "authed" ELSE "ready")

\* A public function, or startAPI.  TWS has read what was written before.
Call ==
    /\ process = "running" /\ call = NoCall /\ inbox = <<>>
    /\ \E shape \in Shapes : Allowed(shape.cmd) /\ call' = shape
    /\ pc' = <<1, 0>> /\ need' = 0
    /\ UNCHANGED <<state, wbuf, wlen, broken, process, inbox, tws>>

Building == process = "running" /\ call # NoCall /\ pc # Start
Room == BufSize - wlen

(* The characters snprintf keeps of a field: it ends them with a NUL, and     *)
(* writes nothing where wbuf is full.  A NUL is behind wbuf all the same, so  *)
(* that strlen finds an empty field there: the byte is padding and never set. *)
Kept_Early(n) == IF n < Room - 1 THEN n ELSE IF Room > 1 THEN Room - 2 ELSE 0
Kept(n) == IF n < Room THEN n ELSE IF Room > 0 THEN Room - 1 ELSE 0
Cut == Kept(FieldLen) # FieldLen

Field(n) ==
    [cmd |-> call.cmd, at |-> pc, val |-> ValueOf(call, AtStep), whole |-> Kept(n) = n]

Put_Mutated(n) ==
    IF n = 0 THEN UNCHANGED <<wbuf, wlen>>
    ELSE wbuf' = Append(wbuf, Field(n)) /\ wlen' = wlen + Kept(n) + 1

\* send_int32, send_double, send_str, send_eol
Put(n) == wbuf' = Append(wbuf, Field(n)) /\ wlen' = wlen + Kept(n) + 1

\* Where the function goes on, with these values of its conditions.
GoOn(v) == pc' = NextStep(Steps, v, pc[1], pc[2])

\* TWS reads another value than the arguments have.
Misread == Cut /\ (Tests(AtStep) \/ Counts(AtStep))

Send ==
    /\ Building /\ ~OptionsRefused /\ ~ElementUntagged /\ Room >= 0
    /\ Put(FieldLen)
    /\ need' = need + FieldLen + 1
    /\ broken' = (broken \/ ListMissing \/ Misread)
    /\ GoOn(IF ListMissing THEN [Arguments EXCEPT ![AtStep.name] = 0] ELSE Arguments)
    /\ UNCHANGED <<state, call, process, inbox, tws>>

\* A list function returns 0 without sending a field.
Refuse ==
    /\ Building /\ (OptionsRefused \/ ElementUntagged)
    /\ broken' = TRUE
    /\ GoOn(IF ElementUntagged THEN [Arguments EXCEPT ![AtStep.loop] = 0] ELSE Arguments)
    /\ UNCHANGED <<state, call, wbuf, wlen, need, process, inbox, tws>>

(* A field with wlen past the end of wbuf: sizeof(wbuf) - wlen wraps around,  *)
(* snprintf writes without a bound, and send_eol a NUL behind wbuf.  Nothing  *)
(* is known of the process from here on.                                      *)
Overrun ==
    /\ Building /\ ~OptionsRefused /\ ~ElementUntagged /\ Room < 0
    /\ need' = need + FieldLen + 1
    /\ process' = "corrupt"
    /\ UNCHANGED <<state, call, pc, wbuf, wlen, broken, inbox, tws>>

\* flush_buf: tws_client_write copies wbuf to a request of its own.
Emptied_Mutated == UNCHANGED <<wlen, wbuf>>
Emptied == wlen' = 0 /\ wbuf' = <<>>

Flush ==
    /\ process = "running" /\ call # NoCall /\ pc = Start
    /\ inbox' = inbox \o wbuf
    /\ Emptied
    /\ call' = NoCall
    /\ state' = IF call.cmd = "START_API" THEN "starting" ELSE state
    /\ UNCHANGED <<pc, need, broken, process, tws>>

--------------------------------------------------------------------------------
(* The connection and TWS                                                     *)

\* TwsClient models when these happen: the login, the callback of START_API's write,
\* and the loss of the connection.
Login ==
    /\ state = "closed" /\ state' = "authed"
    /\ UNCHANGED <<client, inbox, tws>>

OnStartAPI ==
    /\ state = "starting" /\ state' = "ready"
    /\ UNCHANGED <<client, inbox, tws>>

Lose ==
    /\ state # "closed" /\ call = NoCall
    /\ state' = "closed" /\ inbox' = <<>> /\ reading' = NoRequest /\ confused' = FALSE
    /\ broken' = FALSE
    /\ UNCHANGED <<call, pc, wbuf, wlen, need, process>>

\* TWS expects the id of a request, or the field its table has next.
Expects(token) ==
    IF reading.at = Start THEN token.at = <<1, 0>>
    ELSE token.cmd = reading.cmd /\ token.at = reading.at

Read ==
    /\ inbox # <<>> /\ ~confused /\ inbox' = Tail(inbox)
    /\ LET token == Head(inbox)
           steps == Requests[token.cmd]
           val == Assign(reading.val, steps[token.at[1]].name, token.val)
           next == NextStep(steps, val, token.at[1], token.at[2])
       IN  IF Expects(token)
           THEN /\ reading' = IF next = Start THEN NoRequest
                              ELSE [cmd |-> token.cmd, at |-> next, val |-> val]
                /\ UNCHANGED confused
           ELSE confused' = TRUE /\ UNCHANGED reading
    /\ UNCHANGED <<state, client>>

Next == Call \/ Send \/ Refuse \/ Overrun \/ Flush \/ Login \/ OnStartAPI \/ Lose \/ Read

Spec == Init /\ [][Next]_vars

--------------------------------------------------------------------------------
(* Properties                                                                 *)

Tokens == [cmd : DOMAIN Requests, at : Nat \X Nat, val : Int, whole : BOOLEAN]

TypeOK ==
    /\ state \in {"closed", "authed", "starting", "ready"}
    /\ broken \in BOOLEAN /\ confused \in BOOLEAN
    /\ call \in Shapes \cup {NoCall} /\ pc \in Nat \X Nat
    /\ wbuf \in Seq(Tokens) /\ inbox \in Seq(Tokens)
    /\ wlen \in Nat /\ need \in Nat /\ process \in {"running", "corrupt"}

(* A request function is at a step of its table whose conditions hold.        *)
PcOK ==
    IF call = NoCall THEN pc = Start
    ELSE pc # Start => pc[1] \in DOMAIN Steps /\ YieldsAt(Steps, Arguments, pc[1])

(* wlen counts the bytes of all the fields of this request, and stays inside  *)
(* wbuf with them, unless they need more than wbuf has; between requests it   *)
(* is 0, so that nothing of one becomes part of the next, of a cut one either.*)
BufferInv ==
    /\ TypeOK /\ PcOK
    /\ IF call = NoCall THEN wlen = 0 /\ wbuf = <<>>
       ELSE wlen = need \/ need > BufSize

(* "char wbuf[1024]; size_t wlen;" (tws_private.h:48), and every snprintf is  *)
(* given "sizeof(client->wbuf) - client->wlen" (tws_encode.c:80): wlen never  *)
(* passes the end of wbuf.  It does when a field is cut, or fills wbuf, and   *)
(* another one follows: the "+ 1" counts a NUL that is behind the end.        *)
WlenInBuf == wlen <= BufSize

(* A request that fits wbuf to the last byte is built, and every field of it  *)
(* reaches TWS whole.                                                         *)
FitsIntact ==
    need <= BufSize =>
        /\ process = "running"
        /\ \A i \in DOMAIN wbuf : wbuf[i].whole
        /\ \A i \in DOMAIN inbox : inbox[i].whole

(* TWS can tell from the fields before what each field of a request is, in    *)
(* all of them, with every choice of optional fields and lengths; the next    *)
(* request begins where it expects one.  Not so if a list function returned   *)
(* 0, which the callers ignore, or if a field that conditions test was cut.   *)
InStep ==
    ~broken => /\ ~confused
               /\ call = NoCall /\ inbox = <<>> => reading = NoRequest
================================================================================
