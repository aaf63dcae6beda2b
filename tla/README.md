# libtwsclient: specification, model checking and proofs

libtwsclient is an asynchronous C client of the Interactive Brokers TWS API on
top of libuv. This directory holds TLA+ modules that model it, the TLC runs that
check them on small instances, and theorems TLAPS proves for every value of
their constants. `PROJECT.json` lists the runs, maps every definition to the
lines it models, and lists the findings and the hazards of the code.

    tlc -workers 2 -config client_safety.cfg MCTwsClient.tla   # model-check
    tlapm TwsClientProofs.tla                                  # check the proofs

## 1. The system

One thread, one libuv loop. The library is called by libuv (connect, read,
write, close and timer callbacks) and by its user, who may call any public
function from outside or from inside an event callback. There is no locking and
no persistence: what is hard is re-entrance, the order in which libuv delivers
callbacks, and a decoder that is suspended between tokens while all that happens.

| component | source | state | operations | hard about it |
|---|---|---|---|---|
| Connection lifecycle | `src/src/tws_client.c` | `state`, `clientId`, `enable_reconnect`, `free_flag`, `reconnect_timer`, `socket` | connect, close, stop, destroy, enable/disable_reconnect; on_connect, on_read_cb, on_write_cb, on_close_cb, on_reconnect_timer_cb | user calls from inside `tws_client_close`, callbacks of a socket that is closing, a timer that outlives its reason, memory freed while libuv still refers to it |
| Reconnect backoff | `tws_client.c:163-231` | `reconnects`, `reconnect_delay(_max)`, `max_reconnects_incr` | enable, disable, `_client_reconnect_start` | int arithmetic, settings changed between attempts |
| Read buffer | `tws_client.c:39-95`, `tws_decode.c:1572-1579` | `rbuf`, `rstart`, `rlen`, `p` | on_alloc_cb, on_read_cb, the resets | a window that moves while a token is incomplete; resets from inside the loop that uses it |
| Login and dispatch | `tws_decode.c:69-90`, `1410-1570` | `pt`, `cmd`, `serverVersion` | decode_login_package, decode_response_package | one protothread label for 44 functions |
| Packet decoders | `tws_decode.c:92-1405` | the event union, `pt`, `j` | 43 `receive_*` functions | version conditions, optional fields, arrays; every string must be initialised, handed over, freed |
| Structures | `tws_type.c` | - | tws_init_*, tws_destroy_* | what is cleared, what is freed |
| Request encoder | `tws_encode.c` | `wbuf`, `wlen` | startAPI, logon, 47 requests | a fixed buffer, error results nobody reads, requests dropped silently |
| Logging, demos, build | `tws_utils.c`, `test/`, CMake | - | - | not modelled |

Who calls whom: libuv calls the lifecycle; on_read_cb cuts tokens out of the
read buffer and hands each to the decoder; the decoder calls the user, changes
`state` at the end of the login, starts the API through the encoder, and may
close the client; the lifecycle resets decoder and buffer before each dial and
reports CLIENT_CONNECTED and CLIENT_DISCONNECTED; the encoder's requests are
written by the lifecycle's `tws_client_write`, and `on_start_api`, the callback of
the START_API write, makes the client READY.

What makes each part correct:

- lifecycle: READY means commands can be sent; each connection is reported up at
  most once and down exactly once; its socket is closed once and released before
  the next dial; the client dials by itself only if it may, and does so in the
  end if it may; a destroyed client is freed and then left alone;
- backoff: every wait is within its bounds;
- read buffer: tokens arrive whole, once, in order, and only a token that cannot
  fit costs the connection;
- decoder: it stays in step with TWS in every version of every packet, and what
  it hands to the user is initialised and freed;
- encoder: a request that fits the buffer reaches TWS complete, and TWS can tell its fields apart.

## 2. Modules

| module | models | state and actions |
|---|---|---|
| `TwsSession` | what the user of a client sees: abstract specification | `session`, `auto`, `id` |
| `TwsClient` | lifecycle, login, dispatch; the server and libuv as environment | fields of `real_client_t` by name; the call stack as `handler`, `event`, `disc`; one action per public function, libuv callback, decoder branch, and return from a user callback |
| `TwsClientProofs`, `TwsEnvProofs` | theorems about it, the second in every environment | |
| `TwsTokens` | the token stream a decoder may rely on: abstract | `stream`, `sent`, `taken` |
| `TwsReadBuffer` | on_alloc_cb, on_read_cb | `rbuf`, `rstart`, `rlen`, `p` as in C; a byte is its position in the stream |
| `TwsReadBufferProofs` | theorems about it | |
| `TwsEvents` | the events a user may rely on when packets arrive: abstract | `conn`, `sent`, `told`, `shown` |
| `TwsReceive` | the composition of `TwsReadBuffer` and `TwsDecode`: from the bytes of a connection to the user's callbacks | both modules' variables, and `heard`, `told`, `shown`, the bytes events are made of |
| `TwsReceiveProofs` | theorems about it | |
| `TwsReconnect` | settings and delay | the fields by name, `timeout` what uv_timer_start is given |
| `TwsReconnectProofs` | theorems about it | |
| `TwsSteps` | messages as tables of steps, and how a program goes through one; used by both directions | constant definitions |
| `TwsStepsProofs` | lemmas about `NextStep` and the order of places | |
| `TwsPackets` | the 43 `receive_*` functions and the login as tables of steps and memory | constant definitions |
| `TwsDecode` | the protothreads: an interpreter of the tables against a TWS that greets and sends packets | `authed`, `cmd`, `pt`, `val`, `mem`, `lost`; `sending` and `outgoing`, the packet TWS sends and how far it is |
| `TwsDecodeProofs` | theorems about it | |
| `TwsRequests` | the 47 requests and START_API as tables of steps | constant definitions |
| `TwsEncode` | the marshal functions: an interpreter of the tables that fills `wbuf`, and a TWS that reads | `wbuf`, `wlen`, `call` and `pc` (the function that runs), `reading` |
| `TwsEncodeProofs` | theorems about it | |
| `MC*` | instances for TLC | |

`TwsClient`, `TwsReceive` and `TwsReconnect` stand side by side for one client, each abstracting
what the others detail: `TwsClient` takes tokens from a queue (`TwsReadBuffer` says how they are
cut) and counts the tokens of a packet (`TwsDecode` says what they are), its timer is
on or off (`TwsReconnect` says for how long), and in `TwsReceive` a connection is open or not. What each leaves to another is a
nondeterministic choice there: any number of tokens per read, any return of
VERIFY_COMPLETED, any time for the timer.

### TwsClient in more detail

- The call stack is state. `handler` is the library callback that has not
  returned (`read` is on_read_cb in its loop, `finish` is libuv's
  uv__finish_close, which runs the callbacks of the writes that are left and then
  on_close_cb). `event` is the user's callback it made, `disc` the
  CLIENT_DISCONNECTED callback inside `tws_client_close`, which therefore is two
  actions: `CloseBegins` in every caller and `CloseEnds`. Whenever one of the user's
  callbacks is on top, every public function may be called.
- `writes` are the requests libuv holds and `done` how many of those the kernel
  took: their callback comes later, with status 0 even if the socket is closed in
  between. This is how libuv's uv__write and uv__stream_destroy work.
- `process` leaves `running` when uv_close is called for a closing socket (`abort`, libuv's assertion), when a
  handle is initialised that the loop still uses (`corrupt`: uv_tcp_init over a socket, uv_timer_init of an armed timer;
  nothing is defined from there on), when freed memory is used (`crash`), and at the exit(0) for an unknown packet.
- What a user, the system or libuv may do is a constant, `Env` (see `EnvAll`), so
  that each run and theorem says which behaviours it survives:

| member of Env | behaviour | who breaks under it |
|---|---|---|
| `late_write` | a socket is closed after a write completed, before its callback | `ReadyIsUsable` |
| `close_in_read` | the user closes in a data callback with tokens left | `CloseIsFinal` |
| `dial_open` | the user connects a client that is not closed, from inside CLIENT_DISCONNECTED for instance | `NoReinit` |
| `enable_with_timer` | the user enables reconnecting again while the timer is pending | `NoReinit` |
| `dial_with_timer` | the user connects while the timer is pending | `NoReinit` |
| `bad_with_timer` | ... with a malformed address | `NoAutoDialWhenDisabled` |
| `destroy_with_timer` | a closed client is destroyed while its timer is pending | `DestroyIsFinal`, `NoAutoDialWhenDisabled` |
| `sync_error` | uv_tcp_connect fails at once | none: the leaked handle is modelled, and the retry is armed |
| `freed_read` | freed memory is overwritten before on_write_cb reads it | the process |
| `unknown_packet` | TWS sends an unknown packet id | the process |

- The one call the model's user never makes is a call after `tws_client_destroy`.
- The server is not in this repository. It greets after the logon, sends packets once
  the API is started, and answers VERIFY_COMPLETED to a command only.

### TwsPackets and TwsDecode

A `receive_*` function is a sequence of YIELDs, each with a condition on the version,
on a flag read before, or on an array's length. `TwsPackets` writes each function
down as such a table, in the order of the code; the login is a table of its own (`Login`).
`TwsDecode` uses a table in two ways. TWS knows what is in a packet (a shape: version, lengths, flags):
the places of the packet, a step or a step of an array's element, are a set (`Places`) with an
order (`Precedes`), and TWS sends the tokens in that order, one after the other (`Following`).
The client decides from the tokens it has seen where it yields next
(`NextStep`), and which function gets the token: the login as long as it is not authenticated
(`Receiver`). `InStep` says that the two agree at every token. Since the layout TWS uses is not
in the repository, it is the one the code reads: an error in a condition, made alike on both
sides, is out of reach; an error in the control (a loop, a missing YIELD, a reset, a
value used before it is read) is not.

Memory is a set of slots, one per pointer, and one per number that some version does not assign:
`stale` (whatever the union held), `null` (or any value that owns nothing) or `owned`. Assigning
over an owned slot loses it, the end of the packet frees the slots the code frees. `KnownStale`
and `KnownLeaks` are the slots for which the code breaks the rule, each with the versions for which
it does; everything else must obey it.

Abstractions: strings of one packet are all empty or all filled; of its arrays and flags at most one
differs from the others, in each way one can. Numbers other than versions, lengths,
tested flags and those of `KnownStale` are not modelled.

### TwsReceive

`TwsReadBuffer` alone hands tokens to a decoder that does with them what it likes; `TwsDecode`
alone is handed tokens by TWS. `TwsReceive` puts one behind the other: a token is what on_read_cb
cut out of `rbuf`, its value is its first byte, and the switch of decode_response_package
(`Command`) looks it up among the ids of tws_event.h. A step of both is one action: the loop of
on_read_cb stands at tws_decode_message (`handler = "decode"`) while a callback runs, which may close
the client; the login's end clears the buffer under the loop; `_client_connect` resets both.
`TwsEvents` is what a user may rely on: every packet received as a whole becomes one event, made
of the packet's own bytes, in order, before the connection is given up.

`EventsAdvance` says the part of this that no assumption on TWS is needed for: an event is made of
consecutive bytes behind those of all events before it. `DecodesInTable`, a theorem only, says of the decoder what
keeps its writes to arrays inside their allocation.

A life (`Lives`) is chosen in the initial state: what TWS sends over all connections, and up to which
byte each of them is received. It also names its own parse, which the client does not see: with which
byte a field begins, of which packet it is and at which place (`fields`), and which bytes are a packet's
(`packets`). `LawfulLives` says when that is right: every connection is a greeting and packets of the
tables, place after place (`Following`), each token standing for the number its field has wherever a condition
tests it (`Means`). `InStepWithBytes` then compares: the decoder waits for the field that begins
with the first byte it has not seen. A connection is lost or closed, between reads or in a callback, when
its bytes are used up; since lives are cut after every byte, that is anywhere. A callback closes
only with no complete token left in the window: what happens otherwise is what
`client_close_in_read` shows. TWS sends nothing between its greeting and START_API.

### TwsRequests and TwsEncode

The other direction has the same form: a request function is a table of fields, and
`TwsEncode` goes through it one field at a time. The client decides what comes next from its
arguments, TWS from the fields it has read. `Send` is one call of send_int32, send_double,
send_str or send_eol: snprintf cuts the field to the room that is left, and `wlen` grows by
what was kept and a NUL. `need` counts what the fields would take in a buffer without an end.
`Refuse` and `ListMissing` are the returns of 0 by the functions for lists, after which the
caller goes on as if nothing had happened. A field for a full buffer is written as far as the code
writes it: snprintf has no room, the NUL behind `wbuf` (padding of the struct, zero from sk_calloc
and written by send_eol only) is taken for its end, and `wlen` becomes 1025. `Overrun` is the field after that:
`sizeof(wbuf) - wlen` wraps around, snprintf writes without a bound over `wlen` itself, and the model
ends (`process = "corrupt"`). That it comes to this is a finding, `encode_overrun`. `broken` is set when a list
function returned 0 or a field was cut that TWS needs to tell what follows.

Abstractions: every number takes `NumLen` characters; the strings of one call have the same
length, the tags and values of its options another, its lists the same number of elements, its tested fields the same value; a scale
price increment is either positive or not set; a NULL secType or underComp is a field that
is not set. TWS has read a request before the next is built (what `TwsClient` queues is
written in order), and the logon, a single number in an empty `wbuf`, is left to `TwsClient`.

## 3. Runs

| run | shows |
|---|---|
| `client_safety` | the lifecycle's safety, its inductive invariant and the refinement of `TwsSession`, in a disciplined environment: of the table above `sync_error` and `unknown_packet` |
| `client_full` | what survives every behaviour of `EnvAll`: `OwnLabel`, `StartOnce`, and under `FairSpec` `ReconnectsAfterLoss`, `CloseCompletes`, `DestroyFrees` |
| `read_buffer` | `TwsReceive`: the buffer's invariant, `OnlyLongTokensFail`, `ExitsOnUnknown`, `InStepWithBytes`, `EventsAdvance`, the refinements of `TwsTokens` and `TwsEvents` |
| `reconnect` | `delay * reconnects` never overflows (`DelaysFit`), and the backoff's bounds |
| `decode` | the login and every packet: `TypeOK`, `InStep`, `EventIsInitialised`, `FreesAll` |
| `encode` | every request: `BufferInv`, `FitsIntact`, and `InStep` on connections where no list was refused and no tested field cut |
| `client_late_write`, `client_close_in_read`, `client_bad_address`, `client_reinit`, `decode_bond`, `encode_overrun` | one divergence each, section 6 |

Bounds, and why they are enough:

- client: two client ids or three, so that an id wraps (an int: nothing depends on
  more than its successor); two queued writes (START_API and a command: each order
  occurs); up to five tokens in flight (four in `client_full`), enough for two packets or for the rest of one
  behind a greeting; two known packets with and without a protothread,
  VERIFY_COMPLETED, and an unknown one; a server without time (10), an old one (47) and
  a current one (76).
- read_buffer: a buffer of 4 with a threshold of 2, so that it moves, and does not move,
  with and without a partial token, in the middle of packets; tokens of one byte to six, that is shorter than
  the threshold, as long, and longer than the buffer; two connections, the first with a login that
  fails (with and without a time) or one that succeeds and up to two packets (with a version
  condition, an array that is empty or not), lost after any byte, the second with a packet and in some lives
  an unknown one; every way to cut all of that into reads. That is 626 lives, each of which
  `LawfulLives` is evaluated for. The theorems cover every size and every stream, or every lawful life.
- reconnect: an int of 6 bits, delays that fit, that overflow and that are INT_MAX, nine attempts, which
  passes the clamp for every pair of settings up to 15; the theorems cover every int.
- decode: each packet in version 1 and in the versions on both sides of every condition;
  arrays of 0, 1 and 2 elements and flags set or not, all alike or one different; logins with
  versions around 20 and 70; an unknown packet; a lost connection at every token.
- encode: the sizes of the code (1024, 1024, 4096); numbers of 6 characters; strings that are
  empty, short, that fill the buffer of a three-number request to the last byte, and one longer;
  lists of 0 to 2 elements (-1 too where no array is sent), NULL, whole or with a last element without a tag; options of 1002
  characters, of which four fit the list's buffer and five do not, and of 1024, which do not fit the buffer of one. Requests follow one another in every order.

Deadlock is not checked: a client that is freed, a process that exited, a stream that ended
and a loop with nothing to do may stop.

### Fairness

`TwsClient!Fairness` assumes that callbacks return (`WF` on `Returns`, on `ReadEnds \/
Decode`), that uv__finish_close is run and finishes (`WF` on `FinishClose`, `Finish`), and that
the loop turns and an armed timer fires (`SF` on `NextPhase` and `ReconnectTimerCb`). The
first two hold because each is a sequential program on the loop's thread. Strong fairness
is needed for the last two since user calls disable them in between: uv_run
goes round as long as it has a handle, and a timer that is due fires in the next round.
Nothing is assumed of the network, of the server or of the user, and no behaviour of `EnvAll` is left out:
a dial that fails at once each time never reaches CONNECTING, and `ReconnectsAfterLoss` then promises the next
retry, under the next id. What ends the promise is the user who turns reconnecting off, and a process that ends.
`TwsReceive!FairReceiveSpec` assumes that on_read_cb runs to its end and that event callbacks
return; nothing of the network.

## 4. Proofs

All theorems are about `Spec`, for every value of the constants that satisfies the
ASSUMEs of the module.

- `TypeCorrect`: `TypeOK` of TwsClient in every environment.
- `StateCorrect`, `ReadyUsable`, `NoAssertionFails`, `ClosingIsFinal`: under the assumption `Calm`, which excludes
  `late_write` and `close_in_read` only. None of these properties is inductive. `StateInv` adds what they
  need: `SocketInv` (the state says what libuv does with the socket), `StackInv` (where the
  call stack can stand in each state, and that nothing is left to decode once a client
  disconnects), and `LoginInv` (how much of the server's greeting is still to come). The last is what the
  argument turns on: a client that is CONNECTED has at most the two tokens of the
  greeting to decode, so that no token is left when the login ends or fails, and the START_API
  callback finds the client AUTHED. The proof that a step preserves the invariant
  has one case per action. A handle that is initialised while in use ends the model (`corrupt`), so that these theorems
  speak of what comes before.
- `LifecycleCorrect`, `NoHandleReused`, `AutoDialNeedsConsent`, `FreedIsFinal`, `SessionImplemented`: under `Disciplined`,
  which excludes the first seven behaviours of the table above. (`sync_error`, `freed_read` and
  `unknown_packet` are allowed.) `LifecycleInv` is `StateInv` and `TimerInv` (an armed timer belongs to a closed, living client
  that may dial). The assumption is one about the user, which the code does not enforce: `client_reinit` and `client_bad_address`
  show what it gives up.
- `LabelsAreOwn`: `OwnLabel` in every environment, with nothing assumed of `Env`. Here a client
  may be dialed, closed and written to at any point, so `LifecycleInv` does not hold. `DecoderInv` keeps
  what the label needs: which callbacks can be on the stack together (`CallsInv`), that an
  open socket that is not being closed belongs to a client at least CONNECTED and holds a START_API
  only once it is AUTHED (`OpenInv`, so that a late on_start_api cannot change which decoder is
  next), and the label itself at the points where on_read_cb goes on or may be called (`LabelInv`).
- `StartsOnce`: `StartOnce` in every environment, for `WholeMessages`. START_API is appended in two places, and
  tws_client_startAPI itself only asks for a state that is not READY. The first place is the end of the login:
  `GreetInv` (what `LoginInv` says, here for an open socket only) shows that nothing but the logon was written
  by then. The second is VERIFY_COMPLETED on an AUTHED client. There the argument is about the server:
  `WholeInv` says that until on_start_api ran, nothing but START_API is left to write, so that TWS, which answers
  VERIFY_COMPLETED to a command only, was not asked. For that no other packet may be taken for it, and so
  `WholeInv` also counts tokens: what is read but not decoded, with what is on its way (`Pending`), is the
  rest of the packet being decoded and whole packets behind it (`Whole`, which quantifies over the sets of places where packets
  may begin, since a parse by recursion could not be reasoned about). A socket that is being closed keeps none of this; it needs not,
  as nothing is written to it.
- `BufferCorrect`, `LongTokens`, `TokensImplemented`: for every buffer size, threshold and
  stream. `BufferInv` says that the offsets lie in the buffer, that the window holds the bytes
  received last, and that the bytes before `p` hold no NUL; `SearchInv` is what makes a
  delivered token the next one of the stream.
- `ReceiveIsBuffer`, `ReceiveBufferCorrect`, `ReceiveKeepsTokens`: with the decoder behind it the read
  buffer behaves as `TwsReadBuffer` allows, for every table of packets, so that all of the above holds of it.
- `DecoderStaysInTable`: `TypeOK` of TwsDecode for every table and every TWS that sends tokens.
  `DecodeInv` adds that the values kept are numbers, and that the step a protothread waits for is one
  whose conditions hold for them. The heart is again `NextStepEnabled`: from an element of an
  array the next step is in the same element, or in the next one if the count that was read says
  there is one, or outside the loop.
- `StaysInStep`, `PacketsFinish`: `SyncInv` relates the two sides. The values the client kept are those of the packet that TWS
  sends, for every name tested by a condition of a later step; the place TWS is at is the one the client waits at. The step
  rests on a lemma about the two ways through a table: `NextStep`, which searches forward in the table and
  jumps back to the first step of a loop, leads to the least of the places behind the present one
  (`TwsStepsProofs!NextIsFirst`), that is to `Following`. `Ordered` is what makes the client's conditions, which
  use the tokens so far, the same as the sender's.
- `EventsShowOwnValues`, `PacketsAreFreed`: `MemInv` says of each slot what the steps already passed have made of it: a slot
  that is still stale has no step behind it that assigns it (`StaleInv`), one that owns memory has a step that made
  it so (`OwnedInv`). At the callback all steps of this version are behind, and `Initialises` names one
  that assigns the slot. `LostInv` says that a slot overwritten while it owned memory is one of `KnownLeaks`; two steps that
  assign one slot exclude each other by their versions, or are the same step in the same
  element. Nothing is assumed of the tokens: these hold of a TWS that sends anything.
- `ReceiveShowsOwnValues`, `ReceiveFreesAll`: the same of the decoder behind the read buffer, over connections
  that are cut anywhere: a reset starts the slots of the next packet afresh.
- `ReceiveStaysInTable`, `EventsInOrder`: the same decoder fed by the read buffer, that is with any bytes
  in any pieces. `TokenInv` says that the token in the decoder is the piece of the stream behind what was
  dropped; `EventsInv` that what was heard of a packet ends where the window begins, and that the last
  event's bytes lie before it, up to the token that is still in the window while the callback runs.
- `BytesInStep`, `ExitsForUnknown`, `EventsImplemented`: from the bytes to the user, for every table and every lawful life.
  `ParseInv` adds to the invariants above that a connection was received from its first byte on
  (`ConnectionInv`); that the user was told of exactly the packets that end within the bytes decoded so far
  (`ToldInv`); that the decoder waits at the place of the field that begins behind them and knows the
  values sent before that place (`PlaceInv`, with `KnowsPlace` of `TwsDecodeProofs`); and what an exit needs
  (`ExitInv`). It has one lemma per action. For a token, `TokenInv` makes its bytes those of the next field,
  `TokenFollows` (the step of `StaysInStep`, here for a token that needs to be right in tested names only) takes the
  decoder to the place that `Following` gives, and the last token of a packet makes `told + 1` the packet that
  ends there. For the login that last token must be the last byte received, since the buffer is
  cleared: TWS waits for START_API, which is where the argument would break for a server that does not.
- `BackoffCorrect`, `DelaysNeverOverflow`, `BackoffBounded`: for every INT_MAX. `SettingsOK` says that
  `max_reconnects_incr` is the first attempt whose delay reaches past `delay_max`, hence no
  product before it overflows. For a delay of 1 and a delay_max of INT_MAX the addition of line 226 overflows: a build that
  wraps gets INT_MIN, and every wait is that of the clamp, `delay_max`, which is within the bounds. The mutant
  `delay_max / delay` breaks `BackoffInBounds` (the last attempt below the clamp waits as long as the clamp), the
  mutant `+ 2` makes the product overflow.
- `TwsEncodeProofs!BufferCorrect`, `FitsWhole`: for every table, every size and every argument.
  `BufferInv` and `FitsIntact` are inductive only together: that a field is not cut follows
  from `wlen = need` as long as the request fits, which in turn needs the fields before to be
  whole. `TwsInStep` adds `SyncInv`: while the client builds a request, TWS has read all of the one before and each token in `wbuf`
  leads to the next one (`Builds`); while TWS reads, it waits for the first token that is left, and the values it has
  read agree with the arguments wherever a later condition tests them (`Reads`). Both sides go on by
  `NextStep`; that they come to the same step is `TwsStepsProofs!SameNext`, for `Ordered` tables. The values are compared on connections where none was cut (`broken`). That the function stays on its table (`PcOK`) rests on `TwsStepsProofs!NextStepEnabled`:
  `NextStep` leads to a step whose conditions hold, or to the end; and on `ShortenedList`: a
  list that is broken off enables no step that was not enabled anyway.

### Hypotheses

Some theorems hold for the tables, packets and messages that have a property, not for all. The property is
stated as a definition, is a hypothesis of the theorem, and TLC evaluates it for the values the code
gives (ASSUMEs of the MC modules):

| hypothesis | of | says | evaluated in |
|---|---|---|---|
| `PacketsOK` | every theorem about `TwsDecode` and `TwsReceive` | a table begins with a token that always comes, a condition tests a field that came before it (`Ordered`), and the same name has the same kind of value everywhere | all runs of the two |
| `RequestsAssumption` | every theorem about `TwsEncode` | the same of the requests | `encode` |
| `Initialises` | `EventsShowOwnValues`, `ReceiveShowsOwnValues` | whatever an earlier packet may have left in a slot is assigned by a step that no flag or array guards, or by one step up to a version and another from there on, but for `KnownStale`, which names slot and version | `read_buffer`, for all 44 tables |
| `Frees` | `PacketsAreFreed`, `ReceiveFreesAll` | what a step may own is freed, and no version has two steps that assign one slot, but for `KnownLeaks` | `read_buffer`, for all 44 tables |
| `Yields` | `StaysInStep`, `PacketsFinish`; part of `LawfulLives` | the packets have no place where the code omits a YIELD | `decode`, for all shapes but a bond's security ids |
| `LawfulLives` | `BytesInStep`, `ExitsForUnknown`, `EventsImplemented` | each connection is a greeting and packets of the tables, an unknown packet is the last thing in a life | `read_buffer`, for its 626 lives |
| `WholeMessages` | `StartsOnce` | each message of TWS is the id of a packet, never 0, and exactly the tokens its function takes | `client_*` |

The first two are ASSUMEs of the modules themselves. `WholeMessages` states, for packets that only count their tokens,
what `StaysInStep` proves of the packets field by field.

Only model-checked: liveness (`ReconnectsAfterLoss`, `CloseCompletes`, `DestroyFrees`) and the fairness part of
the refinements, which are out of this prover's reach. Every invariant and action property of a passing run
is also a theorem, under the assumptions named there. The six divergences of section 6 with a run are shown by TLC only.

## 5. Not modelled

- Text: parsing of numbers, logging, hexdump. The debug build's `packet` pointer, which on_alloc_cb
  does not move (`tws_decode.c:1417`, `1558`), only feeds hexdump.
- A packet cut off by a reset leaks what it had allocated (there is nothing that could free it).
- libuv's queue of handles: `tws_client_destroy` frees a client without uv_close of its timer, whose
  handle stays linked in the loop (`tws_client.c:135`), and a leaked socket is initialised again on the next dial.
- `tws_init_*` and `tws_destroy_*` as calls of the user on his own structures.
- libuv itself, beyond the order of its callbacks and the assertions named above.
- Unread: `reconnecting` (`tws_client.c:109`) is never set.

## 6. Where the code does not do what it says

| run | what happens |
|---|---|
| `client_late_write` | `on_start_api` sets READY whatever the state is (`tws_encode.c:257`): a write that completed before a close makes a closing client READY and reports CLIENT_CONNECTED after CLIENT_DISCONNECTED |
| `client_close_in_read` | on_read_cb goes on decoding after a close from an event callback (`tws_client.c:89`); the tokens go to the login decoder |
| `client_bad_address` | a refused address does not stop a pending timer (`tws_client.c:277`) |
| `client_reinit` | tws_client_connect and tws_client_enable_reconnect initialise handles the loop still uses (`tws_client.c:148`, `228`). Each of the three behaviours leads there: `dial_open` after two calls of connect; `enable_with_timer` after a close or a loss, when the user enables once more before the retry (10 steps); `dial_with_timer` when the user dials by hand before the retry and closes that dial: the timer's callback, whose test lets DISCONNECTING through (line 121), dials over the closing socket (13 steps) |
| `decode_bond` | the ids of a bond stay in the stream and are taken for packets (`tws_decode.c:949`) |
| `encode_overrun` | a field that follows a full `wbuf` is counted behind its end (`tws_encode.c:80-88`); with the next one the size left wraps around, and nothing bounds what is written |

Met while modelling, and part of the models: destroying a closed client frees it with its timer active
(`tws_client.c:249`), which then fires in freed memory and dials or crashes (`destroy_with_timer`; `DestroyIsFinal` and
`NoAutoDialWhenDisabled` do not hold with it in `Env`, and `client_safety` leaves it out);
`max_reconnects_incr` overflows for a delay of 1 and a delay_max of INT_MAX (`tws_client.c:226`), without
harm where ints wrap; a request whose list is refused is sent with
fields missing, and one that outgrows `wbuf` with fields cut, without the caller knowing
(`tws_encode.c:80`, `202`; `broken`, `Kept`); a scanner reply with elements is
initialised through a NULL pointer (`tws_decode.c:776`; the action `Crash`); stale dates
and items of historical data, stale elements of an empty scanner reply, four numbers of an order's
status, the size type of a version 1 tick price (`tws_decode.c:108`), and the id and text of the event that reports an
outdated server (`tws_decode.c:78`; `KnownStale`);
memory that is not freed: a position's account, a market depth's marketMaker, an order's
default openClose and deltaNeutralOpenClose, orderComboLegs (`KnownLeaks`).

## 7. Plan

Done, in this order: `TwsClient` with its abstract `TwsSession`, runs and proofs;
`TwsReadBuffer` with `TwsTokens` and proofs; `TwsReconnect` and proofs; `TwsPackets` and `TwsDecode`;
`TwsRequests`, `TwsEncode` and proofs; the login, varied shapes and stale numbers in `TwsDecode`;
`TwsReceive` with `TwsEvents`, and its proofs; `OwnLabel` in every environment (`TwsEnvProofs`);
the decoder's array bounds for every table (`TwsDecodeProofs`), and with the event order for every stream;
TWS in `TwsDecode` as places with an order, and the decoder and the encoder in step with it for every table;
the decoder's memory for every table that `Initialises` and `Frees`, from any bytes; `StartOnce` in every environment;
the decoder in step with the bytes, `ExitsOnUnknown` and the safety part of `TwsEvents` for every lawful life;
requests past the end of `wbuf`, handles initialised twice, liveness in every environment.

To do: in `TwsEncode`, several requests in flight, and a read of a request that was cut.
