----------------------------- MODULE TwsReconnect ------------------------------
(* When a TWS client dials again: tws_client_enable_reconnect and             *)
(* _client_reconnect_start.  The n-th attempt waits n * delay seconds, at     *)
(* most delay_max, and a random time of up to as much again.                  *)
(* TwsClient models what the timer does when it fires.                        *)
EXTENDS Integers

CONSTANTS
    IntMax,         \* INT_MAX
    MS,             \* milliseconds in a second: 1000
    Delays,         \* the values users pass as delay and delay_max
    MaxReconnects   \* bound: attempts of one client

ASSUME IntAssumption == IntMax \in Nat /\ MS \in Nat \ {0}
ASSUME DelaysAssumption == Delays \subseteq -IntMax-1 .. IntMax
ASSUME ReconnectsAssumption == MaxReconnects \in 0..IntMax

VARIABLES
    enable_reconnect, reconnect_delay, reconnect_delay_max, max_reconnects_incr,
    reconnects,   \* attempts since the client was made: never reset
    timeout       \* what uv_timer_start was given, in ms; 0 before the first call

settings == <<enable_reconnect, reconnect_delay, reconnect_delay_max, max_reconnects_incr>>
vars == <<settings, reconnects, timeout>>

NEVER == -1       \* a negative int becomes a time that never comes

\* What a build makes of an int expression with the mathematical value n: signed
\* overflow wraps, or is computed in a wider register.
Wrapped(n) == ((n + IntMax + 1) % (2 * (IntMax + 1))) - (IntMax + 1)
IntOf(n) == {n, Wrapped(n)}

Init ==
    /\ enable_reconnect = FALSE /\ reconnect_delay = 0 /\ reconnect_delay_max = 0
    /\ max_reconnects_incr = 0 /\ reconnects = 0 /\ timeout = 0

\* Operators marked "Mutated", "Late" are not part of the specification: each is
\* the form MaxIncr would have with a plausible bug.
MaxIncr_Mutated(delay, delay_max) == delay_max \div delay
MaxIncr_Late(delay, delay_max) == Wrapped(delay_max \div delay + 2)

\* Stored in an int: INT_MAX / 1 + 1 does not fit one.
MaxIncr(delay, delay_max) == Wrapped(delay_max \div delay + 1)

\* tws_client_enable_reconnect; other arguments are refused with EINVAL.
Enable(delay, delay_max) ==
    /\ delay > 0 /\ delay_max > 0
    /\ enable_reconnect' = TRUE
    /\ reconnect_delay' = delay /\ reconnect_delay_max' = delay_max
    /\ max_reconnects_incr' = MaxIncr(delay, delay_max)
    /\ UNCHANGED <<reconnects, timeout>>

\* tws_client_disable_reconnect, tws_client_stop
Disable ==
    /\ enable_reconnect' = FALSE
    /\ UNCHANGED <<reconnect_delay, reconnect_delay_max, max_reconnects_incr, reconnects, timeout>>

\* The delay of the n-th attempt, before the random part.
Delay(n) ==
    LET delay == IF n >= max_reconnects_incr THEN reconnect_delay_max ELSE reconnect_delay * n
    IN  IF delay > reconnect_delay_max THEN reconnect_delay_max ELSE delay

\* _client_reconnect_start, called by on_close_cb and by a dial that fails at once.
Start ==
    /\ enable_reconnect /\ reconnects < MaxReconnects
    /\ reconnects' = reconnects + 1
    /\ LET delay == Delay(reconnects + 1) IN
           \E rand \in 0..delay - 1 : \E d \in IntOf(rand + delay) : \E ms \in IntOf(d * MS) :
               timeout' = IF ms < 0 THEN NEVER ELSE ms
    /\ UNCHANGED settings

Next == (\E d, m \in Delays : Enable(d, m)) \/ Disable \/ Start

Spec == Init /\ [][Next]_vars

--------------------------------------------------------------------------------
(* Properties                                                                 *)

TypeOK ==
    /\ enable_reconnect \in BOOLEAN /\ reconnects \in 0..MaxReconnects
    /\ reconnect_delay \in Int /\ reconnect_delay_max \in Int
    /\ max_reconnects_incr \in Int /\ timeout \in Int

(* max_reconnects_incr is the first attempt whose delay has to be cut to      *)
(* delay_max: earlier ones do not reach past it.  When it overflowed it is    *)
(* INT_MIN, and every attempt waits delay_max.                                *)
SettingsOK ==
    enable_reconnect =>
        /\ reconnect_delay > 0 /\ reconnect_delay_max \in 1..IntMax
        /\ \/ max_reconnects_incr = -IntMax - 1 /\ reconnect_delay_max = IntMax
           \/ /\ reconnect_delay * (max_reconnects_incr - 1) <= reconnect_delay_max
              /\ reconnect_delay_max < reconnect_delay * max_reconnects_incr

BackoffInv == TypeOK /\ SettingsOK

(* delay * reconnects (tws_client.c:174) is at most delay_max where the code  *)
(* computes it, so it does not overflow, and rand % delay (tws_client.c:179)  *)
(* has a delay that is not 0: whatever settings were in force at each of the  *)
(* attempts before, also those for which line 226 overflowed.                 *)
DelaysFit ==
    [][Start =>
           /\ reconnects' < max_reconnects_incr =>
                  reconnect_delay * reconnects' \in 1..reconnect_delay_max
           /\ Delay(reconnects') \in 1..reconnect_delay_max]_vars

Least(a, b) == IF a <= b THEN a ELSE b

(* The backoff: the n-th attempt waits at least the smaller of n * delay and  *)
(* delay_max, and less than twice that, whatever the user set in between;     *)
(* unless twice delay_max does not fit an int of milliseconds.                *)
BackoffInBounds ==
    [][Start /\ 2 * reconnect_delay_max * MS <= IntMax =>
           LET base == Least(reconnect_delay * reconnects', reconnect_delay_max)
           IN  base > 0 /\ timeout' \in base * MS .. (2 * base - 1) * MS]_vars
================================================================================
