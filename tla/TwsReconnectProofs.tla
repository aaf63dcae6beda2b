-------------------------- MODULE TwsReconnectProofs ---------------------------
(* The backoff of TwsReconnect stays in its bounds for every size of int,     *)
(* every delay and every number of attempts.                                  *)
EXTENDS TwsReconnect, TLAPS

(* A product grows with its factor.                                           *)
LEMMA Monotone ==
    ASSUME NEW d \in Nat, NEW a \in Int, NEW b \in Int, a <= b
    PROVE  d * a <= d * b
<1>1. d * b = d * a + d * (b - a)
  OBVIOUS
<1>2. d * (b - a) >= 0
  OBVIOUS
<1> QED BY <1>1, <1>2

(* What MaxIncr computes, before it is stored in an int: it rounds down and    *)
(* adds one, which is the first attempt past delay_max.                       *)
LEMMA QuotientBounds ==
    ASSUME NEW d \in Int, NEW m \in Int, d > 0, m > 0
    PROVE  /\ m \div d + 1 \in 1..m + 1
           /\ d * (m \div d + 1 - 1) <= m
           /\ m < d * (m \div d + 1)
<1> DEFINE q == m \div d
<1>1. q \in Int /\ m = d * q + (m % d) /\ m % d \in 0..d-1
  OBVIOUS
<1>2. d * (q + 1) = d * q + d
  BY <1>1
<1>3. q + 1 - 1 = q
  BY <1>1
<1>4. q \in 0..m
  <2>1. q >= 0
    BY <1>1
  <2>2. 1 * q <= d * q
    <3>1. q * 1 <= q * d
      BY <1>1, <2>1, Monotone
    <3> QED BY <1>1, <3>1
  <2> QED BY <1>1, <2>1, <2>2
<1> QED BY <1>1, <1>2, <1>3, <1>4

(* An int expression that fits has its mathematical value.                    *)
LEMMA Fits ==
    ASSUME NEW n \in 0..IntMax, NEW d \in IntOf(n)
    PROVE  d = n
<1>1. \A k \in Nat \ {0} : \A x \in 0..k-1 : x % k = x
  OBVIOUS
<1>2. 2 * (IntMax + 1) \in Nat \ {0} /\ n + IntMax + 1 \in 0..2 * (IntMax + 1) - 1
  BY IntAssumption
<1>3. (n + IntMax + 1) % (2 * (IntMax + 1)) = n + IntMax + 1
  BY <1>1, <1>2
<1> QED BY <1>3, IntAssumption DEF IntOf, Wrapped

(* ... and INT_MAX + 1 becomes INT_MIN.                                       *)
LEMMA Overflows == Wrapped(IntMax + 1) = -IntMax - 1
<1>1. \A k \in Nat \ {0} : k % k = 0
  OBVIOUS
<1>2. 2 * (IntMax + 1) \in Nat \ {0} /\ IntMax + 1 + IntMax + 1 = 2 * (IntMax + 1)
  BY IntAssumption
<1> QED BY <1>1, <1>2, IntAssumption DEF Wrapped

(* max_reconnects_incr as tws_client_enable_reconnect leaves it.              *)
LEMMA MaxIncrValue ==
    ASSUME NEW d \in Int, NEW m \in Int, d > 0, m \in 1..IntMax
    PROVE  /\ MaxIncr(d, m) \in Int
           /\ \/ MaxIncr(d, m) = -IntMax - 1 /\ m = IntMax
              \/ d * (MaxIncr(d, m) - 1) <= m /\ m < d * MaxIncr(d, m)
<1> DEFINE k == m \div d + 1
<1>1. IntMax \in Nat /\ m \in Int /\ m > 0
  BY IntAssumption
<1>2. k \in 1..m + 1 /\ d * (k - 1) <= m /\ m < d * k
  BY <1>1, QuotientBounds
<1>3. CASE k \in 0..IntMax
  <2>1. MaxIncr(d, m) = k
    BY <1>3, Fits DEF MaxIncr, IntOf
  <2> QED BY <1>1, <1>2, <2>1
<1>4. CASE k = IntMax + 1
  <2>1. MaxIncr(d, m) = -IntMax - 1
    BY <1>4, Overflows DEF MaxIncr
  <2> HIDE DEF k
  <2>2. m = IntMax
    BY <1>1, <1>2, <1>4
  <2> QED BY <1>1, <2>1, <2>2
<1> HIDE DEF k
<1> QED BY <1>1, <1>2, <1>3, <1>4

(* The product is computed only where it is at most delay_max, and the delay  *)
(* before the random part is the smaller of the two, unless                   *)
(* max_reconnects_incr overflowed.                                            *)
LEMMA DelayValue ==
    ASSUME BackoffInv, enable_reconnect, NEW n \in Nat \ {0}
    PROVE  /\ n < max_reconnects_incr => reconnect_delay * n \in 1..reconnect_delay_max
           /\ Delay(n) \in 1..reconnect_delay_max
           /\ reconnect_delay_max < IntMax =>
                  Delay(n) = Least(reconnect_delay * n, reconnect_delay_max)
<1> DEFINE d == reconnect_delay
           m == reconnect_delay_max
           k == max_reconnects_incr
<1>1. /\ d \in Int /\ m \in Int /\ k \in Int /\ d > 0 /\ m > 0 /\ IntMax \in Nat
      /\ \/ k = -IntMax - 1 /\ m = IntMax
         \/ d * (k - 1) <= m /\ m < d * k
  BY IntAssumption DEF BackoffInv, TypeOK, SettingsOK
<1>2. d * n \in Int /\ d * 1 <= d * n
  BY <1>1, Monotone
<1>3. CASE n >= k
  <2>1. Delay(n) = m
    BY <1>1, <1>3 DEF Delay
  <2>2. CASE m = IntMax
    BY <1>1, <1>3, <2>1, <2>2
  <2>3. CASE m # IntMax
    <3>1. d * k <= d * n /\ d * k \in Int /\ m < d * k
      BY <1>1, <1>3, <2>3, Monotone
    <3>2. m < d * n
      BY <1>1, <1>2, <3>1
    <3> QED BY <1>1, <1>2, <1>3, <2>1, <3>2 DEF Least
  <2> QED BY <2>2, <2>3
<1>4. CASE n < k
  <2>0. d * (k - 1) <= m
    BY <1>1, <1>4
  <2>1. d * n <= d * (k - 1)
    BY <1>1, <1>4, Monotone
  <2>2. d * (k - 1) \in Int /\ d * n <= m
    BY <1>1, <1>2, <2>0, <2>1
  <2>3. d * n >= 1
    BY <1>1, <1>2
  <2> QED BY <1>1, <1>2, <1>4, <2>2, <2>3 DEF Delay, Least
<1> QED BY <1>1, <1>3, <1>4

--------------------------------------------------------------------------------
LEMMA BackoffInit == Init => BackoffInv
<1> SUFFICES ASSUME Init PROVE BackoffInv
  OBVIOUS
<1>1. enable_reconnect = FALSE
  BY DEF Init
<1>2. enable_reconnect \in BOOLEAN /\ SettingsOK
  BY <1>1, Zenon DEF SettingsOK
<1>3. TypeOK
  BY <1>2, ReconnectsAssumption, IntAssumption DEF Init, TypeOK
<1> QED BY <1>2, <1>3 DEF BackoffInv

LEMMA BackoffStep == BackoffInv /\ [Next]_vars => BackoffInv'
<1> SUFFICES ASSUME BackoffInv, [Next]_vars
             PROVE  BackoffInv'
  OBVIOUS
<1>1. ASSUME NEW d \in Delays, NEW m \in Delays, Enable(d, m)
      PROVE  BackoffInv'
  <2>1. d \in Int /\ m \in Int /\ d > 0 /\ m \in 1..IntMax
    BY <1>1, DelaysAssumption, IntAssumption DEF Enable
  <2>2. /\ MaxIncr(d, m) \in Int
        /\ \/ MaxIncr(d, m) = -IntMax - 1 /\ m = IntMax
           \/ d * (MaxIncr(d, m) - 1) <= m /\ m < d * MaxIncr(d, m)
    BY <2>1, MaxIncrValue
  <2>3. TypeOK'
    BY <1>1, <2>1, <2>2 DEF BackoffInv, TypeOK, Enable
  <2>4. SettingsOK'
    BY <1>1, <2>1, <2>2 DEF SettingsOK, Enable
  <2> QED BY <2>3, <2>4 DEF BackoffInv
<1>2. CASE Disable
  BY <1>2 DEF BackoffInv, TypeOK, SettingsOK, Disable
<1>3. CASE Start
  <2>1. reconnects' \in 0..MaxReconnects
    BY <1>3, ReconnectsAssumption DEF Start, BackoffInv, TypeOK
  <2>2. enable_reconnect /\ Delay(reconnects + 1) \in Int
    BY <1>3, DelayValue, ReconnectsAssumption DEF Start, BackoffInv, TypeOK
  <2>3. timeout' \in Int
    <3>1. PICK r \in 0..Delay(reconnects + 1) - 1 : \E d \in IntOf(r + Delay(reconnects + 1)) :
            \E ms \in IntOf(d * MS) : timeout' = IF ms < 0 THEN NEVER ELSE ms
      BY <1>3 DEF Start
    <3>2. r + Delay(reconnects + 1) \in Int
      BY <2>2
    <3>3. PICK d \in IntOf(r + Delay(reconnects + 1)) :
            \E ms \in IntOf(d * MS) : timeout' = IF ms < 0 THEN NEVER ELSE ms
      BY <3>1
    <3>4. \A n \in Int : IntOf(n) \subseteq Int
      BY IntAssumption DEF IntOf, Wrapped
    <3>5. d \in Int /\ d * MS \in Int
      BY <3>2, <3>4, IntAssumption
    <3> QED BY <3>3, <3>4, <3>5 DEF NEVER
  <2> QED BY <1>3, <2>1, <2>3 DEF Start, settings, BackoffInv, TypeOK, SettingsOK
<1>4. CASE UNCHANGED vars
  BY <1>4 DEF vars, settings, BackoffInv, TypeOK, SettingsOK
<1> QED BY <1>1, <1>2, <1>3, <1>4 DEF Next

(* The settings _client_reconnect_start uses fit together, however often they *)
(* are changed between attempts; max_reconnects_incr may have overflowed, and *)
(* then delay_max is INT_MAX.                                                 *)
THEOREM BackoffCorrect == Spec => []BackoffInv
<1> QED BY BackoffInit, BackoffStep, PTL DEF Spec

(* For every INT_MAX, all settings and any number of attempts delay *         *)
(* reconnects stays within delay_max where it is computed, and the divisor of *)
(* rand % delay is at least one.                                              *)
THEOREM DelaysNeverOverflow == Spec => DelaysFit
<1>1. ASSUME BackoffInv, Start
      PROVE  /\ reconnects' < max_reconnects_incr =>
                    reconnect_delay * reconnects' \in 1..reconnect_delay_max
             /\ Delay(reconnects') \in 1..reconnect_delay_max
  <2>1. enable_reconnect /\ reconnects' \in Nat \ {0}
    BY <1>1, ReconnectsAssumption DEF Start, BackoffInv, TypeOK
  <2> QED BY <1>1, <2>1, DelayValue
<1>2. BackoffInv /\ [Next]_vars =>
        [Start =>
           /\ reconnects' < max_reconnects_incr =>
                  reconnect_delay * reconnects' \in 1..reconnect_delay_max
           /\ Delay(reconnects') \in 1..reconnect_delay_max]_vars
  BY <1>1
<1> QED BY <1>2, BackoffCorrect, PTL DEF Spec, DelaysFit

LEMMA StartInBounds ==
    ASSUME BackoffInv, Start, 2 * reconnect_delay_max * MS <= IntMax
    PROVE  LET base == Least(reconnect_delay * reconnects', reconnect_delay_max)
           IN  base > 0 /\ timeout' \in base * MS .. (2 * base - 1) * MS
<1> DEFINE base == Delay(reconnects + 1)
           m == reconnect_delay_max
<1>1. enable_reconnect /\ reconnects' = reconnects + 1 /\ reconnects + 1 \in Nat \ {0}
  BY ReconnectsAssumption DEF Start, BackoffInv, TypeOK
<1>2. base = Least(reconnect_delay * reconnects', m) /\ base \in 1..m
  <2>1. m \in 1..IntMax /\ MS \in Nat \ {0} /\ IntMax \in Nat
    BY <1>1, IntAssumption DEF BackoffInv, TypeOK, SettingsOK
  <2>2. 2 * m * 1 <= 2 * m * MS
    BY <2>1, Monotone
  <2>3. m < IntMax
    BY <2>1, <2>2
  <2> QED BY <1>1, <2>3, DelayValue
<1>3. PICK r \in 0..base - 1 : \E d \in IntOf(r + base) :
        \E ms \in IntOf(d * MS) : timeout' = IF ms < 0 THEN NEVER ELSE ms
  BY DEF Start
<1> DEFINE n == r + base
<1>4. m \in Nat /\ MS \in Nat /\ MS >= 1 /\ IntMax \in Nat
  BY IntAssumption DEF BackoffInv, TypeOK, SettingsOK, Start
<1>5. n \in Nat /\ base <= n /\ n <= 2 * base - 1 /\ n <= 2 * m
  BY <1>2, <1>4
<1>6. MS * base <= MS * n /\ MS * n <= MS * (2 * base - 1) /\ MS * n <= MS * (2 * m)
  BY <1>2, <1>4, <1>5, Monotone
<1>7. /\ MS * n = n * MS /\ MS * base = base * MS
      /\ MS * (2 * base - 1) = (2 * base - 1) * MS /\ MS * (2 * m) = 2 * m * MS
  BY <1>2, <1>4, <1>5
<1>8. n * MS \in Nat /\ n * MS <= IntMax
  BY <1>4, <1>5, <1>6, <1>7
<1>9. 1 * n <= MS * n
  BY <1>4, <1>5, Monotone
<1>10. n \in 0..IntMax /\ n * MS \in 0..IntMax
  BY <1>4, <1>5, <1>7, <1>8, <1>9
<1>11. timeout' = n * MS
  BY <1>3, <1>4, <1>10, Fits
<1> QED BY <1>2, <1>4, <1>5, <1>6, <1>7, <1>11

(* Whatever the settings and the number of attempts, the timer is started     *)
(* within the bounds of the backoff, as long as milliseconds fit an int.      *)
THEOREM BackoffBounded == Spec => BackoffInBounds
<1>1. BackoffInv /\ [Next]_vars =>
        [Start /\ 2 * reconnect_delay_max * MS <= IntMax =>
           LET base == Least(reconnect_delay * reconnects', reconnect_delay_max)
           IN  base > 0 /\ timeout' \in base * MS .. (2 * base - 1) * MS]_vars
  BY StartInBounds
<1> QED BY <1>1, BackoffCorrect, PTL DEF Spec, BackoffInBounds
================================================================================
