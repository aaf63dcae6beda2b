---------------------------- MODULE TwsStepsProofs -----------------------------
(* Where NextStep leads, in every table.                                      *)
EXTENDS TwsSteps, WellFoundedInduction, TLAPS

(* Min is the least element of every set of natural numbers that has one.     *)
LEMMA MinElement ==
    ASSUME NEW S, S \subseteq Nat, S # {}
    PROVE  Min(S) \in S /\ \A y \in S : Min(S) =< y
<1> DEFINE R == OpToRel(<, Nat)
<1>1. \A x, y \in Nat : y < x => <<y, x>> \in R
      BY DEF OpToRel
<1>2. IsWellFoundedOn(R, Nat) BY NatLessThanWellFounded, Zenon
<1> HIDE DEF R
<1>3. PICK x \in S : \A y \in S : ~(<<y, x>> \in R)
      BY <1>2, WFMin, Zenon
<1>4. \A y \in S : x =< y
  <2> SUFFICES ASSUME NEW y \in S PROVE x =< y
      OBVIOUS
  <2>1. x \in Nat /\ y \in Nat OBVIOUS
  <2>2. ~(y < x) BY <2>1, <1>1, <1>3, Zenon
  <2> QED BY <2>1, <2>2
<1> QED BY <1>3, <1>4 DEF Min

(* A program that goes through a table is always at a step of it whose        *)
(* conditions hold, or at its end; and at an element other than the first of  *)
(* an array only in its loop, behind the one before.                          *)
LEMMA NextStepEnabled ==
    ASSUME NEW steps, Len(steps) \in Nat, DOMAIN steps = 1..Len(steps),
           NEW v, NEW i \in DOMAIN steps, NEW j \in Nat,
           steps[i].loop # NONE /\ ElementsLeft(v, steps[i].loop, j) => YieldsAt(steps, v, i)
    PROVE  LET next == NextStep(steps, v, i, j)
           IN  \/ next = Start
               \/ \E k \in DOMAIN steps, l \in Nat :
                     /\ next = <<k, l>> /\ YieldsAt(steps, v, k)
                     /\ \/ l = 0
                        \/ /\ steps[i].loop # NONE /\ steps[k].loop = steps[i].loop
                           /\ l = j \/ (l = j + 1 /\ ElementsLeft(v, steps[i].loop, j))
<1> DEFINE loop == steps[i].loop
           inLoop(k) == loop # NONE /\ steps[k].loop = loop
           yields(from, to) == {k \in from..to : YieldsAt(steps, v, k)}
           later == yields(i + 1, Len(steps))
           body == {x \in yields(1, i) : inLoop(x)}
           next == NextStep(steps, v, i, j)
<1> HIDE DEF next
<1>1. next = IF later # {} /\ inLoop(Min(later)) THEN <<Min(later), j>>
             ELSE IF loop # NONE /\ ElementsLeft(v, loop, j) THEN <<Min(body), j + 1>>
             ELSE IF later # {} THEN <<Min(later), 0>> ELSE Start
      BY Zenon DEF next, NextStep
<1>2. later # {} => Min(later) \in DOMAIN steps /\ YieldsAt(steps, v, Min(later))
  <2> SUFFICES ASSUME later # {}
               PROVE  Min(later) \in DOMAIN steps /\ YieldsAt(steps, v, Min(later))
      OBVIOUS
  <2>1. later \subseteq Nat OBVIOUS
  <2>2. Min(later) \in later BY <2>1, MinElement, Zenon
  <2> HIDE DEF later
  <2>3. \A x \in later : x \in DOMAIN steps /\ YieldsAt(steps, v, x) BY DEF later
  <2> QED BY <2>2, <2>3
<1>3. loop # NONE /\ ElementsLeft(v, loop, j)
          => /\ Min(body) \in DOMAIN steps /\ YieldsAt(steps, v, Min(body))
             /\ inLoop(Min(body))
  <2> SUFFICES ASSUME loop # NONE, ElementsLeft(v, loop, j)
               PROVE  /\ Min(body) \in DOMAIN steps /\ YieldsAt(steps, v, Min(body))
                      /\ inLoop(Min(body))
      OBVIOUS
  <2>1. body \subseteq Nat OBVIOUS
  <2>2. i \in body OBVIOUS
  <2>3. Min(body) \in body
    <3> HIDE DEF body
    <3> QED BY <2>1, <2>2, MinElement, Zenon
  <2>4. \A x \in body : x \in DOMAIN steps /\ YieldsAt(steps, v, x) /\ inLoop(x) OBVIOUS
  <2> HIDE DEF body, inLoop
  <2> QED BY <2>3, <2>4
<1> HIDE DEF later, body
<1>4. j + 1 \in Nat /\ 0 \in Nat OBVIOUS
<1> DEFINE Elem(k, l) == \/ l = 0
                         \/ inLoop(k) /\ (l = j \/ (l = j + 1 /\ ElementsLeft(v, loop, j)))
           To(k, l) == next = <<k, l>> /\ YieldsAt(steps, v, k) /\ Elem(k, l)
<1>5. \/ next = Start
      \/ \E k \in DOMAIN steps, l \in Nat : To(k, l)
  <2>1. CASE later # {} /\ inLoop(Min(later))
    <3>1. To(Min(later), j) BY <2>1, <1>1, <1>2, Zenon
    <3> HIDE DEF To
    <3> QED BY <2>1, <3>1, <1>2, Zenon
  <2>2. CASE ~(later # {} /\ inLoop(Min(later))) /\ loop # NONE /\ ElementsLeft(v, loop, j)
    <3>1. next = <<Min(body), j + 1>> BY <2>2, <1>1, Zenon
    <3>2. To(Min(body), j + 1) BY <2>2, <3>1, <1>3, Zenon
    <3> HIDE DEF To
    <3> QED BY <2>2, <3>2, <1>3, <1>4, Zenon
  <2>3. CASE /\ ~(later # {} /\ inLoop(Min(later)))
             /\ ~(loop # NONE /\ ElementsLeft(v, loop, j)) /\ later # {}
    <3>1. next = <<Min(later), 0>> BY <2>3, <1>1, Zenon
    <3>2. To(Min(later), 0) BY <2>3, <3>1, <1>2, Zenon
    <3> HIDE DEF To
    <3> QED BY <2>3, <3>2, <1>2, <1>4, Zenon
  <2>4. CASE ~(loop # NONE /\ ElementsLeft(v, loop, j)) /\ later = {}
        BY <2>4, <1>1, Zenon
  <2> QED BY <2>1, <2>2, <2>3, <2>4, Zenon
<1> QED BY <1>5, Zenon DEF next

--------------------------------------------------------------------------------
(* Reading a table from one side.                                             *)

\* What conditions test.
TestedNames(steps) ==
    ({VERSION} \cup {steps[i].when : i \in DOMAIN steps} \cup {steps[i].loop : i \in DOMAIN steps})
        \ {NONE}

\* The values v agree with the values w on what the first i steps gave of it.
Agree(steps, v, w, i) ==
    /\ Value(v, VERSION) \in Nat /\ Value(w, VERSION) \in Nat
    /\ \A k \in 1..i : YieldsAt(steps, w, k) /\ steps[k].name \in TestedNames(steps) =>
                           Value(v, steps[k].name) = Value(w, steps[k].name)

LEMMA TestedNamesFacts ==
    ASSUME NEW steps
    PROVE  /\ NONE \notin TestedNames(steps) /\ VERSION \in TestedNames(steps)
           /\ \A k \in DOMAIN steps : \A n \in {steps[k].when, steps[k].loop} :
                  n # NONE => n \in TestedNames(steps)
<1>1. VERSION # NONE BY DEF VERSION, NONE
<1> QED BY <1>1 DEF TestedNames

LEMMA OrderedFacts ==
    ASSUME NEW steps, Ordered(steps)
    PROVE  /\ Len(steps) \in Nat /\ DOMAIN steps = 1..Len(steps) /\ 1 \in DOMAIN steps
           /\ steps[1].from = 0 /\ steps[1].below = MANY /\ steps[1].when = NONE
           /\ steps[1].loop = NONE /\ steps[1].kind # "same"
           /\ \A k \in DOMAIN steps : steps[k].from \in Nat /\ steps[k].below \in Nat
<1>1. steps \in Seq(StepType) /\ steps # <<>> BY DEF Ordered
<1>2. \A k \in DOMAIN steps : steps[k] \in StepType BY <1>1
<1>3. steps[1] \in StepType BY <1>1
<1>4. [steps[1] EXCEPT !.kind = "num", !.name = NONE] =
          [kind |-> "num", name |-> NONE, from |-> 0, below |-> MANY, when |-> NONE, loop |-> NONE]
      BY DEF Ordered, Num, Step
<1>5. /\ steps[1].from = 0 /\ steps[1].below = MANY /\ steps[1].when = NONE
      /\ steps[1].loop = NONE /\ steps[1].kind # "same"
  <2> DEFINE s == steps[1]
             t == [s EXCEPT !.kind = "num", !.name = NONE]
  <2>1. t.from = s.from /\ t.below = s.below /\ t.when = s.when /\ t.loop = s.loop
        BY <1>3 DEF StepType
  <2>2. t.from = 0 /\ t.below = MANY /\ t.when = NONE /\ t.loop = NONE
        BY <1>4
  <2>3. s.kind # "same" BY DEF Ordered
  <2> HIDE DEF t
  <2> QED BY <2>1, <2>2, <2>3
<1> QED BY <1>1, <1>2, <1>5 DEF StepType

LEMMA OrderedSteps ==
    ASSUME NEW steps, Ordered(steps), NEW k \in DOMAIN steps
    PROVE  steps[k] \in StepType /\ (steps[k].name = VERSION => k = 1)
<1>1. steps \in Seq(StepType) BY DEF Ordered
<1>2. steps[k].name = VERSION => k = 1 BY DEF Ordered
<1> QED BY <1>1, <1>2

(* A table with all its conditions: the first step always comes.              *)
LEMMA FirstYields ==
    ASSUME NEW steps, Ordered(steps), NEW w, Value(w, VERSION) \in Nat
    PROVE  YieldsAt(steps, w, 1)
BY OrderedFacts DEF YieldsAt, Enabled, InVersion

LEMMA SameVersion ==
    ASSUME NEW steps, Ordered(steps), NEW v, NEW w, NEW i \in DOMAIN steps,
           Agree(steps, v, w, i), NEW k \in DOMAIN steps
    PROVE  InVersion(Value(v, VERSION), steps[k]) <=> InVersion(Value(w, VERSION), steps[k])
<1>1. /\ Value(w, VERSION) \in Nat /\ Value(v, VERSION) \in Nat
      /\ steps[k].from \in Nat
      BY OrderedFacts DEF Agree
<1>2. CASE steps[1].name = VERSION
  <2>1. 1 \in 1..i BY OrderedFacts
  <2>2. YieldsAt(steps, w, 1) BY <1>1, FirstYields
  <2>3. VERSION \in TestedNames(steps) BY TestedNamesFacts
  <2> QED BY <1>2, <2>1, <2>2, <2>3 DEF Agree
<1>3. CASE steps[1].name # VERSION
  <2>1. ~(steps[k].from > 0 \/ steps[k].below # MANY) BY <1>3 DEF Ordered
  <2> QED BY <1>1, <2>1 DEF InVersion
<1> QED BY <1>2, <1>3

(* Who knows what the first i steps gave knows of every step, up to the next  *)
(* one that comes, whether it does: its conditions were all given before.     *)
LEMMA SameYield ==
    ASSUME NEW steps, Ordered(steps), NEW v, NEW w, NEW i \in DOMAIN steps,
           Agree(steps, v, w, i),
           NEW k \in DOMAIN steps, \A x \in i+1..k-1 : ~YieldsAt(steps, w, x)
    PROVE  /\ YieldsAt(steps, v, k) <=> YieldsAt(steps, w, k)
           /\ YieldsAt(steps, w, k) /\ steps[k].loop # NONE =>
                  Value(v, steps[k].loop) = Value(w, steps[k].loop)
<1> DEFINE s == steps[k]
           version(u) == InVersion(Value(u, VERSION), s)
           when(u) == s.when # NONE => Value(u, s.when) # 0
<1>1. version(v) <=> version(w) BY SameVersion
<1>2. /\ Len(steps) \in Nat /\ DOMAIN steps = 1..Len(steps)
      /\ \A g \in DOMAIN steps : steps[g].from \in Nat /\ steps[g].below \in Nat
      BY OrderedFacts
<1>3. ASSUME NEW g \in DOMAIN steps, NEW name \in TestedNames(steps), Gives(steps, g, name, k),
             version(w), steps[g].when # NONE => steps[g].when = s.when /\ when(w)
      PROVE  Value(v, name) = Value(w, name)
  <2>1. /\ g < k /\ steps[g].name = name /\ Covers(steps[g], s)
        /\ steps[g].kind # "same" /\ steps[g].loop = NONE
        BY <1>3 DEF Gives
  <2>2. InVersion(Value(w, VERSION), steps[g])
    <3>1. Value(w, VERSION) \in Nat BY DEF Agree
    <3> QED BY <1>2, <1>3, <2>1, <3>1 DEF Covers, InVersion
  <2>3. YieldsAt(steps, w, g)
        BY <1>3, <2>1, <2>2 DEF YieldsAt, Enabled
  <2>4. g \in 1..i
        BY <1>2, <2>1, <2>3
  <2> QED BY <1>3, <2>1, <2>3, <2>4 DEF Agree
<1>4. version(w) => (when(v) <=> when(w))
  <2> SUFFICES ASSUME version(w), s.when # NONE PROVE Value(v, s.when) = Value(w, s.when)
      OBVIOUS
  <2>1. PICK g \in DOMAIN steps : Gives(steps, g, s.when, k) /\ steps[g].when = NONE
        BY DEF Ordered
  <2>2. s.when \in TestedNames(steps) BY TestedNamesFacts
  <2> HIDE DEF version, when
  <2> QED BY <2>1, <2>2, <1>3
<1>5. version(w) /\ when(w) /\ s.loop # NONE => Value(v, s.loop) = Value(w, s.loop)
  <2> SUFFICES ASSUME version(w), when(w), s.loop # NONE
               PROVE  Value(v, s.loop) = Value(w, s.loop)
      OBVIOUS
  <2>1. PICK g \in DOMAIN steps :
            Gives(steps, g, s.loop, k) /\ steps[g].when \in {NONE, s.when}
        BY DEF Ordered
  <2>2. s.loop \in TestedNames(steps) BY TestedNamesFacts
  <2> HIDE DEF version, when
  <2> QED BY <2>1, <2>2, <1>3
<1> QED BY <1>1, <1>4, <1>5 DEF YieldsAt, Enabled

(* ... so that it goes through the table as if it knew everything.            *)
LEMMA SameNext ==
    ASSUME NEW steps, Ordered(steps), NEW v, NEW w, NEW i \in DOMAIN steps, NEW j,
           Agree(steps, v, w, i), YieldsAt(steps, w, i)
    PROVE  NextStep(steps, v, i, j) = NextStep(steps, w, i, j)
<1> DEFINE loop == steps[i].loop
           n == Len(steps)
           inLoop(k) == loop # NONE /\ steps[k].loop = loop
           later(u) == {k \in i+1..n : YieldsAt(steps, u, k)}
           body(u) == {x \in {k \in 1..i : YieldsAt(steps, u, k)} : inLoop(x)}
<1>1. n \in Nat /\ DOMAIN steps = 1..n BY OrderedFacts
<1>0. \A u : later(u) # {} =>
              Min(later(u)) \in later(u) /\ \A y \in later(u) : Min(later(u)) =< y
  <2> SUFFICES ASSUME NEW u, later(u) # {}
               PROVE  Min(later(u)) \in later(u) /\ \A y \in later(u) : Min(later(u)) =< y
      OBVIOUS
  <2>1. later(u) \subseteq Nat BY <1>1
  <2> HIDE DEF later
  <2> QED BY <2>1, MinElement, Zenon
<1>2. \A k \in 1..i : YieldsAt(steps, v, k) <=> YieldsAt(steps, w, k)
      BY <1>1, SameYield
<1>3. body(v) = body(w) BY <1>2
<1>4. loop # NONE => Value(v, loop) = Value(w, loop)
      BY <1>1, SameYield
<1>5. later(v) = {} <=> later(w) = {}
  <2>1. CASE later(w) = {}
    <3>1. \A k \in i+1..n : ~YieldsAt(steps, w, k) BY <2>1
    <3>2. \A k \in i+1..n : k \in DOMAIN steps /\ k-1 \in Int /\ i+1..k-1 \subseteq i+1..n
          BY <1>1
    <3>3. \A k \in i+1..n : ~YieldsAt(steps, v, k)
          BY <3>1, <3>2, SameYield
    <3> QED BY <2>1, <3>3
  <2>2. CASE later(w) # {}
    <3> DEFINE k == Min(later(w))
    <3>1. k \in later(w) /\ \A y \in later(w) : k =< y
          BY <1>0, <2>2, Zenon
    <3> HIDE DEF k
    <3>2. \A x \in i+1..k-1 : ~YieldsAt(steps, w, x) BY <1>1, <3>1
    <3>3. YieldsAt(steps, v, k) BY <1>1, <3>1, <3>2, SameYield
    <3> QED BY <2>2, <3>1, <3>3
  <2> QED BY <2>1, <2>2
<1>6. later(w) # {} => Min(later(v)) = Min(later(w))
  <2> SUFFICES ASSUME later(w) # {} PROVE Min(later(v)) = Min(later(w))
      OBVIOUS
  <2> DEFINE k == Min(later(w))
             l == Min(later(v))
  <2>1. k \in later(w) /\ \A y \in later(w) : k =< y
        BY <1>0, Zenon
  <2>2. l \in later(v) /\ \A y \in later(v) : l =< y
        BY <1>0, <1>5, Zenon
  <2> HIDE DEF k, l
  <2>3. \A x \in i+1..k-1 : ~YieldsAt(steps, w, x) BY <1>1, <2>1
  <2>4. \A x \in i+1..k : x \in DOMAIN steps /\ (YieldsAt(steps, v, x) <=> YieldsAt(steps, w, x))
    <3> SUFFICES ASSUME NEW x \in i+1..k
                 PROVE  x \in DOMAIN steps /\ (YieldsAt(steps, v, x) <=> YieldsAt(steps, w, x))
        OBVIOUS
    <3>1. x \in DOMAIN steps /\ \A y \in i+1..x-1 : ~YieldsAt(steps, w, y)
          BY <1>1, <2>1, <2>3
    <3> QED BY <3>1, SameYield
  <2>5. k \in later(v) BY <1>1, <2>1, <2>4
  <2>6. l =< k BY <2>2, <2>5
  <2>7. l \in later(w) BY <1>1, <2>1, <2>2, <2>4, <2>6
  <2>8. k =< l BY <2>1, <2>7
  <2>9. k \in Int /\ l \in Int BY <1>1, <2>1, <2>2
  <2>10. k = l BY <2>6, <2>8, <2>9
  <2> QED BY <2>10 DEF k, l
<1>7. loop # NONE => (ElementsLeft(v, loop, j) <=> ElementsLeft(w, loop, j))
      BY <1>4 DEF ElementsLeft
<1>8. NextStep(steps, w, i, j) =
          IF later(w) # {} /\ inLoop(Min(later(w))) THEN <<Min(later(w)), j>>
          ELSE IF loop # NONE /\ ElementsLeft(w, loop, j) THEN <<Min(body(w)), j + 1>>
          ELSE IF later(w) # {} THEN <<Min(later(w)), 0>> ELSE Start
      BY Zenon DEF NextStep
<1>9. NextStep(steps, v, i, j) =
          IF later(v) # {} /\ inLoop(Min(later(v))) THEN <<Min(later(v)), j>>
          ELSE IF loop # NONE /\ ElementsLeft(v, loop, j) THEN <<Min(body(v)), j + 1>>
          ELSE IF later(v) # {} THEN <<Min(later(v)), 0>> ELSE Start
      BY Zenon DEF NextStep
<1> HIDE DEF later, body, inLoop, loop
<1>10. CASE later(w) # {} BY <1>3, <1>5, <1>6, <1>7, <1>8, <1>9, <1>10
<1>11. CASE later(w) = {} BY <1>3, <1>5, <1>7, <1>8, <1>9, <1>11
<1> QED BY <1>10, <1>11

(* It stands behind what it has seen.                                         *)
LEMMA NextSkips ==
    ASSUME NEW steps, Ordered(steps), NEW w, NEW i \in DOMAIN steps, NEW j, NEW k, NEW l,
           NextStep(steps, w, i, j) = <<k, l>>, <<k, l>> # Start,
           YieldsAt(steps, w, i)
    PROVE  /\ k \in DOMAIN steps
           /\ \A x \in i+1..k-1 : ~YieldsAt(steps, w, x)
<1> DEFINE loop == steps[i].loop
           n == Len(steps)
           inLoop(x) == loop # NONE /\ steps[x].loop = loop
           later == {x \in i+1..n : YieldsAt(steps, w, x)}
           body == {x \in {y \in 1..i : YieldsAt(steps, w, y)} : inLoop(x)}
<1>1. n \in Nat /\ DOMAIN steps = 1..n BY OrderedFacts
<1>2. later # {} => Min(later) \in later /\ \A y \in later : Min(later) =< y
  <2>1. later \subseteq Nat BY <1>1
  <2> HIDE DEF later
  <2> QED BY <2>1, MinElement
<1>3. loop # NONE => Min(body) \in body
  <2> SUFFICES ASSUME loop # NONE PROVE Min(body) \in body
      OBVIOUS
  <2>1. body \subseteq Nat /\ i \in body BY <1>1
  <2> HIDE DEF body
  <2> QED BY <2>1, MinElement
<1>4. \/ later # {} /\ <<k, l>> \in {<<Min(later), j>>, <<Min(later), 0>>}
      \/ loop # NONE /\ <<k, l>> = <<Min(body), j + 1>>
  <2>1. NextStep(steps, w, i, j) =
            IF later # {} /\ inLoop(Min(later)) THEN <<Min(later), j>>
            ELSE IF loop # NONE /\ ElementsLeft(w, loop, j) THEN <<Min(body), j + 1>>
            ELSE IF later # {} THEN <<Min(later), 0>> ELSE Start
        BY Zenon DEF NextStep
  <2> HIDE DEF later, body, inLoop, loop
  <2> QED BY <2>1
<1>5. \/ later # {} /\ k = Min(later)
      \/ loop # NONE /\ k = Min(body)
  <2> HIDE DEF later, body, loop
  <2> QED BY <1>4
<1>6. CASE later # {} /\ k = Min(later)
  <2>1. k \in later /\ \A y \in later : k =< y BY <1>2, <1>6
  <2> QED BY <1>1, <2>1
<1>7. CASE loop # NONE /\ k = Min(body)
  <2>1. k \in body BY <1>3, <1>7
  <2> QED BY <1>1, <2>1
<1> QED BY <1>5, <1>6, <1>7

(* One token more: with the value the other side has for it, the values agree *)
(* on this step too, and the two sides go on to the same place.               *)
LEMMA Follow ==
    ASSUME NEW steps, Ordered(steps), NEW v, NEW w, NEW i \in DOMAIN steps, NEW j,
           Agree(steps, v, w, i - 1), YieldsAt(steps, w, i), NEW u,
           \A n \in TestedNames(steps) :
               Value(u, n) = IF n = steps[i].name THEN Value(w, n) ELSE Value(v, n)
    PROVE  /\ Agree(steps, u, w, i)
           /\ NextStep(steps, u, i, j) = NextStep(steps, w, i, j)
           /\ \A k, l : <<k, l>> = NextStep(steps, w, i, j) /\ <<k, l>> # Start =>
                  Agree(steps, u, w, k - 1)
<1>1. Len(steps) \in Nat /\ DOMAIN steps = 1..Len(steps) BY OrderedFacts
<1>2. VERSION \in TestedNames(steps) BY TestedNamesFacts
<1>3. Agree(steps, u, w, i)
  <2>1. Value(u, VERSION) \in Nat /\ Value(w, VERSION) \in Nat
        BY <1>2 DEF Agree
  <2>2. \A k \in 1..i : k = i \/ k \in 1..(i - 1)
        BY <1>1
  <2>3. \A k \in 1..(i - 1) : YieldsAt(steps, w, k) /\ steps[k].name \in TestedNames(steps) =>
                                 Value(v, steps[k].name) = Value(w, steps[k].name)
        BY DEF Agree
  <2>4. ASSUME NEW k \in 1..i, YieldsAt(steps, w, k), steps[k].name \in TestedNames(steps)
        PROVE  Value(u, steps[k].name) = Value(w, steps[k].name)
        BY <2>2, <2>3, <2>4
  <2> QED BY <2>1, <2>4 DEF Agree
<1>4. NextStep(steps, u, i, j) = NextStep(steps, w, i, j)
      BY <1>3, SameNext
<1>5. ASSUME NEW k, NEW l, <<k, l>> = NextStep(steps, w, i, j), <<k, l>> # Start
      PROVE  Agree(steps, u, w, k - 1)
  <2>1. k \in DOMAIN steps /\ \A x \in i+1..k-1 : ~YieldsAt(steps, w, x)
        BY <1>5, NextSkips
  <2>2. \A x \in 1..k-1 : x \in 1..i \/ x \in i+1..k-1
        BY <1>1, <2>1
  <2> QED BY <1>3, <2>1, <2>2 DEF Agree
<1> QED BY <1>3, <1>4, <1>5

--------------------------------------------------------------------------------
(* The order of the places.                                                   *)

\* k is the first step behind i that comes.
Behind(steps, w, i, k) ==
    /\ k \in DOMAIN steps /\ i < k /\ YieldsAt(steps, w, k)
    /\ \A x \in DOMAIN steps : i < x /\ x < k => ~YieldsAt(steps, w, x)

InLoop(steps, i, k) == steps[i].loop # NONE /\ steps[k].loop = steps[i].loop

(* NextStep goes on in the loop, around it, behind it, or to the end.         *)
LEMMA NextCases ==
    ASSUME NEW steps, Ordered(steps), NEW w, NEW i \in DOMAIN steps, NEW j \in Nat,
           steps[i].loop # NONE => YieldsAt(steps, w, i)
    PROVE  LET next == NextStep(steps, w, i, j)
               left == steps[i].loop # NONE /\ ElementsLeft(w, steps[i].loop, j)
           IN  \/ \E k \in DOMAIN steps :
                     Behind(steps, w, i, k) /\ InLoop(steps, i, k) /\ next = <<k, j>>
               \/ \E k \in DOMAIN steps :
                     /\ left /\ k <= i /\ YieldsAt(steps, w, k) /\ InLoop(steps, i, k)
                     /\ \A x \in DOMAIN steps : Behind(steps, w, i, x) => ~InLoop(steps, i, x)
                     /\ \A x \in 1..i :
                           YieldsAt(steps, w, x) /\ InLoop(steps, i, x) => k <= x
                     /\ next = <<k, j + 1>>
               \/ \E k \in DOMAIN steps :
                     /\ ~left /\ Behind(steps, w, i, k) /\ ~InLoop(steps, i, k)
                     /\ next = <<k, 0>>
               \/ /\ ~left /\ next = Start
                  /\ \A x \in DOMAIN steps : i < x => ~YieldsAt(steps, w, x)
<1> DEFINE loop == steps[i].loop
           n == Len(steps)
           inLoop(x) == loop # NONE /\ steps[x].loop = loop
           later == {x \in i+1..n : YieldsAt(steps, w, x)}
           body == {x \in {y \in 1..i : YieldsAt(steps, w, y)} : inLoop(x)}
           next == NextStep(steps, w, i, j)
           left == loop # NONE /\ ElementsLeft(w, loop, j)
<1>1. n \in Nat /\ DOMAIN steps = 1..n BY OrderedFacts
<1>2. later # {} => Behind(steps, w, i, Min(later))
  <2> SUFFICES ASSUME later # {} PROVE Behind(steps, w, i, Min(later))
      OBVIOUS
  <2> DEFINE k == Min(later)
  <2>1. later \subseteq Nat BY <1>1
  <2>2. k \in later /\ \A y \in later : k =< y
    <3> HIDE DEF later
    <3> QED BY <2>1, MinElement
  <2> HIDE DEF k
  <2>3. k \in DOMAIN steps /\ i < k /\ YieldsAt(steps, w, k) BY <1>1, <2>2
  <2>4. ASSUME NEW x \in DOMAIN steps, i < x, x < k PROVE ~YieldsAt(steps, w, x)
    <3>1. x \in i+1..n BY <1>1, <2>4
    <3>2. ~(k =< x) BY <1>1, <2>3, <2>4
    <3> QED BY <2>2, <3>1, <3>2
  <2>5. Behind(steps, w, i, k) BY <2>3, <2>4 DEF Behind
  <2> QED BY <2>5 DEF k
<1>3. later = {} => \A x \in DOMAIN steps : i < x => ~YieldsAt(steps, w, x)
      BY <1>1
<1>4. loop # NONE => /\ Min(body) \in body
                     /\ \A x \in body : Min(body) <= x
  <2> SUFFICES ASSUME loop # NONE
               PROVE  Min(body) \in body /\ \A x \in body : Min(body) <= x
      OBVIOUS
  <2>1. body \subseteq Nat /\ i \in body BY <1>1
  <2> HIDE DEF body
  <2> QED BY <2>1, MinElement
<1>5. next = IF later # {} /\ inLoop(Min(later)) THEN <<Min(later), j>>
             ELSE IF left THEN <<Min(body), j + 1>>
             ELSE IF later # {} THEN <<Min(later), 0>> ELSE Start
      BY Zenon DEF NextStep
<1>6. \A x \in DOMAIN steps : Behind(steps, w, i, x) => later # {} /\ x = Min(later)
  <2> SUFFICES ASSUME NEW x \in DOMAIN steps, Behind(steps, w, i, x)
               PROVE  later # {} /\ x = Min(later)
      OBVIOUS
  <2>1. x \in later BY <1>1 DEF Behind
  <2> DEFINE k == Min(later)
  <2>2. Behind(steps, w, i, k) BY <1>2, <2>1
  <2> HIDE DEF k
  <2>3. k = x BY <1>1, <2>2 DEF Behind
  <2> QED BY <2>1, <2>3 DEF k
<1>7. \A x : inLoop(x) <=> InLoop(steps, i, x)
      BY DEF InLoop
<1>8. \A x \in 1..i : YieldsAt(steps, w, x) /\ InLoop(steps, i, x) => x \in body
      BY <1>7
<1>9. loop # NONE => /\ Min(body) \in DOMAIN steps /\ Min(body) <= i
                     /\ YieldsAt(steps, w, Min(body)) /\ InLoop(steps, i, Min(body))
  <2> DEFINE b == Min(body)
  <2> SUFFICES ASSUME loop # NONE
               PROVE  b \in DOMAIN steps /\ b <= i /\ YieldsAt(steps, w, b) /\ InLoop(steps, i, b)
      OBVIOUS
  <2>1. b \in body BY <1>4
  <2> HIDE DEF b
  <2>2. b \in 1..i /\ YieldsAt(steps, w, b) /\ inLoop(b) BY <2>1
  <2> QED BY <1>1, <1>7, <2>2
<1>10. \A x : Behind(steps, w, i, x) => x \in DOMAIN steps BY DEF Behind
<1> HIDE DEF later, body, inLoop, left, next
<1>11. CASE later # {} /\ inLoop(Min(later))
  <2>1. next = <<Min(later), j>> BY <1>5, <1>11
  <2> QED BY <1>2, <1>7, <1>10, <1>11, <2>1, Zenon DEF next
<1>12. CASE ~(later # {} /\ inLoop(Min(later))) /\ left
  <2>1. next = <<Min(body), j + 1>> BY <1>5, <1>12
  <2>2. loop # NONE BY <1>12 DEF left
  <2>3. \A x \in DOMAIN steps : Behind(steps, w, i, x) => ~InLoop(steps, i, x)
        BY <1>6, <1>7, <1>12, Zenon
  <2>4. \A x \in 1..i : YieldsAt(steps, w, x) /\ InLoop(steps, i, x) => Min(body) <= x
        BY <1>4, <1>8, <2>2, Zenon
  <2> QED BY <1>9, <1>12, <2>1, <2>2, <2>3, <2>4, Zenon DEF next, left
<1>13. CASE ~(later # {} /\ inLoop(Min(later))) /\ ~left /\ later # {}
  <2>1. next = <<Min(later), 0>> BY <1>5, <1>13
  <2> QED BY <1>2, <1>7, <1>10, <1>13, <2>1, Zenon DEF next, left
<1>14. CASE ~left /\ later = {}
  <2>1. next = Start BY <1>5, <1>14
  <2> QED BY <1>3, <1>14, <2>1, Zenon DEF next, left
<1> QED BY <1>11, <1>12, <1>13, <1>14, Zenon

(* The elements of an array are together.                                     *)
LEMMA LoopTogether ==
    ASSUME NEW steps, Ordered(steps), NEW i \in DOMAIN steps, NEW k \in DOMAIN steps,
           InLoop(steps, i, k), NEW x \in DOMAIN steps, (i <= x /\ x <= k) \/ (k <= x /\ x <= i)
    PROVE  InLoop(steps, i, x)
<1>1. Len(steps) \in Nat /\ DOMAIN steps = 1..Len(steps) BY OrderedFacts
<1>2. \A b \in DOMAIN steps : steps[b].loop # NONE =>
          \A a \in 1..b : steps[a].loop = steps[b].loop =>
              \A y \in a..b : steps[y].loop = steps[b].loop
      BY DEF Ordered
<1>3. CASE i <= x /\ x <= k
  <2>1. i \in 1..k /\ x \in i..k BY <1>1, <1>3
  <2> QED BY <1>2, <2>1 DEF InLoop
<1>4. CASE k <= x /\ x <= i
  <2>1. k \in 1..i /\ x \in k..i BY <1>1, <1>4
  <2> QED BY <1>2, <2>1 DEF InLoop
<1> QED BY <1>3, <1>4

LEMMA PrecedesIs ==
    ASSUME NEW steps, NEW i, NEW j, NEW k, NEW l
    PROVE  Precedes(steps, <<i, j>>, <<k, l>>) <=>
               IF InLoop(steps, i, k) THEN j < l \/ (j = l /\ i < k) ELSE i < k
BY DEF Precedes, InLoop

(* It is an order.                                                            *)
LEMMA PrecedesOrder ==
    ASSUME NEW steps, Ordered(steps), NEW a \in DOMAIN steps, NEW x \in Nat,
           NEW b \in DOMAIN steps, NEW y \in Nat, NEW c \in DOMAIN steps, NEW z \in Nat,
           Precedes(steps, <<a, x>>, <<b, y>>)
    PROVE  /\ ~Precedes(steps, <<b, y>>, <<a, x>>)
           /\ Precedes(steps, <<b, y>>, <<c, z>>) => Precedes(steps, <<a, x>>, <<c, z>>)
<1>1. Len(steps) \in Nat /\ DOMAIN steps = 1..Len(steps) BY OrderedFacts
<1>2. a \in Nat /\ b \in Nat /\ c \in Nat BY <1>1
<1>3. InLoop(steps, a, b) <=> InLoop(steps, b, a) BY DEF InLoop
<1>4. ~Precedes(steps, <<b, y>>, <<a, x>>) BY <1>2, <1>3, PrecedesIs
<1>5. ASSUME Precedes(steps, <<b, y>>, <<c, z>>) PROVE Precedes(steps, <<a, x>>, <<c, z>>)
  <2>1. CASE InLoop(steps, a, b) /\ InLoop(steps, b, c)
    <3>1. InLoop(steps, a, c) BY <2>1 DEF InLoop
    <3> QED BY <1>2, <1>5, <2>1, <3>1, PrecedesIs
  <2>2. CASE InLoop(steps, a, b) /\ ~InLoop(steps, b, c)
    <3>1. ~InLoop(steps, a, c) BY <2>2 DEF InLoop
    <3>2. b < c BY <1>5, <2>2, PrecedesIs
    <3>3. ~(c <= a) BY <1>2, <2>2, <3>1, <3>2, LoopTogether
    <3> QED BY <1>2, <3>1, <3>3, PrecedesIs
  <2>3. CASE ~InLoop(steps, a, b) /\ InLoop(steps, b, c)
    <3>1. ~InLoop(steps, a, c) BY <2>3 DEF InLoop
    <3>2. a < b BY <1>5, <2>3, PrecedesIs
    <3>3. ~(c <= a)
      <4> SUFFICES ASSUME c <= a PROVE FALSE
          OBVIOUS
      <4>1. InLoop(steps, b, a) BY <1>2, <2>3, <3>2, LoopTogether
      <4> QED BY <1>3, <2>3, <4>1
    <3> QED BY <1>2, <3>1, <3>3, PrecedesIs
  <2>4. CASE ~InLoop(steps, a, b) /\ ~InLoop(steps, b, c)
    <3>1. a < b /\ b < c BY <1>5, <2>4, PrecedesIs
    <3>2. ~InLoop(steps, a, c)
      <4> SUFFICES ASSUME InLoop(steps, a, c) PROVE FALSE
          OBVIOUS
      <4>1. a <= b /\ b <= c BY <1>2, <3>1
      <4>2. InLoop(steps, a, b) BY <4>1, LoopTogether
      <4> QED BY <2>4, <4>2
    <3> QED BY <1>2, <3>1, <3>2, PrecedesIs
  <2> QED BY <2>1, <2>2, <2>3, <2>4
<1> QED BY <1>4, <1>5

PlaceIn(steps, a) == a[1] \in DOMAIN steps /\ a[2] \in Nat

LEMMA PrecedesTransitive ==
    ASSUME NEW steps, Ordered(steps), NEW a, PlaceIn(steps, a), NEW b, PlaceIn(steps, b),
           NEW c, PlaceIn(steps, c), Precedes(steps, a, b)
    PROVE  /\ ~Precedes(steps, b, a)
           /\ Precedes(steps, b, c) => Precedes(steps, a, c)
<1> DEFINE As(p) == <<p[1], p[2]>>
<1>1. \A p, q : Precedes(steps, p, q) <=> Precedes(steps, As(p), As(q))
      BY DEF Precedes
<1>2. /\ ~Precedes(steps, As(b), As(a))
      /\ Precedes(steps, As(b), As(c)) => Precedes(steps, As(a), As(c))
      BY <1>1, PrecedesOrder DEF PlaceIn
<1> HIDE DEF As
<1> QED BY <1>1, <1>2

\* A place of a table, for who knows the values w.
IsPlace(steps, w, k, l) ==
    /\ k \in DOMAIN steps /\ l \in Nat /\ YieldsAt(steps, w, k)
    /\ IF steps[k].loop = NONE THEN l = 0 ELSE l < Value(w, steps[k].loop)

\* next is the first place behind step i of element j, or Start where there is none.
FirstBehind(steps, w, i, j, next) ==
    \/ /\ next = Start
       /\ \A k, l : IsPlace(steps, w, k, l) => ~Precedes(steps, <<i, j>>, <<k, l>>)
    \/ \E m, n : /\ next = <<m, n>> /\ IsPlace(steps, w, m, n) /\ m # 1
                 /\ Precedes(steps, <<i, j>>, <<m, n>>)
                 /\ \A k, l : IsPlace(steps, w, k, l) /\ Precedes(steps, <<i, j>>, <<k, l>>) =>
                         <<k, l>> = <<m, n>> \/ Precedes(steps, <<m, n>>, <<k, l>>)

(* NextStep goes on to it.                                                    *)
LEMMA NextIsFirst ==
    ASSUME NEW steps, Ordered(steps), NEW w, \A n : Value(w, n) \in Nat,
           NEW i \in DOMAIN steps, NEW j \in Nat,
           IF steps[i].loop = NONE THEN j = 0
           ELSE YieldsAt(steps, w, i) /\ j < Value(w, steps[i].loop)
    PROVE  FirstBehind(steps, w, i, j, NextStep(steps, w, i, j))
<1> DEFINE loop == steps[i].loop
           next == NextStep(steps, w, i, j)
           left == loop # NONE /\ ElementsLeft(w, loop, j)
<1>1. /\ Len(steps) \in Nat /\ DOMAIN steps = 1..Len(steps) /\ steps[1].loop = NONE
      /\ 1 \in DOMAIN steps
      BY OrderedFacts
<1>2. /\ i \in DOMAIN steps /\ j \in Nat
      /\ IF loop = NONE THEN j = 0 ELSE YieldsAt(steps, w, i) /\ j < Value(w, loop)
      OBVIOUS
<1>3. left <=> loop # NONE /\ j + 1 < Value(w, loop)
      BY DEF ElementsLeft
<1>4. ASSUME NEW k \in DOMAIN steps, i < k, YieldsAt(steps, w, k)
      PROVE  \E m \in DOMAIN steps : Behind(steps, w, i, m) /\ m <= k
  <2> DEFINE S == {x \in i+1..Len(steps) : YieldsAt(steps, w, x)}
             m == Min(S)
  <2>1. k \in S /\ S \subseteq Nat BY <1>1, <1>2, <1>4
  <2>2. m \in S /\ \A y \in S : m =< y
    <3> HIDE DEF S
    <3> QED BY <2>1, MinElement
  <2> HIDE DEF m
  <2>3. \A x \in DOMAIN steps : i < x /\ x < m => ~YieldsAt(steps, w, x)
    <3> SUFFICES ASSUME NEW x \in DOMAIN steps, i < x, x < m PROVE x \notin S
        BY <1>1, <1>2
    <3> QED BY <1>1, <1>2, <2>2
  <2>4. m \in DOMAIN steps /\ i < m /\ YieldsAt(steps, w, m) BY <1>1, <1>2, <2>2
  <2>5. m <= k BY <2>1, <2>2
  <2> QED BY <2>3, <2>4, <2>5 DEF Behind
<1>5. \A k \in DOMAIN steps : k \in Nat BY <1>1
<1>6. \A k \in DOMAIN steps : YieldsAt(steps, w, k) /\ steps[k].loop # NONE =>
                                  0 < Value(w, steps[k].loop)
      BY DEF YieldsAt, Enabled
<1>7. CASE \E k \in DOMAIN steps :
               Behind(steps, w, i, k) /\ InLoop(steps, i, k) /\ next = <<k, j>>
  <2>1. PICK m \in DOMAIN steps :
            Behind(steps, w, i, m) /\ InLoop(steps, i, m) /\ next = <<m, j>>
        BY <1>7
  <2>2. i < m /\ YieldsAt(steps, w, m) /\ steps[m].loop = loop /\ loop # NONE
        BY <2>1 DEF Behind, InLoop
  <2>3. IsPlace(steps, w, m, j) BY <1>2, <2>2 DEF IsPlace
  <2>4. Precedes(steps, <<i, j>>, <<m, j>>) BY <1>2, <2>1, <2>2, PrecedesIs
  <2>5. ASSUME NEW k, NEW l, IsPlace(steps, w, k, l), Precedes(steps, <<i, j>>, <<k, l>>)
        PROVE  <<k, l>> = <<m, j>> \/ Precedes(steps, <<m, j>>, <<k, l>>)
    <3>1. k \in DOMAIN steps /\ l \in Nat /\ YieldsAt(steps, w, k) BY <2>5 DEF IsPlace
    <3>2. i < k => m <= k BY <1>5, <2>1, <3>1 DEF Behind
    <3>3. InLoop(steps, m, k) <=> InLoop(steps, i, k) BY <2>2 DEF InLoop
    <3>4. IF InLoop(steps, i, k) THEN j < l \/ (j = l /\ i < k) ELSE i < k
          BY <2>5, PrecedesIs
    <3>5. ~InLoop(steps, i, k) => m # k BY <2>1
    <3>6. \/ m = k /\ l = j
          \/ IF InLoop(steps, m, k) THEN j < l \/ (j = l /\ m < k) ELSE m < k
          BY <1>5, <3>1, <3>2, <3>3, <3>4, <3>5
    <3> QED BY <3>6, PrecedesIs
  <2>6. m # 1 BY <1>1, <2>2
  <2> QED BY <2>1, <2>3, <2>4, <2>5, <2>6 DEF FirstBehind
<1>8. CASE \E k \in DOMAIN steps :
               /\ left /\ k <= i /\ YieldsAt(steps, w, k) /\ InLoop(steps, i, k)
               /\ \A x \in DOMAIN steps : Behind(steps, w, i, x) => ~InLoop(steps, i, x)
               /\ \A x \in 1..i : YieldsAt(steps, w, x) /\ InLoop(steps, i, x) => k <= x
               /\ next = <<k, j + 1>>
  <2>1. PICK m \in DOMAIN steps :
            /\ left /\ m <= i /\ YieldsAt(steps, w, m) /\ InLoop(steps, i, m)
            /\ \A x \in DOMAIN steps : Behind(steps, w, i, x) => ~InLoop(steps, i, x)
            /\ \A x \in 1..i : YieldsAt(steps, w, x) /\ InLoop(steps, i, x) => m <= x
            /\ next = <<m, j + 1>>
        BY <1>8
  <2>2. steps[m].loop = loop /\ loop # NONE BY <2>1 DEF InLoop
  <2>3. IsPlace(steps, w, m, j + 1) BY <1>2, <1>3, <2>1, <2>2 DEF IsPlace
  <2>4. Precedes(steps, <<i, j>>, <<m, j + 1>>) BY <1>2, <2>1, PrecedesIs
  <2>5. ASSUME NEW k, NEW l, IsPlace(steps, w, k, l), Precedes(steps, <<i, j>>, <<k, l>>)
        PROVE  <<k, l>> = <<m, j + 1>> \/ Precedes(steps, <<m, j + 1>>, <<k, l>>)
    <3>1. k \in DOMAIN steps /\ l \in Nat /\ YieldsAt(steps, w, k) BY <2>5 DEF IsPlace
    <3>2. InLoop(steps, m, k) <=> InLoop(steps, i, k) BY <2>2 DEF InLoop
    <3>3. IF InLoop(steps, i, k) THEN j < l \/ (j = l /\ i < k) ELSE i < k
          BY <2>5, PrecedesIs
    <3>4. InLoop(steps, i, k) => m <= k /\ k <= i
      <4> SUFFICES ASSUME InLoop(steps, i, k) PROVE m <= k /\ k <= i
          OBVIOUS
      <4>1. ~(i < k)
        <5> SUFFICES ASSUME i < k PROVE FALSE
            OBVIOUS
        <5>1. PICK x \in DOMAIN steps : Behind(steps, w, i, x) /\ x <= k
              BY <1>4, <3>1
        <5>2. i <= x BY <1>2, <1>5, <5>1 DEF Behind
        <5>3. InLoop(steps, i, x) BY <1>2, <3>1, <5>1, <5>2, LoopTogether
        <5> QED BY <2>1, <5>1, <5>3
      <4>2. k \in 1..i BY <1>1, <1>2, <3>1, <4>1
      <4> QED BY <2>1, <3>1, <4>2
    <3>5. \/ m = k /\ l = j + 1
          \/ IF InLoop(steps, m, k) THEN j + 1 < l \/ (j + 1 = l /\ m < k) ELSE m < k
          BY <1>2, <1>5, <2>1, <3>1, <3>2, <3>3, <3>4
    <3> QED BY <3>5, PrecedesIs
  <2>6. m # 1 BY <1>1, <2>2
  <2> QED BY <2>1, <2>3, <2>4, <2>5, <2>6 DEF FirstBehind
<1>9. ~left /\ loop # NONE => \A k, l : IsPlace(steps, w, k, l) /\ InLoop(steps, i, k) => l <= j
  <2> SUFFICES ASSUME ~left, loop # NONE, NEW k, NEW l, IsPlace(steps, w, k, l),
                      InLoop(steps, i, k)
               PROVE  l <= j
      OBVIOUS
  <2>1. l \in Nat /\ l < Value(w, loop) BY DEF IsPlace, InLoop
  <2>2. ~(j + 1 < Value(w, loop)) BY <1>3
  <2>3. Value(w, loop) \in Nat OBVIOUS
  <2> QED BY <1>2, <2>1, <2>2, <2>3
<1>10. CASE \E k \in DOMAIN steps :
                ~left /\ Behind(steps, w, i, k) /\ ~InLoop(steps, i, k) /\ next = <<k, 0>>
  <2>1. PICK m \in DOMAIN steps :
            ~left /\ Behind(steps, w, i, m) /\ ~InLoop(steps, i, m) /\ next = <<m, 0>>
        BY <1>10
  <2>2. i < m /\ YieldsAt(steps, w, m) BY <2>1 DEF Behind
  <2>3. IsPlace(steps, w, m, 0) BY <1>6, <2>2 DEF IsPlace
  <2>4. Precedes(steps, <<i, j>>, <<m, 0>>) BY <2>1, <2>2, PrecedesIs
  <2>5. ASSUME NEW k, NEW l, IsPlace(steps, w, k, l), Precedes(steps, <<i, j>>, <<k, l>>)
        PROVE  <<k, l>> = <<m, 0>> \/ Precedes(steps, <<m, 0>>, <<k, l>>)
    <3>1. /\ k \in DOMAIN steps /\ l \in Nat /\ YieldsAt(steps, w, k)
          /\ steps[k].loop = NONE => l = 0
          BY <2>5 DEF IsPlace
    <3>2. IF InLoop(steps, i, k) THEN j < l \/ (j = l /\ i < k) ELSE i < k
          BY <2>5, PrecedesIs
    <3>3. i < k => m <= k BY <1>5, <2>1, <3>1 DEF Behind
    <3>4. ~InLoop(steps, i, k)
      <4> SUFFICES ASSUME InLoop(steps, i, k) PROVE FALSE
          OBVIOUS
      <4>1. l <= j BY <1>9, <2>1, <2>5 DEF InLoop
      <4>2. i < k BY <1>2, <3>1, <3>2, <4>1
      <4>3. i <= m /\ m <= k BY <1>2, <1>5, <2>2, <3>3, <4>2
      <4>4. InLoop(steps, i, m) BY <1>2, <3>1, <4>3, LoopTogether
      <4> QED BY <2>1, <4>4
    <3>5. m <= k BY <3>2, <3>3, <3>4
    <3>6. \/ m = k /\ l = 0
          \/ IF InLoop(steps, m, k) THEN 0 < l \/ (0 = l /\ m < k) ELSE m < k
          BY <1>5, <3>1, <3>5 DEF InLoop
    <3> QED BY <3>6, PrecedesIs
  <2>6. m # 1 BY <1>1, <1>2, <2>2
  <2> QED BY <2>1, <2>3, <2>4, <2>5, <2>6 DEF FirstBehind
<1>11. CASE /\ ~left /\ next = Start
            /\ \A x \in DOMAIN steps : i < x => ~YieldsAt(steps, w, x)
  <2>1. ASSUME NEW k, NEW l, IsPlace(steps, w, k, l), Precedes(steps, <<i, j>>, <<k, l>>)
        PROVE  FALSE
    <3>1. k \in DOMAIN steps /\ l \in Nat /\ YieldsAt(steps, w, k) BY <2>1 DEF IsPlace
    <3>2. ~(i < k) BY <1>11, <3>1
    <3>3. InLoop(steps, i, k) /\ j < l BY <2>1, <3>2, PrecedesIs
    <3>4. l <= j BY <1>9, <1>11, <2>1, <3>3 DEF InLoop
    <3> QED BY <1>2, <3>1, <3>3, <3>4
  <2> QED BY <1>11, <2>1 DEF FirstBehind
<1> HIDE DEF next, left, loop
<1>12. \/ \E k \in DOMAIN steps :
              Behind(steps, w, i, k) /\ InLoop(steps, i, k) /\ next = <<k, j>>
       \/ \E k \in DOMAIN steps :
              /\ left /\ k <= i /\ YieldsAt(steps, w, k) /\ InLoop(steps, i, k)
              /\ \A x \in DOMAIN steps : Behind(steps, w, i, x) => ~InLoop(steps, i, x)
              /\ \A x \in 1..i : YieldsAt(steps, w, x) /\ InLoop(steps, i, x) => k <= x
              /\ next = <<k, j + 1>>
       \/ \E k \in DOMAIN steps :
              ~left /\ Behind(steps, w, i, k) /\ ~InLoop(steps, i, k) /\ next = <<k, 0>>
       \/ /\ ~left /\ next = Start
          /\ \A x \in DOMAIN steps : i < x => ~YieldsAt(steps, w, x)
       BY <1>2, NextCases, Zenon DEF next, left, loop
<1> QED BY <1>7, <1>8, <1>10, <1>11, <1>12, Zenon DEF next
================================================================================
