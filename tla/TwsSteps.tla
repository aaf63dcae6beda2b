------------------------------- MODULE TwsSteps --------------------------------
(* The layout of a message of the TWS protocol, as a table of steps: which    *)
(* token comes when, under which conditions, and how often; and how a program *)
(* that has such a table goes through it.  The packets of tws_decode.c and    *)
(* the requests of tws_encode.c are written down in this form.                *)
EXTENDS Integers, Sequences, FiniteSetsExt

NONE == <<"", "">>
MANY == 1000          \* no version is too high
VERSION == <<"event", "version">>

Step(kind, name) ==
    << [kind |-> kind, name |-> name, from |-> 0, below |-> MANY, when |-> NONE, loop |-> NONE] >>

StepType ==
    [kind : STRING, name : STRING \X STRING, from : Nat, below : Nat,
     when : STRING \X STRING, loop : STRING \X STRING]

Num(n) == [i \in 1..n |-> Step("num", NONE)[1]]

Since(v, steps) ==
    [i \in DOMAIN steps |-> [steps[i] EXCEPT !.from = IF @ < v THEN v ELSE @]]
Before(v, steps) == [i \in DOMAIN steps |-> [steps[i] EXCEPT !.below = v]]
When(name, steps) == [i \in DOMAIN steps |-> [steps[i] EXCEPT !.when = name]]

\* The length of an array, and the steps repeated for each of its elements.
Each(array, steps) ==
    Step("count", array) \o [i \in DOMAIN steps |-> [steps[i] EXCEPT !.loop = array]]

--------------------------------------------------------------------------------
(* Going through a table: a program that takes or writes one token at a time, *)
(* and knows the values v that conditions test.                               *)

Start == <<0, 0>>     \* no step is next: the program begins, or has ended

\* The function f with the value e at x, where f may have none yet.
Assign(f, x, e) == [y \in DOMAIN f \cup {x} |-> IF y = x THEN e ELSE f[y]]

Value(v, name) == IF name \in DOMAIN v THEN v[name] ELSE 0

\* The version n has the step.
InVersion(n, s) == n >= s.from /\ (s.below = MANY \/ n < s.below)

\* The conditions around a step, with the values v read so far.
Enabled_Mutated(v, s) ==
    /\ InVersion(Value(v, VERSION), s) /\ (s.from > 0 => Value(v, VERSION) > s.from)
    /\ s.when # NONE => Value(v, s.when) # 0
    /\ s.loop # NONE => Value(v, s.loop) > 0
Enabled(v, s) ==
    /\ InVersion(Value(v, VERSION), s)
    /\ s.when # NONE => Value(v, s.when) # 0
    /\ s.loop # NONE => Value(v, s.loop) > 0

\* A step that has a token of its own.
YieldsAt(steps, v, k) == steps[k].kind # "same" /\ Enabled(v, steps[k])

ElementsLeft_Mutated(v, loop, j) == j < Value(v, loop)
ElementsLeft(v, loop, j) == j + 1 < Value(v, loop)

\* What comes after step i of array element j: the next step, in or behind the loop,
\* or the loop's first step for the next element.
NextStep(steps, v, i, j) ==
    LET loop == steps[i].loop
        inLoop(k) == loop # NONE /\ steps[k].loop = loop
        yields(from, to) == {k \in from..to : YieldsAt(steps, v, k)}
        later == yields(i + 1, Len(steps))
        k == Min(later)
    IN  IF later # {} /\ inLoop(k) THEN <<k, j>>
        ELSE IF loop # NONE /\ ElementsLeft(v, loop, j)
        THEN <<Min({x \in yields(1, i) : inLoop(x)}), j + 1>>
        ELSE IF later # {} THEN <<k, 0>> ELSE Start

\* The order of places, each a step of an array's element: within an array, that of its
\* elements.
Precedes(steps, a, b) ==
    IF steps[a[1]].loop # NONE /\ steps[a[1]].loop = steps[b[1]].loop
    THEN a[2] < b[2] \/ (a[2] = b[2] /\ a[1] < b[1])
    ELSE a[1] < b[1]

--------------------------------------------------------------------------------
(* What makes a table fit to be read from one side: a condition tests what    *)
(* came before it.                                                            *)

\* Every version that has the step t has s.
Covers(s, t) ==
    s.from =< t.from /\ (s.below = MANY \/ (t.below # MANY /\ t.below =< s.below))

\* Step i gives the value that the condition name of step k tests.
Gives(steps, i, name, k) ==
    /\ i < k /\ steps[i].name = name /\ Covers(steps[i], steps[k])
    /\ steps[i].kind # "same" /\ steps[i].loop = NONE

\* It begins with a step that always comes; only it gives the version.  The length of an
\* array is under no condition but those of the array, whose elements are together, and
\* hold no value that is tested around them.
Ordered(steps) ==
    /\ steps \in Seq(StepType) /\ steps # <<>>
    /\ [steps[1] EXCEPT !.kind = "num", !.name = NONE] = Num(1)[1] /\ steps[1].kind # "same"
    /\ \A k \in DOMAIN steps :
          LET s == steps[k]
          IN  /\ s.from > 0 \/ s.below # MANY => steps[1].name = VERSION
              /\ s.name = VERSION => k = 1
              /\ s.when # NONE => \E i \in DOMAIN steps :
                                    Gives(steps, i, s.when, k) /\ steps[i].when = NONE
              /\ s.loop # NONE =>
                    /\ \E i \in DOMAIN steps :
                          Gives(steps, i, s.loop, k) /\ steps[i].when \in {NONE, s.when}
                    /\ s.name # NONE => s.name \notin {VERSION, s.when, s.loop}
                    /\ \A i \in 1..k : steps[i].loop = s.loop =>
                          \A x \in i..k : steps[x].loop = s.loop
================================================================================
