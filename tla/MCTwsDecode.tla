------------------------------ MODULE MCTwsDecode ------------------------------
(* Instances of TwsDecode for TLC: every packet, in every version that makes  *)
(* a difference to it.                                                        *)
EXTENDS TwsDecode

mcPackets == AllPackets

Conditions(cmd_, field) ==
    {AllPackets[cmd_].steps[i][field] : i \in DOMAIN AllPackets[cmd_].steps}

\* Version 1, and the versions on both sides of each condition.
VersionsOf(cmd_) ==
    LET bounds == (Conditions(cmd_, "from") \cup Conditions(cmd_, "below")
                   \cup (IF cmd_ = LOGIN THEN {MIN_REQ_SERVER_VERSION} ELSE {})) \ {0, MANY}
    IN  {1} \cup bounds \cup {v - 1 : v \in bounds}

\* All arrays and tested values alike, or one of them different.
ShapesOf(cmd_) ==
    [cmd : {cmd_}, version : VersionsOf(cmd_), filled : {0, 1},
     count : IF Conditions(cmd_, "loop") = {NONE} THEN {0} ELSE 0..2,
     flag : IF Conditions(cmd_, "when") = {NONE} THEN {0} ELSE {0, 1},
     odd : Conditions(cmd_, "loop") \cup Conditions(cmd_, "when")]

\* A shape without what is not in its packet.
Reduced(sh) ==
    LET steps == AllPackets[sh.cmd].steps
        sent == {steps[i] : i \in {k \in DOMAIN steps : SentStep(sh, steps[k])}}
        tested == Conditions(sh.cmd, "when") \ {NONE}
    IN  [sh EXCEPT !.odd = IF \E s \in sent : s.name = @ THEN @ ELSE NONE,
                   !.count = IF \E s \in sent : s.kind = "count" THEN @ ELSE 0,
                   !.flag = IF \E s \in sent : s.name \in tested THEN @ ELSE 0]

\* A bond with security ids: the run decode_bond shows what the client makes of it.
BondIds(sh) == sh.cmd = "BOND_CONTRACT_DATA" /\ sh.version >= 5 /\ CountOf(sh, SecIdList) > 0

mcUnknown == [Idle EXCEPT !.cmd = UNKNOWN]
PacketShapes ==
    {mcUnknown} \cup {Reduced(sh) : sh \in {x \in UNION {ShapesOf(c) : c \in DOMAIN AllPackets} :
                                                ~BondIds(x)}}
mcShapes == PacketShapes     \* TLC keeps the value of a definition that it meets by name
mcLogin == [mcUnknown EXCEPT !.cmd = LOGIN, !.version = MIN_REQ_SERVER_VERSION]
mcBondShapes == {mcLogin} \cup {sh \in ShapesOf("BOND_CONTRACT_DATA") : BondIds(sh)}

\* TwsDecodeProofs shows InStep for such shapes.
ASSUME YieldsAssumption == \A sh \in mcShapes : Yields(sh)
================================================================================
