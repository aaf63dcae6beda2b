------------------------------ MODULE MCTwsEncode ------------------------------
(* Instances of TwsEncode for TLC: every request, with every combination of   *)
(* arguments that makes a difference to it.                                   *)
EXTENDS TwsEncode

mcRequests == AllRequests

Has(cmd_, kinds) == \E i \in DOMAIN AllRequests[cmd_] : AllRequests[cmd_][i].kind \in kinds

\* Behind three numbers of 6 characters a string of 1002 fits the buffer to the last
\* byte, one of 1003 does not.
Texts_(cmd_) ==
    IF ~Has(cmd_, {"str"}) THEN {0} ELSE IF Has(cmd_, {"max"}) THEN {0, 5, 1003} ELSE {0, 5, 1002, 1003}
Lists(cmd_) == IF Has(cmd_, {"tags", "options"}) THEN {"null", "whole", "untagged"} ELSE {"null"}

ShapesOf(cmd_) ==
    [cmd : {cmd_}, text : Texts_(cmd_), tag : {5}, list : Lists(cmd_),
     flag : IF Has(cmd_, {"flag", "flagstr", "flagmax"}) THEN {0, 1} ELSE {0},
     count : IF Has(cmd_, {"count"}) THEN 0..2 ELSE IF Has(cmd_, {"options"}) THEN -1..2 ELSE {0},
     set : IF Has(cmd_, {"max"}) THEN {0, 1} ELSE {0}]

\* Options of 1002 characters fit sbuf, and four of them obuf; of 1024 they do not fit
\* sbuf.
LongOptions ==
    [cmd : {"REQ_MKT_DEPTH"}, text : {5}, tag : {500, 511}, list : {"whole"}, flag : {0},
     count : {1, 4, 5}, set : {0}]

\* An empty list has no elements that could lack a tag.
mcShapes ==
    {s \in UNION {ShapesOf(c) : c \in DOMAIN AllRequests} : s.count <= 0 => s.list = "null"}
    \cup LongOptions
================================================================================
