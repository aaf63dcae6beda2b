---------------------------- MODULE MCTwsReconnect -----------------------------
(* A small instance of TwsReconnect for TLC.                                  *)
EXTENDS TwsReconnectProofs, TLC

\* With IntMax = 31 and MS = 2 a delay_max up to 7 fits, 9, 15 and 31 do not; -1 and
\* 0 are refused; 31 as delay_max, with 1 as delay, overflows max_reconnects_incr.
mcDelays == {-1, 0, 1, 2, 3, 5, 7, 9, 15, 31}
================================================================================
