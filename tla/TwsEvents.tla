------------------------------- MODULE TwsEvents -------------------------------
(* What the user of a TWS client may rely on when packets arrive: each packet *)
(* received as a whole becomes one event, made of that packet's bytes and no  *)
(* others, in order, before the next connection begins.  TwsReceive           *)
(* implements it.                                                             *)
EXTENDS Integers, Sequences

(* A life is what TWS sends to a client, byte after byte over all connections *)
(* (0 is a NUL), and what the client receives of it.  Of a connection: where  *)
(* the greeting ends, the first and last bytes of each packet that is due an  *)
(* event, and the last byte that arrives.                                     *)
CONSTANT Lives

VARIABLES
    life,
    conn,      \* the number of the connection, 0 before the first
    sent,      \* how many bytes were received
    told,      \* how many events of this connection the user was told
    shown      \* the bytes the last event was made of, as positions

vars == <<life, conn, sent, told, shown>>

Connection == life.conns[conn]

Init ==
    /\ life \in Lives
    /\ conn = 0 /\ sent = 0 /\ told = 0 /\ shown = <<>>

Receive ==
    /\ conn > 0 /\ sent' \in sent+1..Connection.end
    /\ UNCHANGED <<life, conn, told, shown>>

\* A packet is there that the user was not told of.
Due == conn > 0 /\ told < Len(Connection.packets) /\ Connection.packets[told + 1].last <= sent

Tell ==
    /\ Due
    /\ told' = told + 1
    /\ LET packet == Connection.packets[told + 1]
       IN  shown' = [i \in 1 .. packet.last + 1 - packet.first |-> packet.first + i - 1]
    /\ UNCHANGED <<life, conn, sent>>

Reconnect ==
    /\ ~Due /\ conn < Len(life.conns)
    /\ conn' = conn + 1 /\ told' = 0
    /\ UNCHANGED <<life, sent, shown>>

Next == Receive \/ Tell \/ Reconnect

Spec == Init /\ [][Next]_vars

\* The user is told of every packet in the end.
FairSpec == Spec /\ WF_vars(Tell)
================================================================================
