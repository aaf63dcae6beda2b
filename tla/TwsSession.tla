------------------------------ MODULE TwsSession -------------------------------
(* What a TWS client promises its user: the life of one session after another *)
(* as the event callback and the state field of tws_client_t show it, without *)
(* the socket, the loop and the protocol underneath.  TwsClient implements it *)
(* under the mapping given there.                                             *)
EXTENDS Integers

CONSTANT IdRange    \* a client id is an int: the ids wrap around

VARIABLES
    session,   \* "closed", "opening", "ready" after CLIENT_CONNECTED, "lost" after CLIENT_DISCONNECTED
    auto,      \* the client dials by itself once it is closed
    id         \* the id it introduces itself with: a new one whenever it dials by itself

vars == <<session, auto, id>>

Init == session = "closed" /\ auto = FALSE /\ id = 0

\* The user connects.
Open == session = "closed" /\ session' = "opening" /\ UNCHANGED <<auto, id>>

\* The client connects by itself, and may fail at once.
AutoOpen ==
    /\ session = "closed" /\ auto
    /\ session' \in {"opening", "closed"}
    /\ id' = (id + 1) % IdRange
    /\ UNCHANGED auto

\* CLIENT_CONNECTED.
Ready == session = "opening" /\ session' = "ready" /\ UNCHANGED <<auto, id>>

\* CLIENT_DISCONNECTED; tws_client_stop turns reconnecting off as well.
Lose ==
    /\ session \in {"opening", "ready"} /\ session' = "lost"
    /\ auto' \in {auto, FALSE} /\ UNCHANGED id

\* The connection's resources are gone.
Release == session = "lost" /\ session' = "closed" /\ UNCHANGED <<auto, id>>

\* The user turns reconnecting on or off.
Configure == auto' \in BOOLEAN /\ UNCHANGED <<session, id>>

Next == Open \/ AutoOpen \/ Ready \/ Lose \/ Release \/ Configure

Spec == Init /\ [][Next]_vars

\* A session that is lost is released in the end.
FairSpec == Spec /\ WF_vars(Release)
================================================================================
