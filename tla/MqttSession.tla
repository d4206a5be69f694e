---------------------------- MODULE MqttSession ----------------------------
(***************************************************************************)
(* What the device promises the broker on one TCP connection, as MQTT      *)
(* 3.1.1 asks for it: a CONNECT before anything else and only one, nothing *)
(* more until the broker has accepted it, one SUBSCRIBE, and nothing after *)
(* a DISCONNECT.  CloudService implements it.                              *)
(***************************************************************************)
EXTENDS Naturals, Sequences

CONSTANT MaxUp   \* bound: packets on the way to the broker

VARIABLES
    phase,   \* what the client did on this connection, "none" without one
    up,      \* the packets it sent that are still under way
    broker   \* what the broker took of them

sessionVars == <<phase, up, broker>>

Init == phase = "none" /\ up = <<>> /\ broker = "new"

-----------------------------------------------------------------------------
(* The client.                                                             *)

Put(p) ==
    /\ Len(up) < MaxUp /\ up' = Append(up, p)
    /\ UNCHANGED broker

Open == phase = "none" /\ phase' = "silent" /\ up' = <<>> /\ broker' = "new"

Connect == phase = "silent" /\ phase' = "connect" /\ Put("CONNECT")

Accept ==
    /\ phase = "connect" /\ broker # "new"
    /\ phase' = "online" /\ UNCHANGED <<up, broker>>

Subscribe == phase = "online" /\ phase' = "subscribed" /\ Put("SUBSCRIBE")

Send ==
    /\ phase \in {"online", "subscribed"} /\ UNCHANGED phase
    /\ \E p \in {"PUBLISH", "PINGREQ"} : Put(p)

Bye ==
    /\ phase \in {"connect", "online", "subscribed"} /\ phase' = "bye"
    /\ Put("DISCONNECT")

-----------------------------------------------------------------------------
(* The network and the broker.                                             *)

End == phase' = "none" /\ up' = <<>> /\ UNCHANGED broker

\* the broker takes a packet it has reason to expect
Take ==
    /\ up # <<>> /\ up' = Tail(up) /\ UNCHANGED phase
    /\ \/ Head(up) = "CONNECT" /\ broker = "new" /\ broker' = "connected"
       \/ Head(up) = "SUBSCRIBE" /\ broker = "connected" /\ broker' = "subscribed"
       \/ Head(up) \in {"PUBLISH", "PINGREQ"} /\ broker # "new" /\ UNCHANGED broker

Next ==
    \/ Open \/ Connect \/ Accept \/ Subscribe \/ Send \/ Bye
    \/ End \/ Take

Spec == Init /\ [][Next]_sessionVars

=============================================================================
