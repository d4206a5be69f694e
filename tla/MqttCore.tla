------------------------------ MODULE MqttCore ------------------------------
(***************************************************************************)
(* The MQTT client: mqtt_core/mqtt_core.c, mqtt_comm_bsd/mqtt_comm_layer.c *)
(* and the exchange buffer of src/mcc_generated_files/mqtt.                *)
(*                                                                         *)
(* A packet is its type and, for a CONNACK or SUBACK, its outcome; rxbuff  *)
(* is the sequence of packets in the receive exchange buffer.  Timers may  *)
(* expire at any time after they were created: how long they run does not  *)
(* matter to what is said here, only in which order things happen.  The    *)
(* keep-alive time is the configured one, which is not zero.               *)
(***************************************************************************)
EXTENDS BsdSocket

DISCONNECTED == 0
CONNECTING == 1
WAITFORCONNACK == 2
CONNECTED == 3

\* a mqttConnectCurrentTxSubstate, not a mqttCurrentState: as one it is
\* WAITFORCONNACK
SENDDISCONNECT == 2

VARIABLES
    mqttState,
    tx,         \* mqttTxFlags: the packets to be sent
    rx,         \* mqttRxFlags: the answers expected
    rxbuff,     \* mqttDataExchangeBuffers.rxbuff
    timeouts,   \* connackTimeoutOccured, pingreqTimeoutOccured, pingresp...
    running     \* which of connackTimer, pingreqTimer, pingrespTimer are

mqttVars == <<mqttState, tx, rx, rxbuff, timeouts, running>>

MqttTimer == {"connack", "pingreq", "pingresp"}

MqttInit ==
    /\ mqttState = DISCONNECTED /\ tx = {} /\ rx = {} /\ rxbuff = <<>>
    /\ timeouts = {} /\ running = {}

-----------------------------------------------------------------------------
(* The timer callbacks.                                                    *)

\* checkConnackTimeoutState stops the timer, the other two run again
TimerExpires(t) ==
    /\ t \in running
    /\ timeouts' = timeouts \cup {t}
    /\ running' = running \ ({t} \cap {"connack"})
    /\ UNCHANGED <<mqttState, tx, rx, rxbuff>>

-----------------------------------------------------------------------------
(* Creating packets.                                                       *)

\* mutant of CreateConnect: what was still to be sent is kept
ConnectAdded ==
    /\ tx' = tx \cup {"CONNECT"} /\ mqttState' = CONNECTING
    /\ UNCHANGED <<rx, rxbuff, timeouts, running>>

\* MQTT_CreateConnectPacket clears what was still to be sent
CreateConnect ==
    /\ tx' = {"CONNECT"} /\ mqttState' = CONNECTING
    /\ UNCHANGED <<rx, rxbuff, timeouts, running>>

\* MQTT_CreatePublishPacket and MQTT_CreateSubscribePacket: only when connected
Created(p) == IF mqttState = CONNECTED THEN tx \cup {p} ELSE tx

\* mutant of ClientInitialise: initialiseState is not called
InitialiseBuffers ==
    /\ rxbuff' = <<>>
    /\ UNCHANGED <<mqttState, tx, rx, timeouts, running>>

\* MQTT_ClientInitialise resets the state and both buffers, nothing else
ClientInitialise ==
    /\ mqttState' = DISCONNECTED /\ rxbuff' = <<>>
    /\ UNCHANGED <<tx, rx, timeouts, running>>

\* MQTT_GetReceivedData of the first k packets of down
GetReceivedData(k) ==
    /\ RecvData(k)
    /\ rxbuff' = SubSeq(down, 1, k)
    /\ UNCHANGED <<mqttState, tx, rx, timeouts, running>>

-----------------------------------------------------------------------------
(* MQTT_Disconnect.                                                        *)

\* the socket stays open; only pingreqTimer is deleted
Disconnect(ok) ==
    \/ /\ mqttState \in {CONNECTED, WAITFORCONNACK}
       /\ running' = running \ {"pingreq"}
       /\ rxbuff' = <<>>
       /\ tx' = IF Accepted(ok) THEN {} ELSE tx
       /\ mqttState' = DISCONNECTED
       /\ BSD_send("DISCONNECT", ok)
       /\ UNCHANGED <<rx, timeouts>>
    \/ /\ mqttState \in {DISCONNECTED, CONNECTING}
       /\ UNCHANGED <<mqttVars, bsdVars>>

-----------------------------------------------------------------------------
(* MQTT_TransmissionHandler.  Every send empties rxbuff first.             *)

SendConnect(ok) ==
    /\ mqttState \in {CONNECTING, DISCONNECTED} /\ "CONNECT" \in tx
    /\ rxbuff' = <<>>
    /\ BSD_send("CONNECT", ok)
    /\ \/ /\ Accepted(ok)
          /\ tx' = tx \ {"CONNECT"}
          /\ running' = running \cup {"connack"}
          /\ timeouts' = timeouts \ {"connack"}
          /\ mqttState' = WAITFORCONNACK
       \/ ~Accepted(ok) /\ UNCHANGED <<tx, running, timeouts, mqttState>>
    /\ UNCHANGED rx

\* mutant of SendPublish: the keep-alive timer is only deleted
SendPublishStops(ok) ==
    /\ mqttState = CONNECTED /\ "CONNECT" \notin tx /\ "PUBLISH" \in tx
    /\ rxbuff' = <<>>
    /\ BSD_send("PUBLISH", ok)
    /\ running' = running \ {"pingreq"}
    /\ \/ Accepted(ok) /\ tx' = tx \ {"PUBLISH"} /\ UNCHANGED mqttState
       \/ ~Accepted(ok) /\ mqttState' = DISCONNECTED /\ UNCHANGED tx
    /\ UNCHANGED <<rx, timeouts>>

\* a send that fails ends the MQTT connection, but not the TCP connection
SendPublish(ok) ==
    /\ mqttState = CONNECTED /\ "CONNECT" \notin tx /\ "PUBLISH" \in tx
    /\ rxbuff' = <<>>
    /\ BSD_send("PUBLISH", ok)
    /\ \/ /\ Accepted(ok)
          /\ tx' = tx \ {"PUBLISH"}
          /\ running' = running \cup {"pingreq"}
          /\ UNCHANGED mqttState
       \/ /\ ~Accepted(ok)
          /\ running' = running \ {"pingreq"}
          /\ mqttState' = DISCONNECTED
          /\ UNCHANGED tx
    /\ UNCHANGED <<rx, timeouts>>

SendSubscribe(ok) ==
    /\ mqttState = CONNECTED
    /\ tx \cap {"CONNECT", "PUBLISH"} = {} /\ "SUBSCRIBE" \in tx
    /\ rxbuff' = <<>>
    /\ BSD_send("SUBSCRIBE", ok)
    /\ running' = running \cup {"pingreq"}
    /\ \/ Accepted(ok) /\ tx' = tx \ {"SUBSCRIBE"} /\ rx' = rx \cup {"SUBACK"}
       \/ ~Accepted(ok) /\ UNCHANGED <<tx, rx>>
    /\ UNCHANGED <<mqttState, timeouts>>

SendPingreq(ok) ==
    /\ mqttState = CONNECTED /\ tx = {"PINGREQ"} /\ "pingreq" \in timeouts
    /\ timeouts' = timeouts \ {"pingreq"}
    /\ rxbuff' = <<>>
    /\ BSD_send("PINGREQ", ok)
    /\ \/ /\ Accepted(ok)
          /\ tx' = {} /\ rx' = rx \cup {"PINGRESP"}
          /\ running' = running \cup {"pingresp"}
       \/ ~Accepted(ok) /\ UNCHANGED <<tx, rx, running>>
    /\ UNCHANGED mqttState

\* nothing to send, no time to ping, or the state is not one that sends
SendNothing ==
    /\ \/ mqttState = WAITFORCONNACK
       \/ mqttState \in {CONNECTING, DISCONNECTED} /\ "CONNECT" \notin tx
       \/ mqttState = CONNECTED /\ (tx = {} \/ "CONNECT" \in tx)
       \/ mqttState = CONNECTED /\ tx = {"PINGREQ"} /\ "pingreq" \notin timeouts
    /\ UNCHANGED <<mqttVars, bsdVars>>

TransmissionHandler ==
    \/ \E ok \in Outcome :
          SendConnect(ok) \/ SendPublish(ok) \/ SendSubscribe(ok) \/ SendPingreq(ok)
    \/ SendNothing

-----------------------------------------------------------------------------
(* MQTT_ReceptionHandler.                                                  *)

\* a CONNACK in time is read off the buffer, what came with it stays there
ProcessConnack ==
    /\ mqttState = WAITFORCONNACK /\ "connack" \notin timeouts
    /\ rxbuff # <<>> /\ Head(rxbuff) \in {"CONNACK", "REFUSED"}
    /\ rxbuff' = Tail(rxbuff)
    /\ \/ /\ Head(rxbuff) = "CONNACK"
          /\ mqttState' = CONNECTED
          /\ tx' = tx \cup {"PINGREQ"}
          /\ running' = (running \ {"connack"}) \cup {"pingreq"}
       \/ /\ Head(rxbuff) = "REFUSED"
          /\ mqttState' = DISCONNECTED
          /\ running' = running \ {"connack"} /\ UNCHANGED tx
    /\ UNCHANGED <<rx, timeouts, bsdVars>>

\* another packet, or any packet too late: MQTT_Close
NoConnack ==
    /\ mqttState = WAITFORCONNACK /\ rxbuff # <<>>
    /\ \/ "connack" \in timeouts /\ UNCHANGED running
       \/ /\ "connack" \notin timeouts
          /\ Head(rxbuff) \notin {"CONNACK", "REFUSED"}
          /\ running' = running \ {"connack"}
    /\ mqttState' = DISCONNECTED
    /\ BSD_close
    /\ UNCHANGED <<tx, rx, rxbuff, timeouts>>

\* the next operators: the packet at the front of rxbuff when connected; once
\* processed, the buffer is re-initialised with all that is in it
Arrived(p) == mqttState = CONNECTED /\ rxbuff # <<>> /\ Head(rxbuff) = p

ProcessPingresp ==
    /\ Arrived("PINGRESP")
    /\ \/ /\ "PINGRESP" \in rx /\ "pingresp" \notin timeouts
          /\ running' = running \ {"pingresp"}
          /\ tx' = tx \cup {"PINGREQ"}
          /\ rxbuff' = <<>>
          /\ UNCHANGED mqttState
       \/ /\ "PINGRESP" \notin rx \/ "pingresp" \in timeouts
          /\ mqttState' = SENDDISCONNECT
          /\ UNCHANGED <<running, tx, rxbuff>>
    /\ UNCHANGED <<rx, timeouts, bsdVars>>

ProcessSuback ==
    /\ mqttState = CONNECTED /\ rxbuff # <<>> /\ Head(rxbuff) \in {"SUBACK", "SUBFAIL"}
    /\ \/ /\ "SUBACK" \in rx
          /\ mqttState' = IF Head(rxbuff) = "SUBACK" THEN CONNECTED ELSE DISCONNECTED
          /\ rx' = rx \ {"SUBACK"}
          /\ rxbuff' = <<>>
       \/ /\ "SUBACK" \notin rx
          /\ mqttState' = SENDDISCONNECT
          /\ UNCHANGED <<rx, rxbuff>>
    /\ UNCHANGED <<tx, timeouts, running, bsdVars>>

\* receivedFromCloud (main.c) answers every message with a PUBLISH of its own
ProcessPublish ==
    /\ Arrived("PUBLISH")
    /\ tx' = Created("PUBLISH")
    /\ rxbuff' = <<>>
    /\ UNCHANGED <<mqttState, rx, timeouts, running, bsdVars>>

ReceiveNothing ==
    /\ \/ rxbuff = <<>>
       \/ mqttState \in {CONNECTING, DISCONNECTED}
       \/ mqttState = CONNECTED /\ rxbuff # <<>> /\ Head(rxbuff) \in {"CONNACK", "REFUSED"}
    /\ UNCHANGED <<mqttVars, bsdVars>>

ReceptionHandler ==
    \/ ProcessConnack \/ NoConnack
    \/ ProcessPingresp \/ ProcessSuback \/ ProcessPublish
    \/ ReceiveNothing

MqttTypeOK ==
    /\ mqttState \in {DISCONNECTED, CONNECTING, WAITFORCONNACK, CONNECTED}
    /\ tx \subseteq {"CONNECT", "PUBLISH", "SUBSCRIBE", "PINGREQ"}
    /\ rx \subseteq {"SUBACK", "PINGRESP"}
    /\ rxbuff \in Seq(Reply)
    /\ timeouts \subseteq MqttTimer /\ running \subseteq MqttTimer

=============================================================================
