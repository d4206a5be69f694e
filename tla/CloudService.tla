---------------------------- MODULE CloudService ----------------------------
(***************************************************************************)
(* The connection manager: cloud/cloud_service.c, cloud/wifi_service.c and *)
(* what application_manager.c, cli.c and the user do to it, over the MQTT  *)
(* client and the socket; external, the access point, the WINC module and  *)
(* a broker that keeps to MQTT 3.1.1.                                      *)
(*                                                                         *)
(* Everything runs in main's super-loop: one callback at a time.  A        *)
(* callback is one action, except CLOUD_task, which is one action for each *)
(* of the functions it calls; pc is its place.  A timer is a member of     *)
(* timers from the create that starts it until it is deleted or its        *)
(* callback has run (TimeoutScheduler is what implements that).            *)
(***************************************************************************)
EXTENDS MqttCore

CONSTANTS
    UserActs,   \* TRUE: buttons are pressed, the CLI's reconnect is used
    NetFails,   \* TRUE: access point, lookup and TCP connection may fail
    Refuses     \* TRUE: the broker may refuse a CONNECT or a SUBSCRIBE

ASSUME CloudAssumption == {UserActs, NetFails, Refuses} \subseteq BOOLEAN

VARIABLES
    pc,                   \* where CLOUD_task is; "idle" between callbacks
    cloudInitialized, waitingForMQTT, isResetting, cloudResetTimerFlag,
    sendSubscribe, timeReady,   \* timeReady: time(NULL) > 0
    mqttGoogleApisComIP,  \* whether it is not 0
    haveAPConnection, amDisconnecting,
    timers,               \* mqttTimeoutTaskTimer, cloudResetTaskTimer, checkBackTimer
    wifi,                 \* external: the WINC module's Wi-Fi state
    dns,                  \* external: a host lookup is under way
    broker,               \* external: the broker's state for this connection
    phase                 \* ghost: what the client did on this TCP connection

cloudFlags == <<cloudInitialized, waitingForMQTT, isResetting, cloudResetTimerFlag>>
wifiVars == <<haveAPConnection, amDisconnecting, wifi, dns, mqttGoogleApisComIP, timeReady>>
cloudVars == <<pc, cloudFlags, sendSubscribe, timers, wifiVars, broker>>
vars == <<bsdVars, mqttVars, cloudVars, phase>>

Init ==
    /\ BsdInit /\ MqttInit
    /\ pc = "idle"
    /\ cloudInitialized = FALSE /\ waitingForMQTT = FALSE
    /\ isResetting = FALSE /\ cloudResetTimerFlag = FALSE
    /\ sendSubscribe = TRUE /\ timeReady = FALSE
    /\ mqttGoogleApisComIP = FALSE
    /\ haveAPConnection = FALSE /\ amDisconnecting = FALSE
    /\ timers = {} /\ wifi = "idle" /\ dns = FALSE
    /\ broker = "new" /\ phase = "none"

-----------------------------------------------------------------------------
(* The ghost: "none" without a connection, then "silent" until the client  *)
(* sends, "connect" after its CONNECT, "online" after the CONNACK it read, *)
(* "subscribed" after its SUBSCRIBE, "bye" after its DISCONNECT.           *)

Sends(p) == Len(up') > Len(up) /\ Last(up') = p

Phase ==
    IF tcp' # "open" THEN "none"
    ELSE IF tcp # "open" THEN "silent"
    ELSE CASE Sends("CONNECT")    -> "connect"
           [] Sends("SUBSCRIBE")  -> "subscribed"
           [] Sends("DISCONNECT") -> "bye"
           [] mqttState = WAITFORCONNACK /\ mqttState' = CONNECTED -> "online"
           [] OTHER -> phase

-----------------------------------------------------------------------------
(* CLOUD_task.                                                             *)

\* the two watchdogs: a reset 2 s from now, or 10 s to get connected
CloudTask ==
    /\ pc = "idle"
    /\ pc' = "link"
    /\ \/ /\ ~cloudInitialized /\ ~isResetting
          /\ isResetting' = TRUE /\ cloudResetTimerFlag' = TRUE
          /\ timers' = (timers \ {"mqttTimeout"}) \cup {"cloudReset"}
          /\ UNCHANGED waitingForMQTT
       \/ /\ cloudInitialized /\ ~waitingForMQTT
          /\ mqttState # CONNECTED /\ ~cloudResetTimerFlag
          /\ timers' = timers \cup {"mqttTimeout"}
          /\ waitingForMQTT' = TRUE
          /\ UNCHANGED <<isResetting, cloudResetTimerFlag>>
       \/ /\ IF cloudInitialized
             THEN waitingForMQTT \/ mqttState = CONNECTED \/ cloudResetTimerFlag
             ELSE isResetting
          /\ UNCHANGED <<timers, waitingForMQTT, isResetting, cloudResetTimerFlag>>
    /\ UNCHANGED <<bsdVars, mqttVars, cloudInitialized, sendSubscribe, wifiVars, broker>>

\* no access point: MQTT_Disconnect when connected
LostAP ==
    /\ pc = "link" /\ ~haveAPConnection
    /\ pc' = "idle"
    /\ IF mqttState = CONNECTED
       THEN \E ok \in Outcome : Disconnect(ok)
       ELSE UNCHANGED <<mqttVars, bsdVars>>
    /\ UNCHANGED <<cloudFlags, sendSubscribe, timers, wifiVars, broker>>

\* no socket: MQTT_ClientInitialise, connectMQTTSocket
OpenSocket ==
    /\ pc = "link" /\ haveAPConnection /\ socketState = "NOT_A_SOCKET"
    /\ pc' = "idle"
    /\ ClientInitialise
    /\ IF mqttGoogleApisComIP
       THEN \E ok \in Outcome : BSD_connect(ok)
       ELSE UNCHANGED bsdVars
    /\ UNCHANGED <<cloudFlags, sendSubscribe, timers, wifiVars, broker>>

AwaitSocket ==
    /\ pc = "link" /\ haveAPConnection /\ socketState = "SOCKET_IN_PROGRESS"
    /\ pc' = "idle"
    /\ UNCHANGED <<bsdVars, mqttVars, cloudFlags, sendSubscribe, timers, wifiVars, broker>>

\* mutant of ConnectMqtt: the subscription is not asked for again
ConnectMqttOnly ==
    /\ pc = "link" /\ haveAPConnection /\ socketState = "SOCKET_CONNECTED"
    /\ mqttState = DISCONNECTED
    /\ pc' = "idle"
    /\ IF timeReady THEN CreateConnect ELSE UNCHANGED mqttVars
    /\ UNCHANGED <<bsdVars, cloudFlags, sendSubscribe, timers, wifiVars, broker>>

\* connectMQTT: no CONNECT without a time for its token
ConnectMqtt ==
    /\ pc = "link" /\ haveAPConnection /\ socketState = "SOCKET_CONNECTED"
    /\ mqttState = DISCONNECTED
    /\ pc' = "idle"
    /\ IF timeReady THEN CreateConnect ELSE UNCHANGED mqttVars
    /\ sendSubscribe' = TRUE
    /\ UNCHANGED <<bsdVars, cloudFlags, timers, wifiVars, broker>>

Receive ==
    /\ pc = "link" /\ haveAPConnection /\ socketState = "SOCKET_CONNECTED"
    /\ mqttState # DISCONNECTED
    /\ pc' = "transmit"
    /\ ReceptionHandler
    /\ UNCHANGED <<cloudFlags, sendSubscribe, timers, wifiVars, broker>>

Transmit ==
    /\ pc = "transmit"
    /\ pc' = "after"
    /\ TransmissionHandler
    /\ UNCHANGED <<cloudFlags, sendSubscribe, timers, wifiVars, broker>>

\* BSD_recv after the handlers, not connected
AfterNotConnected ==
    /\ pc = "after" /\ mqttState # CONNECTED
    /\ pc' = "idle"
    /\ \E ok \in Outcome : sock' = Receiving(ok)
    /\ UNCHANGED <<socketState, tcp, up, down, mqttVars, cloudFlags, sendSubscribe,
                   timers, wifiVars, broker>>

\* mutant of StandDown: the connection timeout is not deleted
ResetDeleted == timers \ {"cloudReset"}

\* what is left of the timers once connected
StandDown == timers \ {"mqttTimeout", "cloudReset"}

\* BSD_recv, then both watchdogs are stopped and the subscription is created; a
\* connection older than an hour is given up
AfterConnected ==
    /\ pc = "after" /\ mqttState = CONNECTED
    /\ pc' = "idle"
    /\ timers' = StandDown
    /\ isResetting' = FALSE /\ waitingForMQTT' = FALSE
    /\ sendSubscribe' = FALSE
    /\ LET wanted == IF sendSubscribe THEN Created("SUBSCRIBE") ELSE tx
       IN  \/ /\ tx' = wanted
              /\ \E ok \in Outcome : sock' = Receiving(ok)
              /\ UNCHANGED <<socketState, tcp, up, down, mqttState, rx, rxbuff,
                             timeouts, running>>
           \/ /\ \E ok \in Outcome : tx' = IF Accepted(ok) THEN {} ELSE wanted
              /\ mqttState' = DISCONNECTED /\ rxbuff' = <<>>
              /\ running' = running \ {"pingreq"}
              /\ BSD_close
              /\ UNCHANGED <<rx, timeouts>>
    /\ UNCHANGED <<cloudInitialized, cloudResetTimerFlag, wifiVars, broker>>

-----------------------------------------------------------------------------
(* The timers' callbacks.                                                  *)

\* mutant of MqttTimeoutTask: no reset, the watchdog is only started again
TimeoutOnlyRearms ==
    /\ pc = "idle" /\ "mqttTimeout" \in timers
    /\ timers' = timers \ {"mqttTimeout"}
    /\ waitingForMQTT' = FALSE
    /\ UNCHANGED <<bsdVars, mqttVars, pc, cloudInitialized, isResetting,
                   cloudResetTimerFlag, sendSubscribe, wifiVars, broker>>

\* mqttTimeoutTask: CLOUD_reset
MqttTimeoutTask ==
    /\ pc = "idle" /\ "mqttTimeout" \in timers
    /\ timers' = timers \ {"mqttTimeout"}
    /\ cloudInitialized' = FALSE /\ waitingForMQTT' = FALSE
    /\ UNCHANGED <<bsdVars, mqttVars, pc, isResetting, cloudResetTimerFlag,
                   sendSubscribe, wifiVars, broker>>

\* mutant of ResetTimers: both watchdogs are stopped
ResetTimersStopped == timers \ {"cloudReset", "mqttTimeout"}

\* reInit stops the reset timer and gives the new start 10 s to get connected
ResetTimers == (timers \ {"cloudReset"}) \cup {"mqttTimeout"}

\* cloudResetTask: reInit restarts the WINC module and joins the access point
CloudResetTask ==
    /\ pc = "idle" /\ "cloudReset" \in timers
    /\ mqttGoogleApisComIP' = FALSE /\ haveAPConnection' = FALSE
    /\ isResetting' = FALSE
    /\ SocketReset /\ ClientInitialise
    /\ dns' = FALSE
    /\ \/ /\ cloudInitialized' = TRUE /\ wifi' = "joining"
          /\ timers' = ResetTimers
          /\ cloudResetTimerFlag' = FALSE /\ waitingForMQTT' = TRUE
       \/ /\ HifFails
          /\ cloudInitialized' = FALSE /\ wifi' = "idle"
          /\ timers' = timers \ {"cloudReset"}
          /\ waitingForMQTT' = FALSE /\ UNCHANGED cloudResetTimerFlag
    /\ UNCHANGED <<pc, sendSubscribe, amDisconnecting, timeReady, broker>>

\* 50 ms after the access point was lost
CheckBackTask ==
    /\ pc = "idle" /\ "checkBack" \in timers
    /\ timers' = timers \ {"checkBack"}
    /\ haveAPConnection' = FALSE /\ amDisconnecting' = FALSE
    /\ UNCHANGED <<bsdVars, mqttVars, pc, cloudFlags, sendSubscribe,
                   mqttGoogleApisComIP, timeReady, wifi, dns, broker>>

MqttTimerTask ==
    /\ pc = "idle"
    /\ \E t \in MqttTimer : TimerExpires(t)
    /\ UNCHANGED <<bsdVars, cloudVars>>

-----------------------------------------------------------------------------
(* wifiHandlerTask: the messages of the WINC module.                       *)

\* M2M_WIFI_RESP_CON_STATE_CHANGED, connected: wait for the DHCP address
WifiConnected ==
    /\ pc = "idle" /\ wifi = "joining" /\ wifi' = "joined"
    /\ UNCHANGED <<bsdVars, mqttVars, pc, cloudFlags, sendSubscribe, timers,
                   haveAPConnection, amDisconnecting, dns, mqttGoogleApisComIP,
                   timeReady, broker>>

\* the same, disconnected: amDisconnecting keeps wifiConnectionStateChanged, and
\* so CLOUD_reset, from being called.  The TCP connection goes with it.
WifiDisconnected ==
    /\ pc = "idle" /\ NetFails /\ wifi # "idle" /\ wifi' = "idle"
    /\ timers' = timers \cup {"checkBack"}   \* looks again in 50 ms
    /\ amDisconnecting' = TRUE
    /\ IF tcp = "open" THEN Drop ELSE UNCHANGED bsdVars
    /\ UNCHANGED <<mqttVars, pc, cloudFlags, sendSubscribe, haveAPConnection, dns,
                   mqttGoogleApisComIP, timeReady, broker>>

\* mutant of DhcpConf: the check 50 ms after a disconnect is left to run
DhcpConfKeepsCheck ==
    /\ pc = "idle" /\ wifi \in {"joined", "up"}
    /\ wifi' = "up" /\ dns' = TRUE /\ haveAPConnection' = TRUE
    /\ amDisconnecting' = FALSE
    /\ UNCHANGED <<bsdVars, mqttVars, pc, cloudFlags, sendSubscribe, timers,
                   mqttGoogleApisComIP, timeReady, broker>>

\* M2M_WIFI_REQ_DHCP_CONF, on joining and on every renewal: look up the broker
DhcpConf ==
    /\ pc = "idle" /\ wifi \in {"joined", "up"}
    /\ \/ /\ wifi' = "up" /\ dns' = TRUE /\ haveAPConnection' = TRUE
          /\ timers' = timers \ (IF amDisconnecting THEN {"checkBack"} ELSE {})
          /\ amDisconnecting' = FALSE
       \/ /\ HifFails /\ wifi' = "up"
          /\ UNCHANGED <<dns, haveAPConnection, timers, amDisconnecting>>
    /\ UNCHANGED <<bsdVars, mqttVars, pc, cloudFlags, sendSubscribe,
                   mqttGoogleApisComIP, timeReady, broker>>

\* dnsHandler: address 0, the failed lookup, is ignored and not tried again
DnsHandler ==
    /\ pc = "idle" /\ dns /\ dns' = FALSE
    /\ \/ mqttGoogleApisComIP' = TRUE
       \/ NetFails /\ UNCHANGED mqttGoogleApisComIP
    /\ UNCHANGED <<bsdVars, mqttVars, pc, cloudFlags, sendSubscribe, timers,
                   haveAPConnection, amDisconnecting, timeReady, wifi, broker>>

\* M2M_WIFI_RESP_GET_SYS_TIME
SysTime ==
    /\ pc = "idle" /\ wifi = "up" /\ ~timeReady /\ timeReady' = TRUE
    /\ UNCHANGED <<bsdVars, mqttVars, pc, cloudFlags, sendSubscribe, timers,
                   haveAPConnection, amDisconnecting, mqttGoogleApisComIP, wifi,
                   dns, broker>>

\* BSD_SocketHandler: the connect request is answered
SocketConnect ==
    /\ pc = "idle"
    /\ ConnectReply
    /\ \/ tcp' = "open" /\ broker' = "new"
       \/ NetFails /\ tcp' = "none" /\ UNCHANGED broker
    /\ UNCHANGED <<mqttVars, pc, cloudFlags, sendSubscribe, timers, wifiVars>>

\* BSD_SocketHandler: data, or the end of the connection
SocketRecv ==
    /\ pc = "idle"
    /\ \/ \E k \in 1 .. MaxDown : GetReceivedData(k)
       \/ RecvError /\ UNCHANGED mqttVars
    /\ UNCHANGED cloudVars

-----------------------------------------------------------------------------
(* The user: SW0 and the CLI's reconnect, SW1.                             *)

UserDisconnect ==
    /\ pc = "idle" /\ UserActs
    /\ \E ok \in Outcome : Disconnect(ok)
    /\ UNCHANGED cloudVars

PressSW1 ==
    /\ pc = "idle" /\ UserActs /\ ~haveAPConnection
    /\ haveAPConnection' = TRUE
    /\ UNCHANGED <<bsdVars, mqttVars, pc, cloudFlags, sendSubscribe, timers,
                   amDisconnecting, mqttGoogleApisComIP, timeReady, wifi, dns, broker>>

-----------------------------------------------------------------------------
(* External: the broker and the network.  They act between two callbacks,  *)
(* except that the broker may take a packet at any time: nothing else a    *)
(* callback reads could show that they acted in the middle.                *)

Answers(p) ==
    IF p = "CONNECT" THEN {"CONNACK"} \cup IF Refuses THEN {"REFUSED"} ELSE {}
    ELSE IF p = "SUBSCRIBE" THEN {"SUBACK"} \cup IF Refuses THEN {"SUBFAIL"} ELSE {}
    ELSE {"PINGRESP"}

\* a first packet that is no CONNECT, a second CONNECT and a DISCONNECT end the
\* connection; a refusal is sent before it ends
BrokerTakes ==
    /\ tcp = "open" /\ up # <<>>
    /\ \/ /\ \/ Head(up) = "DISCONNECT"
             \/ (Head(up) = "CONNECT") # (broker = "new")
          /\ Drop /\ UNCHANGED broker
       \/ /\ Head(up) = "PUBLISH" /\ broker # "new"
          /\ up' = Tail(up)
          /\ UNCHANGED <<socketState, sock, tcp, down, broker>>
       \/ /\ Head(up) \in {"CONNECT", "SUBSCRIBE", "PINGREQ"}
          /\ (Head(up) = "CONNECT") = (broker = "new")
          /\ Len(down) < MaxDown
          /\ \E a \in Answers(Head(up)) :
                /\ down' = Append(down, a)
                /\ tcp' = IF a = "REFUSED" THEN "lost" ELSE tcp
                /\ up' = IF a = "REFUSED" THEN <<>> ELSE Tail(up)
                /\ broker' = CASE a = "SUBACK" -> "subscribed"
                               [] a = "CONNACK" -> "connected"
                               [] OTHER -> broker
          /\ UNCHANGED <<socketState, sock>>
    /\ UNCHANGED <<mqttVars, pc, cloudFlags, sendSubscribe, timers, wifiVars>>

BrokerPublish ==
    /\ pc = "idle" /\ tcp = "open" /\ broker = "subscribed" /\ Len(down) < MaxDown
    /\ down' = Append(down, "PUBLISH")
    /\ UNCHANGED <<socketState, sock, tcp, up, mqttVars, cloudVars>>

ConnectionLost ==
    /\ pc = "idle" /\ NetFails /\ tcp = "open" /\ Drop
    /\ UNCHANGED <<mqttVars, cloudVars>>

-----------------------------------------------------------------------------

CloudSteps ==
    \/ LostAP \/ OpenSocket \/ AwaitSocket \/ ConnectMqtt
    \/ Receive \/ Transmit \/ AfterNotConnected \/ AfterConnected

WincMessage ==
    \/ WifiConnected \/ DhcpConf \/ DnsHandler \/ SysTime
    \/ SocketConnect \/ SocketRecv

Next ==
    /\ \/ CloudTask \/ CloudSteps
       \/ MqttTimeoutTask \/ CloudResetTask \/ CheckBackTask \/ MqttTimerTask
       \/ WincMessage \/ WifiDisconnected
       \/ UserDisconnect \/ PressSW1
       \/ BrokerTakes \/ BrokerPublish \/ ConnectionLost
    /\ phase' = Phase

Spec == Init /\ [][Next]_vars

\* main's super-loop runs CLOUD_task for ever, and no timer stays started for
\* ever: it is deleted or its callback runs.  The scheduler promises that unless main
\* keeps restarting its counter, which is assumed not to happen.
TimerFair == \A t \in {"mqttTimeout", "cloudReset", "checkBack"} : []<>(t \notin timers)

FairSpec ==
    /\ Spec
    /\ WF_pc(CloudTask) /\ WF_pc(CloudSteps)
    /\ TimerFair

-----------------------------------------------------------------------------
(* Properties.                                                             *)

TypeOK ==
    /\ BsdTypeOK /\ MqttTypeOK
    /\ pc \in {"idle", "link", "transmit", "after"}
    /\ {cloudInitialized, waitingForMQTT, isResetting, cloudResetTimerFlag,
        sendSubscribe, timeReady, mqttGoogleApisComIP, haveAPConnection,
        amDisconnecting, dns} \subseteq BOOLEAN
    /\ timers \subseteq {"mqttTimeout", "cloudReset", "checkBack"}
    /\ wifi \in {"idle", "joining", "joined", "up"}
    /\ broker \in {"new", "connected", "subscribed"}
    /\ phase \in {"none", "silent", "connect", "online", "subscribed", "bye"}

\* The flags that keep CLOUD_task from starting a watchdog again are only set
\* while that watchdog runs: with waitingForMQTT the 10 s one, with isResetting
\* the reset.  Otherwise the device would wait for a timeout that never comes.
Watched ==
    /\ cloudInitialized /\ waitingForMQTT => "mqttTimeout" \in timers
    /\ isResetting => "cloudReset" \in timers

\* A watchdog never bites a working connection: between callbacks, when MQTT is
\* connected, neither is running, whatever was cancelled, restarted or failed.
ConnectedUnwatched ==
    pc = "idle" /\ mqttState = CONNECTED =>
        timers \cap {"mqttTimeout", "cloudReset"} = {} /\ ~waitingForMQTT /\ ~isResetting

\* The MQTT state never outlives its connection by more than the close the next
\* CLOUD_task notices: a client that is not DISCONNECTED has the open socket or
\* NOT_A_SOCKET, never one whose connect is still under way.
SocketAgrees ==
    mqttState # DISCONNECTED => socketState # "SOCKET_IN_PROGRESS" /\ tcp # "opening"

\* "Are we supposed to call close on the socket here to ensure we do not leak?"
\* (cloud_service.c:210): no, when there is NOT_A_SOCKET none is allocated.
NoLeak == socketState = "NOT_A_SOCKET" => sock = "free"

\* A connected client has its keep-alive timer running: nothing that restarts
\* the timer leaves it stopped.
KeepsAlive == mqttState = CONNECTED => "pingreq" \in running

\* No connection without its subscription: whenever MQTT is connected between
\* callbacks, the SUBSCRIBE was sent on this TCP connection or is to be sent,
\* also when an earlier one was lost with its connection.
Subscribes ==
    pc = "idle" /\ mqttState = CONNECTED /\ tcp = "open" =>
        "SUBSCRIBE" \in tx \/ phase = "subscribed"

\* The first packet of a TCP connection is a CONNECT (MQTT-3.1.0-1), whatever
\* was left to be sent on the previous one.
ConnectFirst ==
    [][Len(up') > Len(up) /\ phase = "silent" => Last(up') = "CONNECT"]_vars

\* What the device believes of its access point: it has one, or it lost it and
\* the check that will find out is pending; never both, so that a check from
\* before does not end a connection that is back.  (Not with SW1, which claims a
\* connection without looking, nor when the lookup cannot be requested.)
LinkKnown == haveAPConnection => (wifi = "up") # ("checkBack" \in timers)

\* On every TCP connection the device and the broker are a session of MQTT as
\* MqttSession describes it, through lost connections, lost access points,
\* restarts of the module and late or missing answers.
Session == INSTANCE MqttSession
Sessions == Session!Spec

\* "complies with [mqtt-v3.1.1-plus-errata01]" (mqtt_core.c:29): one CONNECT on
\* a network connection (MQTT-3.1.0-2).
OneConnect == [][Sends("CONNECT") => phase = "silent"]_vars

\* "Re-initialise the RX exchange buffer to be able to process the next incoming
\* MQTT packet" (mqtt_core.c:642): a handler takes one packet off the buffer.
NoneDropped ==
    [][pc = "link" /\ mqttState = CONNECTED /\ mqttState' = CONNECTED
       /\ rxbuff # <<>> => Len(rxbuff') >= Len(rxbuff) - 1]_vars

\* "the client waits for 30s after transmission of PINGREQ packet to receive a
\* PINGRESP packet" (mqtt_core.c:340): when a PINGREQ goes out, its 30 s are not
\* already over.  The code violates it: pingrespTimeoutOccured is never cleared.
PingWaits == [][Sends("PINGREQ") => "pingresp" \notin timeouts']_vars

\* Whatever fails, the device does not hang: again and again it is connected, or
\* restarts its WINC module to try anew.
Recovers == []<>(mqttState = CONNECTED) \/ []<><<CloudResetTask>>_vars

\* A CONNACK that never comes is not waited for for ever, although the client
\* looks at connackTimeoutOccured only when a packet arrives: the connection
\* manager's timeout ends the wait.
ConnackAwaited == mqttState = WAITFORCONNACK ~> mqttState # WAITFORCONNACK

=============================================================================
