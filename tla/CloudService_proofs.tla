------------------------- MODULE CloudService_proofs -------------------------
(***************************************************************************)
(* Theorems about CloudService, for every bound and with every failure     *)
(* allowed: its type invariant, the watchdogs, the socket's agreement with *)
(* MQTT, that a connection starts with a CONNECT and has its subscription; *)
(* and, undisturbed, that it implements MqttSession.                       *)
(*                                                                         *)
(* One inductive invariant carries the first, IInv.  What it adds to the   *)
(* properties is where a connect request can be under way (Opening) and    *)
(* which MQTT states a silent connection has (SilentBefore).  The          *)
(* subscription needs to know that a connection has one CONNACK (Answered) *)
(* and the refinement what is on its way to the broker (SInv).             *)
(***************************************************************************)
EXTENDS CloudService, SequenceTheorems, TLAPS

\* A connect request is under way exactly when the adapter says so; then no
\* receive was asked for, and CLOUD_task is not in the middle of its handlers.
Opening ==
    /\ tcp = "opening" <=> socketState = "SOCKET_IN_PROGRESS"
    /\ tcp = "opening" => sock = "used" /\ pc \notin {"transmit", "after"}

\* amDisconnecting is set exactly while checkBackTimer runs.
CheckBackRight == amDisconnecting <=> "checkBack" \in timers

\* Watchdogs, timers, socket and MQTT state agree.
Safe ==
    /\ Opening /\ Watched /\ CheckBackRight /\ NoLeak /\ KeepsAlive
    /\ SocketAgrees /\ ConnectedUnwatched

\* Nobody has sent anything on a connection whose client has not sent CONNECT.
SilentBefore ==
    /\ phase # "none" => tcp = "open"
    /\ phase = "silent" => mqttState \in {DISCONNECTED, CONNECTING}

IInv == TypeOK /\ Safe /\ SilentBefore

\* what an action that leaves a group of variables alone leaves alone
USE DEF vars, bsdVars, mqttVars, cloudVars, cloudFlags, wifiVars,
        DISCONNECTED, CONNECTING, WAITFORCONNACK, CONNECTED, SENDDISCONNECT

LEMMA InitIInv == Init => IInv
<1> SUFFICES ASSUME Init PROVE IInv
  OBVIOUS
<1> USE DEF Init, BsdInit, MqttInit
<1>1. BsdTypeOK
  BY DEF BsdTypeOK
<1>2. MqttTypeOK
  BY DEF MqttTypeOK
<1>3. TypeOK
  BY <1>1, <1>2 DEF TypeOK
<1>4. Opening /\ Watched /\ CheckBackRight /\ NoLeak
  BY DEF Opening, Watched, CheckBackRight, NoLeak
<1>5. KeepsAlive /\ SocketAgrees /\ ConnectedUnwatched
  BY DEF KeepsAlive, SocketAgrees, ConnectedUnwatched
<1>6. Safe
  BY <1>4, <1>5 DEF Safe
<1>7. SilentBefore
  BY DEF SilentBefore
<1>8. QED
  BY <1>3, <1>6, <1>7 DEF IInv

-----------------------------------------------------------------------------
(* Types.                                                                  *)

LEMMA NoReplies == <<>> \in Seq(Reply)
  OBVIOUS

LEMMA SendTypes ==
    ASSUME BsdTypeOK, NEW p \in Packet, NEW ok, BSD_send(p, ok)
    PROVE  BsdTypeOK'
<1>1. Append(up, p) \in Seq(Packet)
  BY AppendProperties DEF BsdTypeOK
<1>2. up' \in Seq(Packet)
  BY <1>1 DEF BSD_send, BsdTypeOK
<1>3. QED
  BY <1>2 DEF BSD_send, BsdTypeOK

LEMMA CloseTypes == BSD_close => BsdTypeOK'
  BY DEF BSD_close, BsdTypeOK

LEMMA ConnectTypes == ASSUME NEW ok, BSD_connect(ok) PROVE BsdTypeOK'
<1>1. CASE BSD_close
  BY <1>1, CloseTypes
<1>2. CASE ok /\ ~BSD_close
  BY <1>2 DEF BSD_connect, BsdTypeOK
<1>3. QED
  BY <1>1, <1>2 DEF BSD_connect

LEMMA UnchangedTypes == BsdTypeOK /\ UNCHANGED bsdVars => BsdTypeOK'
  BY DEF BsdTypeOK

LEMMA ConnectReplyTypes == BsdTypeOK /\ ConnectReply => BsdTypeOK'
<1>1. CASE BSD_close
  BY <1>1, CloseTypes
<1>2. CASE ~BSD_close
  BY <1>2 DEF ConnectReply, BsdTypeOK
<1>3. QED
  BY <1>1, <1>2

LEMMA RecvDataTypes ==
    ASSUME BsdTypeOK, MqttTypeOK, NEW k, GetReceivedData(k)
    PROVE  BsdTypeOK' /\ MqttTypeOK'
<1>1. down \in Seq(Reply) /\ Len(down) \in Nat /\ k \in 1 .. Len(down)
  BY LenProperties DEF BsdTypeOK, GetReceivedData, RecvData
<1>2. \A i \in 1 .. Len(down) : down[i] \in Reply
  BY <1>1, ElementOfSeq
<1>3. SubSeq(down, k + 1, Len(down)) \in Seq(Reply)
  BY <1>1, <1>2, SubSeqProperties
<1>4. SubSeq(down, 1, k) \in Seq(Reply)
  BY <1>1, <1>2, SubSeqProperties
<1>5. BsdTypeOK'
  BY <1>3 DEF GetReceivedData, RecvData, BsdTypeOK
<1>6. MqttTypeOK'
  BY <1>4 DEF GetReceivedData, MqttTypeOK
<1>7. QED
  BY <1>5, <1>6

LEMMA DropTypes == BsdTypeOK /\ Drop => BsdTypeOK'
  BY DEF Drop, BsdTypeOK

LEMMA CreateTypes ==
    /\ MqttTypeOK /\ CreateConnect => MqttTypeOK'
    /\ MqttTypeOK /\ ClientInitialise => MqttTypeOK'
    /\ MqttTypeOK /\ UNCHANGED mqttVars => MqttTypeOK'
<1>1. MqttTypeOK /\ CreateConnect => MqttTypeOK'
  BY DEF CreateConnect, MqttTypeOK
<1>2. MqttTypeOK /\ ClientInitialise => MqttTypeOK'
  BY DEF ClientInitialise, MqttTypeOK
<1>3. MqttTypeOK /\ UNCHANGED mqttVars => MqttTypeOK'
  BY DEF MqttTypeOK
<1>4. QED
  BY <1>1, <1>2, <1>3

LEMMA DisconnectTypes ==
    ASSUME BsdTypeOK, MqttTypeOK, NEW ok, Disconnect(ok)
    PROVE  BsdTypeOK' /\ MqttTypeOK'
<1>1. CASE BSD_send("DISCONNECT", ok)
  <2>1. BsdTypeOK'
    BY <1>1, SendTypes DEF Packet
  <2>2. MqttTypeOK'
    BY NoReplies DEF Disconnect, MqttTypeOK
  <2>3. QED
    BY <2>1, <2>2
<1>2. CASE UNCHANGED <<mqttVars, bsdVars>>
  BY <1>2 DEF BsdTypeOK, MqttTypeOK
<1>3. QED
  BY <1>1, <1>2 DEF Disconnect

LEMMA TransmissionTypes ==
    ASSUME BsdTypeOK, MqttTypeOK, TransmissionHandler
    PROVE  BsdTypeOK' /\ MqttTypeOK'
<1>1. ASSUME NEW ok \in Outcome, SendConnect(ok)
      PROVE  BsdTypeOK' /\ MqttTypeOK'
  <2>1. BsdTypeOK'
    BY <1>1, SendTypes DEF SendConnect, Packet
  <2>2. MqttTypeOK'
    BY <1>1, NoReplies DEF SendConnect, MqttTypeOK, MqttTimer
  <2>3. QED
    BY <2>1, <2>2
<1>2. ASSUME NEW ok \in Outcome, SendPublish(ok)
      PROVE  BsdTypeOK' /\ MqttTypeOK'
  <2>1. BsdTypeOK'
    BY <1>2, SendTypes DEF SendPublish, Packet
  <2>2. MqttTypeOK'
    BY <1>2, NoReplies DEF SendPublish, MqttTypeOK, MqttTimer
  <2>3. QED
    BY <2>1, <2>2
<1>3. ASSUME NEW ok \in Outcome, SendSubscribe(ok)
      PROVE  BsdTypeOK' /\ MqttTypeOK'
  <2>1. BsdTypeOK'
    BY <1>3, SendTypes DEF SendSubscribe, Packet
  <2>2. MqttTypeOK'
    BY <1>3, NoReplies DEF SendSubscribe, MqttTypeOK, MqttTimer
  <2>3. QED
    BY <2>1, <2>2
<1>4. ASSUME NEW ok \in Outcome, SendPingreq(ok)
      PROVE  BsdTypeOK' /\ MqttTypeOK'
  <2>1. BsdTypeOK'
    BY <1>4, SendTypes DEF SendPingreq, Packet
  <2>2. MqttTypeOK'
    BY <1>4, NoReplies DEF SendPingreq, MqttTypeOK, MqttTimer
  <2>3. QED
    BY <2>1, <2>2
<1>5. CASE SendNothing
  BY <1>5 DEF SendNothing, BsdTypeOK, MqttTypeOK
<1>6. QED
  BY <1>1, <1>2, <1>3, <1>4, <1>5 DEF TransmissionHandler

LEMMA ReceptionTypes ==
    ASSUME BsdTypeOK, MqttTypeOK, ReceptionHandler
    PROVE  BsdTypeOK' /\ MqttTypeOK'
<1>1. CASE ProcessConnack
  <2>1. Tail(rxbuff) \in Seq(Reply)
    BY <1>1, HeadTailProperties DEF ProcessConnack, MqttTypeOK
  <2>2. QED
    BY <1>1, <2>1 DEF ProcessConnack, MqttTypeOK, BsdTypeOK, MqttTimer
<1>2. CASE NoConnack
  BY <1>2, CloseTypes DEF NoConnack, MqttTypeOK
<1>3. CASE ProcessPingresp
  BY <1>3, NoReplies DEF ProcessPingresp, MqttTypeOK, BsdTypeOK
<1>4. CASE ProcessSuback
  BY <1>4, NoReplies DEF ProcessSuback, MqttTypeOK, BsdTypeOK
<1>5. CASE ProcessPublish
  BY <1>5, NoReplies DEF ProcessPublish, Created, MqttTypeOK, BsdTypeOK
<1>6. CASE ReceiveNothing
  BY <1>6 DEF ReceiveNothing, MqttTypeOK, BsdTypeOK
<1>7. QED
  BY <1>1, <1>2, <1>3, <1>4, <1>5, <1>6 DEF ReceptionHandler

-----------------------------------------------------------------------------
(* Steps.                                                                  *)

LEMMA ReceiveSafe == ASSUME TypeOK, Safe, Receive PROVE Safe'
<1> USE DEF Safe, Opening, Watched, CheckBackRight, NoLeak, KeepsAlive,
            SocketAgrees, ConnectedUnwatched, Receive
<1>1. CASE ProcessConnack
  BY <1>1 DEF ProcessConnack
<1>2. CASE NoConnack
  BY <1>2 DEF NoConnack, BSD_close
<1>3. CASE ProcessPingresp
  BY <1>3 DEF ProcessPingresp, Arrived
<1>4. CASE ProcessSuback
  BY <1>4 DEF ProcessSuback
<1>5. CASE ProcessPublish
  BY <1>5 DEF ProcessPublish, Arrived
<1>6. CASE ReceiveNothing
  BY <1>6 DEF ReceiveNothing
<1>7. QED
  BY <1>1, <1>2, <1>3, <1>4, <1>5, <1>6 DEF ReceptionHandler

LEMMA TransmitSafe == ASSUME TypeOK, Safe, Transmit PROVE Safe'
<1> USE DEF Safe, Opening, Watched, CheckBackRight, NoLeak, KeepsAlive,
            SocketAgrees, ConnectedUnwatched, Transmit, BSD_send
<1>1. ASSUME NEW ok \in Outcome, SendConnect(ok) PROVE Safe'
  BY <1>1 DEF SendConnect
<1>2. ASSUME NEW ok \in Outcome, SendPublish(ok) PROVE Safe'
  BY <1>2 DEF SendPublish
<1>3. ASSUME NEW ok \in Outcome, SendSubscribe(ok) PROVE Safe'
  BY <1>3 DEF SendSubscribe
<1>4. ASSUME NEW ok \in Outcome, SendPingreq(ok) PROVE Safe'
  BY <1>4 DEF SendPingreq
<1>5. CASE SendNothing
  BY <1>5 DEF SendNothing
<1>6. QED
  BY <1>1, <1>2, <1>3, <1>4, <1>5 DEF TransmissionHandler

LEMMA StepSafe == ASSUME TypeOK, Safe, Next PROVE Safe'
<1> USE DEF Safe, Opening, Watched, CheckBackRight, NoLeak, KeepsAlive,
            SocketAgrees, ConnectedUnwatched, TypeOK, BsdTypeOK, MqttTypeOK
<1>1. CASE CloudTask
  BY <1>1 DEF CloudTask
<1>2. CASE LostAP
  BY <1>2 DEF LostAP, Disconnect, BSD_send
<1>3. CASE OpenSocket
  BY <1>3 DEF OpenSocket, ClientInitialise, BSD_connect, BSD_close
<1>4. CASE AwaitSocket
  BY <1>4 DEF AwaitSocket
<1>5. CASE ConnectMqtt
  BY <1>5 DEF ConnectMqtt, CreateConnect
<1>6. CASE Receive
  BY <1>6, ReceiveSafe
<1>7. CASE Transmit
  BY <1>7, TransmitSafe
<1>8. CASE AfterNotConnected
  BY <1>8 DEF AfterNotConnected, Receiving
<1>9. CASE AfterConnected
  BY <1>9 DEF AfterConnected, StandDown, Created, Receiving, BSD_close
<1>10. CASE MqttTimeoutTask
  BY <1>10 DEF MqttTimeoutTask
<1>11. CASE CloudResetTask
  BY <1>11 DEF CloudResetTask, SocketReset, BSD_close, ClientInitialise, ResetTimers
<1>12. CASE CheckBackTask
  BY <1>12 DEF CheckBackTask
<1>13. CASE MqttTimerTask
  BY <1>13 DEF MqttTimerTask, TimerExpires, MqttTimer
<1>14. CASE WifiConnected
  BY <1>14 DEF WifiConnected
<1>15. CASE DhcpConf
  BY <1>15 DEF DhcpConf
<1>16. CASE DnsHandler
  BY <1>16 DEF DnsHandler
<1>17. CASE SysTime
  BY <1>17 DEF SysTime
<1>18. CASE SocketConnect
  BY <1>18 DEF SocketConnect, ConnectReply, BSD_close
<1>19. CASE SocketRecv
  BY <1>19 DEF SocketRecv, GetReceivedData, RecvData, RecvError, BSD_close
<1>20. CASE WifiDisconnected
  BY <1>20 DEF WifiDisconnected, Drop
<1>21. CASE UserDisconnect
  BY <1>21 DEF UserDisconnect, Disconnect, BSD_send
<1>22. CASE PressSW1
  BY <1>22 DEF PressSW1
<1>23. CASE BrokerTakes
  BY <1>23 DEF BrokerTakes, Drop
<1>24. CASE BrokerPublish
  BY <1>24 DEF BrokerPublish
<1>25. CASE ConnectionLost
  BY <1>25 DEF ConnectionLost, Drop
<1>26. QED
  BY <1>1, <1>2, <1>3, <1>4, <1>5, <1>6, <1>7, <1>8, <1>9, <1>10,
     <1>11, <1>12, <1>13, <1>14, <1>15, <1>16, <1>17, <1>18, <1>19,
     <1>20, <1>21, <1>22, <1>23, <1>24, <1>25
     DEF Next, CloudSteps, WincMessage

LEMMA PhaseTypes == ASSUME TypeOK, phase' = Phase PROVE
    phase' \in {"none", "silent", "connect", "online", "subscribed", "bye"}
  BY DEF TypeOK, Phase

\* the part of TypeOK about CloudService's own variables
CloudTypeOK ==
    /\ pc \in {"idle", "link", "transmit", "after"}
    /\ {cloudInitialized, waitingForMQTT, isResetting, cloudResetTimerFlag,
        sendSubscribe, timeReady, mqttGoogleApisComIP, haveAPConnection,
        amDisconnecting, dns} \subseteq BOOLEAN
    /\ timers \subseteq {"mqttTimeout", "cloudReset", "checkBack"}
    /\ wifi \in {"idle", "joining", "joined", "up"}
    /\ broker \in {"new", "connected", "subscribed"}

LEMMA NextTypes == ASSUME TypeOK, Next PROVE CloudTypeOK'
<1> USE DEF TypeOK, CloudTypeOK
<1>1. CASE CloudTask
  BY <1>1 DEF CloudTask
<1>2. CASE LostAP
  BY <1>2 DEF LostAP
<1>3. CASE OpenSocket
  BY <1>3 DEF OpenSocket
<1>4. CASE AwaitSocket
  BY <1>4 DEF AwaitSocket
<1>5. CASE ConnectMqtt
  BY <1>5 DEF ConnectMqtt
<1>6. CASE Receive
  BY <1>6 DEF Receive
<1>7. CASE Transmit
  BY <1>7 DEF Transmit
<1>8. CASE AfterNotConnected
  BY <1>8 DEF AfterNotConnected
<1>9. CASE AfterConnected
  BY <1>9 DEF AfterConnected, StandDown
<1>10. CASE MqttTimeoutTask
  BY <1>10 DEF MqttTimeoutTask
<1>11. CASE CloudResetTask
  BY <1>11 DEF CloudResetTask, ResetTimers
<1>12. CASE CheckBackTask
  BY <1>12 DEF CheckBackTask
<1>13. CASE MqttTimerTask
  BY <1>13 DEF MqttTimerTask
<1>14. CASE WifiConnected
  BY <1>14 DEF WifiConnected
<1>15. CASE DhcpConf
  BY <1>15 DEF DhcpConf
<1>16. CASE DnsHandler
  BY <1>16 DEF DnsHandler
<1>17. CASE SysTime
  BY <1>17 DEF SysTime
<1>18. CASE SocketConnect
  BY <1>18 DEF SocketConnect
<1>19. CASE SocketRecv
  BY <1>19 DEF SocketRecv
<1>20. CASE WifiDisconnected
  BY <1>20 DEF WifiDisconnected
<1>21. CASE UserDisconnect
  BY <1>21 DEF UserDisconnect
<1>22. CASE PressSW1
  BY <1>22 DEF PressSW1
<1>23. CASE BrokerTakes
  BY <1>23 DEF BrokerTakes
<1>24. CASE BrokerPublish
  BY <1>24 DEF BrokerPublish
<1>25. CASE ConnectionLost
  BY <1>25 DEF ConnectionLost
<1>26. QED
  BY <1>1, <1>2, <1>3, <1>4, <1>5, <1>6, <1>7, <1>8, <1>9, <1>10,
     <1>11, <1>12, <1>13, <1>14, <1>15, <1>16, <1>17, <1>18, <1>19,
     <1>20, <1>21, <1>22, <1>23, <1>24, <1>25
     DEF Next, CloudSteps, WincMessage

LEMMA StepTypes == ASSUME TypeOK, Next PROVE BsdTypeOK' /\ MqttTypeOK'
<1> USE DEF TypeOK
<1>1. CASE CloudTask
  BY <1>1, UnchangedTypes, CreateTypes DEF CloudTask
<1>2. CASE LostAP
  BY <1>2, DisconnectTypes, UnchangedTypes, CreateTypes DEF LostAP
<1>3. CASE OpenSocket
  BY <1>3, ConnectTypes, UnchangedTypes, CreateTypes DEF OpenSocket
<1>4. CASE AwaitSocket
  BY <1>4, UnchangedTypes, CreateTypes DEF AwaitSocket
<1>5. CASE ConnectMqtt
  BY <1>5, UnchangedTypes, CreateTypes DEF ConnectMqtt
<1>6. CASE Receive
  BY <1>6, ReceptionTypes DEF Receive
<1>7. CASE Transmit
  BY <1>7, TransmissionTypes DEF Transmit
<1>8. CASE AfterNotConnected
  BY <1>8 DEF AfterNotConnected, Receiving, BsdTypeOK, MqttTypeOK
<1>9. CASE AfterConnected
  BY <1>9, NoReplies, CloseTypes
     DEF AfterConnected, Receiving, Created, BsdTypeOK, MqttTypeOK
<1>10. CASE MqttTimeoutTask
  BY <1>10, UnchangedTypes, CreateTypes DEF MqttTimeoutTask
<1>11. CASE CloudResetTask
  BY <1>11, CloseTypes, CreateTypes DEF CloudResetTask, SocketReset
<1>12. CASE CheckBackTask
  BY <1>12, UnchangedTypes, CreateTypes DEF CheckBackTask
<1>13. CASE MqttTimerTask
  BY <1>13 DEF MqttTimerTask, TimerExpires, BsdTypeOK, MqttTypeOK
<1>14. CASE WifiConnected
  BY <1>14, UnchangedTypes, CreateTypes DEF WifiConnected
<1>15. CASE DhcpConf
  BY <1>15, UnchangedTypes, CreateTypes DEF DhcpConf
<1>16. CASE DnsHandler
  BY <1>16, UnchangedTypes, CreateTypes DEF DnsHandler
<1>17. CASE SysTime
  BY <1>17, UnchangedTypes, CreateTypes DEF SysTime
<1>18. CASE SocketConnect
  BY <1>18, ConnectReplyTypes, CreateTypes DEF SocketConnect
<1>19. CASE SocketRecv
  BY <1>19, RecvDataTypes, CloseTypes, CreateTypes DEF SocketRecv, RecvError
<1>20. CASE WifiDisconnected
  BY <1>20, DropTypes, UnchangedTypes, CreateTypes DEF WifiDisconnected
<1>21. CASE UserDisconnect
  BY <1>21, DisconnectTypes, UnchangedTypes, CreateTypes DEF UserDisconnect
<1>22. CASE PressSW1
  BY <1>22, UnchangedTypes, CreateTypes DEF PressSW1
<1>23. CASE BrokerTakes
  <2>1. Tail(up) \in Seq(Packet)
    BY <1>23, HeadTailProperties DEF BrokerTakes, BsdTypeOK
  <2>2. \A a \in Reply : Append(down, a) \in Seq(Reply)
    BY AppendProperties DEF BsdTypeOK
  <2>3. \A p : Answers(p) \subseteq Reply
    BY DEF Answers, Reply
  <2>4. <<>> \in Seq(Packet)
    OBVIOUS
  <2>5. BsdTypeOK'
    <3>1. CASE Drop
      BY <3>1, DropTypes
    <3>2. CASE ~Drop
      BY <1>23, <2>1, <2>2, <2>3, <2>4, <3>2 DEF BrokerTakes, BsdTypeOK
    <3>3. QED
      BY <3>1, <3>2
  <2>6. MqttTypeOK'
    BY <1>23, CreateTypes DEF BrokerTakes
  <2>7. QED
    BY <2>5, <2>6
<1>24. CASE BrokerPublish
  <2>1. Append(down, "PUBLISH") \in Seq(Reply)
    BY AppendProperties DEF BsdTypeOK, Reply
  <2>2. QED
    BY <1>24, <2>1 DEF BrokerPublish, BsdTypeOK, MqttTypeOK
<1>25. CASE ConnectionLost
  BY <1>25, DropTypes, CreateTypes DEF ConnectionLost
<1>26. QED
  BY <1>1, <1>2, <1>3, <1>4, <1>5, <1>6, <1>7, <1>8, <1>9, <1>10,
     <1>11, <1>12, <1>13, <1>14, <1>15, <1>16, <1>17, <1>18, <1>19,
     <1>20, <1>21, <1>22, <1>23, <1>24, <1>25
     DEF Next, CloudSteps, WincMessage

\* The type invariant holds in every reachable state.
THEOREM TypeCorrect == Spec => []TypeOK
<1>1. Init => TypeOK
  BY InitIInv DEF IInv
<1>2. TypeOK /\ [Next]_vars => TypeOK'
  <2>1. ASSUME TypeOK, Next PROVE TypeOK'
    <3>1. phase' = Phase
      BY <2>1 DEF Next
    <3>2. QED
      BY <2>1, <3>1, PhaseTypes, NextTypes, StepTypes DEF TypeOK, CloudTypeOK
  <2>2. ASSUME TypeOK, UNCHANGED vars PROVE TypeOK'
    BY <2>2, UnchangedTypes, CreateTypes DEF TypeOK
  <2>3. QED
    BY <2>1, <2>2
<1>3. QED
  BY <1>1, <1>2, PTL DEF Spec

-----------------------------------------------------------------------------
(* The first packet of a connection.                                       *)

LEMMA SendAppends ==
    ASSUME TypeOK, NEW p \in Packet, NEW ok, BSD_send(p, ok)
    PROVE  \/ Accepted(ok) /\ tcp = "open" /\ Len(up') = Len(up) + 1 /\ Last(up') = p
           \/ ~(Accepted(ok) /\ tcp = "open") /\ up' = up
<1>1. up \in Seq(Packet) /\ Len(up) \in Nat
  BY LenProperties DEF TypeOK, BsdTypeOK
<1>2. CASE Accepted(ok) /\ tcp = "open"
  <2>1. up' = Append(up, p)
    BY <1>2 DEF BSD_send
  <2>2. Len(up') = Len(up) + 1 /\ up'[Len(up')] = p
    BY <1>1, <2>1, AppendProperties
  <2>3. QED
    BY <1>2, <2>2 DEF Last
<1>3. CASE ~(Accepted(ok) /\ tcp = "open")
  BY <1>3 DEF BSD_send
<1>4. QED
  BY <1>2, <1>3

\* a step that does not put a packet on the connection does not make up longer
Quiet == ~(Len(up') > Len(up))

LEMMA QuietIf ==
    ASSUME TypeOK, up' = up \/ up' = <<>> \/ (up # <<>> /\ up' = Tail(up)) PROVE Quiet
<1>1. up \in Seq(Packet) /\ Len(up) \in Nat /\ Len(<<>>) = 0
  BY LenProperties DEF TypeOK, BsdTypeOK
<1>2. up # <<>> => Len(Tail(up)) = Len(up) - 1
  BY <1>1, HeadTailProperties
<1>3. QED
  BY <1>1, <1>2 DEF Quiet

\* what puts a packet on a silent connection is SendConnect
LEMMA SilentSends ==
    ASSUME TypeOK, SilentBefore, Next, phase = "silent"
    PROVE  Quiet \/ Last(up') = "CONNECT"
<1>1. CASE CloudTask
  BY <1>1, QuietIf DEF CloudTask
<1>2. CASE LostAP
  <2>1. mqttState \notin {CONNECTED, WAITFORCONNACK}
    BY DEF SilentBefore
  <2>2. up' = up
    BY <1>2, <2>1 DEF LostAP, Disconnect
  <2>3. QED
    BY <2>2, QuietIf
<1>3. CASE OpenSocket
  BY <1>3, QuietIf DEF OpenSocket, BSD_connect, BSD_close
<1>4. CASE AwaitSocket
  BY <1>4, QuietIf DEF AwaitSocket
<1>5. CASE ConnectMqtt
  BY <1>5, QuietIf DEF ConnectMqtt
<1>6. CASE Receive
  BY <1>6, QuietIf DEF Receive, ReceptionHandler, ProcessConnack, NoConnack,
     ProcessPingresp, ProcessSuback, ProcessPublish, ReceiveNothing,
     BSD_close
<1>7. CASE Transmit
  <2>1. CASE SendNothing
    BY <2>1, QuietIf DEF SendNothing
  <2>2. ASSUME NEW ok \in Outcome, SendConnect(ok) PROVE Quiet \/ Last(up') = "CONNECT"
    BY <2>2, SendAppends, QuietIf DEF SendConnect, Packet
  <2>3. mqttState # CONNECTED
    BY DEF SilentBefore
  <2>4. QED
    BY <1>7, <2>1, <2>2, <2>3
       DEF Transmit, TransmissionHandler, SendPublish, SendSubscribe, SendPingreq
<1>8. CASE AfterNotConnected
  BY <1>8, QuietIf DEF AfterNotConnected
<1>9. CASE AfterConnected
  BY <1>9, QuietIf DEF AfterConnected, BSD_close
<1>10. CASE MqttTimeoutTask
  BY <1>10, QuietIf DEF MqttTimeoutTask
<1>11. CASE CloudResetTask
  BY <1>11, QuietIf DEF CloudResetTask, SocketReset, BSD_close
<1>12. CASE CheckBackTask
  BY <1>12, QuietIf DEF CheckBackTask
<1>13. CASE MqttTimerTask
  BY <1>13, QuietIf DEF MqttTimerTask
<1>14. CASE WifiConnected
  BY <1>14, QuietIf DEF WifiConnected
<1>15. CASE DhcpConf
  BY <1>15, QuietIf DEF DhcpConf
<1>16. CASE DnsHandler
  BY <1>16, QuietIf DEF DnsHandler
<1>17. CASE SysTime
  BY <1>17, QuietIf DEF SysTime
<1>18. CASE SocketConnect
  BY <1>18, QuietIf DEF SocketConnect, ConnectReply, BSD_close
<1>19. CASE SocketRecv
  BY <1>19, QuietIf DEF SocketRecv, GetReceivedData, RecvData, RecvError,
     BSD_close
<1>20. CASE WifiDisconnected
  BY <1>20, QuietIf DEF WifiDisconnected, Drop
<1>21. CASE UserDisconnect
  <2>1. mqttState \notin {CONNECTED, WAITFORCONNACK}
    BY DEF SilentBefore
  <2>2. up' = up
    BY <1>21, <2>1 DEF UserDisconnect, Disconnect
  <2>3. QED
    BY <2>2, QuietIf
<1>22. CASE PressSW1
  BY <1>22, QuietIf DEF PressSW1
<1>23. CASE BrokerTakes
  BY <1>23, QuietIf DEF BrokerTakes, Drop
<1>24. CASE BrokerPublish
  BY <1>24, QuietIf DEF BrokerPublish
<1>25. CASE ConnectionLost
  BY <1>25, QuietIf DEF ConnectionLost, Drop
<1>26. QED
  BY <1>1, <1>2, <1>3, <1>4, <1>5, <1>6, <1>7, <1>8, <1>9, <1>10,
     <1>11, <1>12, <1>13, <1>14, <1>15, <1>16, <1>17, <1>18, <1>19,
     <1>20, <1>21, <1>22, <1>23, <1>24, <1>25
     DEF Next, CloudSteps, WincMessage

\* on a silent connection the client stays in the states of a client that has
\* sent nothing, until it sends its CONNECT
LEMMA SilentState ==
    ASSUME TypeOK, SilentBefore, Next, phase = "silent"
    PROVE  mqttState' \in {DISCONNECTED, CONNECTING} \/ Sends("CONNECT")
<1> USE DEF SilentBefore
<1>1. CASE CloudTask
  BY <1>1 DEF CloudTask
<1>2. CASE LostAP
  BY <1>2 DEF LostAP, Disconnect
<1>3. CASE OpenSocket
  BY <1>3 DEF OpenSocket, ClientInitialise
<1>4. CASE AwaitSocket
  BY <1>4 DEF AwaitSocket
<1>5. CASE ConnectMqtt
  BY <1>5 DEF ConnectMqtt, CreateConnect
<1>6. CASE Receive
  BY <1>6 DEF Receive, ReceptionHandler, ProcessConnack, NoConnack,
     ProcessPingresp, ProcessSuback, ProcessPublish, ReceiveNothing, Arrived
<1>7. CASE Transmit
  <2>1. CASE SendNothing
    BY <2>1 DEF SendNothing
  <2>2. ASSUME NEW ok \in Outcome, SendConnect(ok)
        PROVE  mqttState' \in {DISCONNECTED, CONNECTING} \/ Sends("CONNECT")
    <3>1. CASE Accepted(ok)
      <4>1. Len(up') = Len(up) + 1 /\ Last(up') = "CONNECT"
        BY <2>2, <3>1, SendAppends DEF SendConnect, Packet
      <4>2. Len(up) \in Nat
        BY LenProperties DEF TypeOK, BsdTypeOK
      <4>3. QED
        BY <4>1, <4>2 DEF Sends
    <3>2. CASE ~Accepted(ok)
      BY <2>2, <3>2 DEF SendConnect
    <3>3. QED
      BY <3>1, <3>2
  <2>3. QED
    BY <1>7, <2>1, <2>2
       DEF Transmit, TransmissionHandler, SendPublish, SendSubscribe, SendPingreq
<1>8. CASE AfterNotConnected
  BY <1>8 DEF AfterNotConnected
<1>9. CASE AfterConnected
  BY <1>9 DEF AfterConnected
<1>10. CASE MqttTimeoutTask
  BY <1>10 DEF MqttTimeoutTask
<1>11. CASE CloudResetTask
  BY <1>11 DEF CloudResetTask, ClientInitialise
<1>12. CASE CheckBackTask
  BY <1>12 DEF CheckBackTask
<1>13. CASE MqttTimerTask
  BY <1>13 DEF MqttTimerTask, TimerExpires
<1>14. CASE WifiConnected
  BY <1>14 DEF WifiConnected
<1>15. CASE DhcpConf
  BY <1>15 DEF DhcpConf
<1>16. CASE DnsHandler
  BY <1>16 DEF DnsHandler
<1>17. CASE SysTime
  BY <1>17 DEF SysTime
<1>18. CASE SocketConnect
  BY <1>18 DEF SocketConnect
<1>19. CASE SocketRecv
  BY <1>19 DEF SocketRecv, GetReceivedData
<1>20. CASE WifiDisconnected
  BY <1>20 DEF WifiDisconnected
<1>21. CASE UserDisconnect
  BY <1>21 DEF UserDisconnect, Disconnect
<1>22. CASE PressSW1
  BY <1>22 DEF PressSW1
<1>23. CASE BrokerTakes
  BY <1>23 DEF BrokerTakes
<1>24. CASE BrokerPublish
  BY <1>24 DEF BrokerPublish
<1>25. CASE ConnectionLost
  BY <1>25 DEF ConnectionLost
<1>26. QED
  BY <1>1, <1>2, <1>3, <1>4, <1>5, <1>6, <1>7, <1>8, <1>9, <1>10,
     <1>11, <1>12, <1>13, <1>14, <1>15, <1>16, <1>17, <1>18, <1>19,
     <1>20, <1>21, <1>22, <1>23, <1>24, <1>25
     DEF Next, CloudSteps, WincMessage

\* a connection opens for a client that is DISCONNECTED
LEMMA OpensDisconnected ==
    ASSUME TypeOK, Safe, Next, tcp # "open", tcp' = "open"
    PROVE  mqttState' = DISCONNECTED
<1> USE DEF Safe, SocketAgrees
<1>1. CASE CloudTask
  BY <1>1 DEF CloudTask
<1>2. CASE LostAP
  BY <1>2 DEF LostAP, Disconnect, BSD_send
<1>3. CASE OpenSocket
  BY <1>3 DEF OpenSocket, BSD_connect, BSD_close
<1>4. CASE AwaitSocket
  BY <1>4 DEF AwaitSocket
<1>5. CASE ConnectMqtt
  BY <1>5 DEF ConnectMqtt
<1>6. CASE Receive
  BY <1>6 DEF Receive, ReceptionHandler, ProcessConnack, NoConnack,
     ProcessPingresp, ProcessSuback, ProcessPublish, ReceiveNothing,
     BSD_close
<1>7. CASE Transmit
  BY <1>7 DEF Transmit, TransmissionHandler, SendNothing, SendConnect,
     SendPublish, SendSubscribe, SendPingreq, BSD_send
<1>8. CASE AfterNotConnected
  BY <1>8 DEF AfterNotConnected
<1>9. CASE AfterConnected
  BY <1>9 DEF AfterConnected, BSD_close
<1>10. CASE MqttTimeoutTask
  BY <1>10 DEF MqttTimeoutTask
<1>11. CASE CloudResetTask
  BY <1>11 DEF CloudResetTask, SocketReset, BSD_close
<1>12. CASE CheckBackTask
  BY <1>12 DEF CheckBackTask
<1>13. CASE MqttTimerTask
  BY <1>13 DEF MqttTimerTask
<1>14. CASE WifiConnected
  BY <1>14 DEF WifiConnected
<1>15. CASE DhcpConf
  BY <1>15 DEF DhcpConf
<1>16. CASE DnsHandler
  BY <1>16 DEF DnsHandler
<1>17. CASE SysTime
  BY <1>17 DEF SysTime
<1>18. CASE SocketConnect
  BY <1>18 DEF SocketConnect, ConnectReply, BSD_close
<1>19. CASE SocketRecv
  BY <1>19 DEF SocketRecv, GetReceivedData, RecvData, RecvError, BSD_close
<1>20. CASE WifiDisconnected
  BY <1>20 DEF WifiDisconnected, Drop
<1>21. CASE UserDisconnect
  BY <1>21 DEF UserDisconnect, Disconnect, BSD_send
<1>22. CASE PressSW1
  BY <1>22 DEF PressSW1
<1>23. CASE BrokerTakes
  BY <1>23 DEF BrokerTakes, Drop
<1>24. CASE BrokerPublish
  BY <1>24 DEF BrokerPublish
<1>25. CASE ConnectionLost
  BY <1>25 DEF ConnectionLost, Drop
<1>26. QED
  BY <1>1, <1>2, <1>3, <1>4, <1>5, <1>6, <1>7, <1>8, <1>9, <1>10,
     <1>11, <1>12, <1>13, <1>14, <1>15, <1>16, <1>17, <1>18, <1>19,
     <1>20, <1>21, <1>22, <1>23, <1>24, <1>25
     DEF Next, CloudSteps, WincMessage

LEMMA StepSilent == ASSUME TypeOK, Safe, SilentBefore, Next PROVE SilentBefore'
<1>1. phase' = Phase
  BY DEF Next
<1>2. phase' # "none" => tcp' = "open"
  BY <1>1 DEF Phase, SilentBefore
<1>3. phase' = "silent" => mqttState' \in {DISCONNECTED, CONNECTING}
  <2>1. SUFFICES ASSUME phase' = "silent" PROVE mqttState' \in {DISCONNECTED, CONNECTING}
    OBVIOUS
  <2>2. CASE tcp # "open"
    BY <1>2, <2>1, <2>2, OpensDisconnected
  <2>3. CASE tcp = "open"
    <3>1. phase = "silent" /\ ~Sends("CONNECT")
      BY <1>1, <2>1, <2>3 DEF Phase
    <3>2. QED
      BY <3>1, SilentState
  <2>4. QED
    BY <2>2, <2>3
<1>4. QED
  BY <1>2, <1>3 DEF SilentBefore

\* The invariant that carries the others.
THEOREM Invariant == Spec => []IInv
<1>1. Init => IInv
  BY InitIInv
<1>2. Safe /\ SilentBefore /\ UNCHANGED vars => Safe' /\ SilentBefore'
  BY DEF Safe, Opening, Watched, CheckBackRight, NoLeak, KeepsAlive, SocketAgrees,
         ConnectedUnwatched, SilentBefore
<1>3. TypeOK /\ TypeOK' /\ Safe /\ SilentBefore /\ [Next]_vars => Safe' /\ SilentBefore'
  BY <1>2, StepSafe, StepSilent
<1>4. QED
  BY <1>1, <1>3, TypeCorrect, PTL DEF Spec, IInv

\* The flags that keep CLOUD_task from starting a watchdog again are set only
\* while that watchdog runs (cloud_service.c).
THEOREM WatchdogsRun == Spec => []Watched
<1>1. IInv => Watched
  BY DEF IInv, Safe
<1>2. QED
  BY <1>1, Invariant, PTL

\* Between callbacks no watchdog runs while MQTT is connected (cloud_service.c).
THEOREM NeverBitten == Spec => []ConnectedUnwatched
<1>1. IInv => ConnectedUnwatched
  BY DEF IInv, Safe
<1>2. QED
  BY <1>1, Invariant, PTL

\* No MQTT session outlives its socket into the next connect request
\* (cloud_service.c, bsdWINC.c).
THEOREM SocketMatchesMqtt == Spec => []SocketAgrees
<1>1. IInv => SocketAgrees
  BY DEF IInv, Safe
<1>2. QED
  BY <1>1, Invariant, PTL

\* Where the adapter has NOT_A_SOCKET the host driver has none allocated
\* (bsdWINC.c, socket.c).
THEOREM NothingLeaks == Spec => []NoLeak
<1>1. IInv => NoLeak
  BY DEF IInv, Safe
<1>2. QED
  BY <1>1, Invariant, PTL

\* A connected client has its keep-alive timer running (mqtt_core.c).
THEOREM KeepAliveRuns == Spec => []KeepsAlive
<1>1. IInv => KeepsAlive
  BY DEF IInv, Safe
<1>2. QED
  BY <1>1, Invariant, PTL

\* The first packet on a TCP connection is a CONNECT, whatever was still to be
\* sent when the previous connection ended (mqtt_core.c, cloud_service.c).
THEOREM FirstIsConnect == Spec => ConnectFirst
<1>1. IInv /\ [Next]_vars =>
        [Len(up') > Len(up) /\ phase = "silent" => Last(up') = "CONNECT"]_vars
  BY SilentSends DEF IInv, Quiet
<1>2. QED
  BY <1>1, Invariant, PTL DEF Spec, ConnectFirst

\* Without SW1, and when a lookup can always be requested, what the device
\* believes of its access point is right or about to be checked, and no check
\* from before ends a connection that is back (wifi_service.c).
THEOREM LinkIsKnown == ~UserActs /\ ~HifFails => (Spec => []LinkKnown)
<1> SUFFICES ASSUME ~UserActs, ~HifFails PROVE Spec => []LinkKnown
  OBVIOUS
<1>1. Init => LinkKnown
  BY DEF Init, LinkKnown
<1>2. IInv /\ LinkKnown /\ [Next]_vars => LinkKnown'
  <2> SUFFICES ASSUME IInv, LinkKnown, [Next]_vars PROVE LinkKnown'
    OBVIOUS
  <2>1. ASSUME UNCHANGED <<haveAPConnection, wifi>>,
               "checkBack" \in timers <=> "checkBack" \in timers'
        PROVE  LinkKnown'
    BY <2>1 DEF LinkKnown
  <2>2. CASE CloudTask
    BY <2>1, <2>2 DEF CloudTask, LinkKnown
  <2>3. CASE LostAP
    BY <2>1, <2>3 DEF LostAP, LinkKnown
  <2>4. CASE OpenSocket
    BY <2>1, <2>4 DEF OpenSocket, LinkKnown
  <2>5. CASE AwaitSocket
    BY <2>1, <2>5 DEF AwaitSocket, LinkKnown
  <2>6. CASE ConnectMqtt
    BY <2>1, <2>6 DEF ConnectMqtt, LinkKnown
  <2>7. CASE Receive
    BY <2>1, <2>7 DEF Receive, LinkKnown
  <2>8. CASE Transmit
    BY <2>1, <2>8 DEF Transmit, LinkKnown
  <2>9. CASE AfterNotConnected
    BY <2>1, <2>9 DEF AfterNotConnected, LinkKnown
  <2>10. CASE AfterConnected
    BY <2>1, <2>10 DEF AfterConnected, StandDown, LinkKnown
  <2>11. CASE MqttTimeoutTask
    BY <2>1, <2>11 DEF MqttTimeoutTask, LinkKnown
  <2>12. CASE CloudResetTask
    BY <2>1, <2>12 DEF CloudResetTask, LinkKnown
  <2>13. CASE CheckBackTask
    BY <2>1, <2>13 DEF CheckBackTask, LinkKnown
  <2>14. CASE MqttTimerTask
    BY <2>1, <2>14 DEF MqttTimerTask, LinkKnown
  <2>15. CASE WifiConnected
    BY <2>1, <2>15 DEF WifiConnected, LinkKnown
  <2>16. CASE DhcpConf
    BY <2>1, <2>16 DEF DhcpConf, LinkKnown, IInv, Safe, CheckBackRight
  <2>17. CASE DnsHandler
    BY <2>1, <2>17 DEF DnsHandler, LinkKnown
  <2>18. CASE SysTime
    BY <2>1, <2>18 DEF SysTime, LinkKnown
  <2>19. CASE SocketConnect
    BY <2>1, <2>19 DEF SocketConnect, LinkKnown
  <2>20. CASE SocketRecv
    BY <2>1, <2>20 DEF SocketRecv, LinkKnown
  <2>21. CASE WifiDisconnected
    BY <2>1, <2>21 DEF WifiDisconnected, LinkKnown
  <2>22. CASE UserDisconnect
    BY <2>1, <2>22 DEF UserDisconnect, LinkKnown
  <2>23. CASE PressSW1
    BY <2>1, <2>23 DEF PressSW1, LinkKnown
  <2>24. CASE BrokerTakes
    BY <2>1, <2>24 DEF BrokerTakes, LinkKnown
  <2>25. CASE BrokerPublish
    BY <2>1, <2>25 DEF BrokerPublish, LinkKnown
  <2>26. CASE ConnectionLost
    BY <2>1, <2>26 DEF ConnectionLost, LinkKnown
  <2>27. CASE UNCHANGED vars
    BY <2>1, <2>27
  <2>28. QED
    BY <2>2, <2>3, <2>4, <2>5, <2>6, <2>7, <2>8, <2>9, <2>10, <2>11,
       <2>12, <2>13, <2>14, <2>15, <2>16, <2>17, <2>18, <2>19, <2>20,
       <2>21, <2>22, <2>23, <2>24, <2>25, <2>26, <2>27
       DEF Next, CloudSteps, WincMessage
<1>3. QED
  BY <1>1, <1>2, Invariant, PTL DEF Spec

-----------------------------------------------------------------------------
(* The answers on a connection, and the subscription.                      *)

Absent(p, s) == \A i \in 1 .. Len(s) : s[i] # p

Single(p, s) == \A i, j \in 1 .. Len(s) : s[i] = p /\ s[j] = p => i = j

LEMMA AppendedTo ==
    ASSUME NEW S, NEW s \in Seq(S), NEW e \in S, NEW p
    PROVE  /\ e # p /\ Absent(p, s) => Absent(p, Append(s, e))
           /\ e # p /\ Single(p, s) => Single(p, Append(s, e))
           /\ Absent(p, s) => Single(p, Append(s, e))
<1> DEFINE t == Append(s, e)
<1>1. /\ Len(s) \in Nat /\ Len(t) = Len(s) + 1
      /\ \A i \in 1 .. Len(s) : t[i] = s[i]
      /\ t[Len(s) + 1] = e
  BY AppendProperties, LenProperties
<1>2. \A i \in 1 .. Len(t) : i \in 1 .. Len(s) \/ (i = Len(s) + 1 /\ t[i] = e)
  BY <1>1
<1> HIDE DEF t
<1>3. e # p /\ Absent(p, s) => Absent(p, t)
  BY <1>1, <1>2 DEF Absent
<1>4. e # p /\ Single(p, s) => Single(p, t)
  BY <1>1, <1>2 DEF Single
<1>5. Absent(p, s) => Single(p, t)
  BY <1>1, <1>2 DEF Absent, Single
<1>6. QED
  BY <1>3, <1>4, <1>5 DEF t

LEMMA TailOf ==
    ASSUME NEW S, NEW s \in Seq(S), s # <<>>, NEW p
    PROVE  /\ Absent(p, s) => Absent(p, Tail(s)) /\ Head(s) # p
           /\ Single(p, s) => Single(p, Tail(s))
           /\ Single(p, s) /\ Head(s) = p => Absent(p, Tail(s))
<1> DEFINE t == Tail(s)
<1>1. /\ Len(s) \in Nat \ {0} /\ Len(t) = Len(s) - 1
      /\ \A i \in 1 .. Len(t) : t[i] = s[i + 1]
      /\ Head(s) = s[1]
  BY HeadTailProperties, LenProperties, EmptySeq
<1>2. \A i \in 1 .. Len(t) : i + 1 \in 1 .. Len(s) /\ i + 1 # 1 /\ i \in Nat
  BY <1>1
<1>3. 1 \in 1 .. Len(s)
  BY <1>1
<1> HIDE DEF t
<1>4. Absent(p, s) => Absent(p, t) /\ Head(s) # p
  BY <1>1, <1>2, <1>3 DEF Absent
<1>5. Single(p, s) => Single(p, t)
  BY <1>1, <1>2 DEF Single
<1>6. Single(p, s) /\ Head(s) = p => Absent(p, t)
  BY <1>1, <1>2, <1>3 DEF Absent, Single
<1>7. QED
  BY <1>4, <1>5, <1>6 DEF t

LEMMA SplitAt ==
    ASSUME NEW S, NEW s \in Seq(S), NEW k \in 1 .. Len(s), NEW p
    PROVE  LET a == SubSeq(s, 1, k)
               b == SubSeq(s, k + 1, Len(s))
           IN  /\ Absent(p, s) => Absent(p, a) /\ Absent(p, b)
               /\ Single(p, s) => /\ Single(p, a) /\ Single(p, b)
                                  /\ Absent(p, a) \/ Absent(p, b)
<1> DEFINE a == SubSeq(s, 1, k)
           b == SubSeq(s, k + 1, Len(s))
<1>1. Len(s) \in Nat /\ k \in Nat /\ \A i \in 1 .. Len(s) : s[i] \in S
  BY LenProperties, ElementOfSeq
<1>2. Len(a) = k /\ \A i \in 1 .. k : a[i] = s[i]
  BY <1>1, SubSeqProperties
<1>3. Len(b) = Len(s) - k /\ \A i \in 1 .. Len(b) : b[i] = s[k + i]
  <2>1. \A i \in k + 1 .. Len(s) : s[i] \in S
    BY <1>1
  <2>2. /\ Len(b) = IF k + 1 <= Len(s) THEN Len(s) - (k + 1) + 1 ELSE 0
        /\ \A i \in 1 .. Len(s) - (k + 1) + 1 : b[i] = s[k + 1 + i - 1]
    BY <1>1, <2>1, SubSeqProperties
  <2>3. QED
    BY <1>1, <2>2
<1>4. \A i \in 1 .. Len(a) : i \in 1 .. Len(s) /\ a[i] = s[i] /\ i <= k
  BY <1>1, <1>2
<1>5. \A i \in 1 .. Len(b) : k + i \in 1 .. Len(s) /\ b[i] = s[k + i] /\ k + i > k /\ i \in Nat
  BY <1>1, <1>3
<1> HIDE DEF a, b
<1>6. Absent(p, s) => Absent(p, a) /\ Absent(p, b)
  BY <1>4, <1>5 DEF Absent
<1>7. Single(p, s) => Single(p, a)
  BY <1>4 DEF Single
<1>8. Single(p, s) => Single(p, b)
  BY <1>1, <1>5 DEF Single
<1>9. Single(p, s) => Absent(p, a) \/ Absent(p, b)
  BY <1>1, <1>4, <1>5 DEF Absent, Single
<1>10. QED
  BY <1>6, <1>7, <1>8, <1>9 DEF a, b

LEMMA EmptyHasNone == \A p : Absent(p, <<>>) /\ Single(p, <<>>)
<1>1. Len(<<>>) = 0
  OBVIOUS
<1>2. QED
  BY <1>1 DEF Absent, Single

\* The connection, its handle and what is on it agree; nothing is on the way on
\* one that is not open, and a new one finds the receive buffer empty.
Attached ==
    /\ socketState = "NOT_A_SOCKET" <=> tcp = "none"
    /\ sock = "free" <=> tcp = "none"
    /\ phase = "none" <=> tcp # "open"
    /\ tcp # "open" => up = <<>>
    /\ tcp = "opening" => rxbuff = <<>> /\ down = <<>>

\* The broker accepts one CONNECT of a connection, so at most one CONNACK is on
\* its way or in the buffer, and none once the client has read it.
Acks ==
    /\ tcp = "open" =>
         /\ Single("CONNACK", down) /\ Single("CONNACK", rxbuff)
         /\ Absent("CONNACK", down) \/ Absent("CONNACK", rxbuff)
    /\ tcp = "open" /\ broker = "new" =>
         Absent("CONNACK", down) /\ Absent("CONNACK", rxbuff)
    /\ phase \in {"online", "subscribed"} =>
         /\ broker # "new"
         /\ Absent("CONNACK", down) /\ Absent("CONNACK", rxbuff)

\* A client that is to connect will ask for its subscription; one that waits for
\* a CONNACK it may still get does; a connected one asked, or is about to.
Asked ==
    /\ "CONNECT" \in tx => sendSubscribe /\ mqttState \in {DISCONNECTED, CONNECTING}
    /\ mqttState = CONNECTING => sendSubscribe
    /\ mqttState = WAITFORCONNACK /\ tcp = "open" =>
         sendSubscribe \/ phase \in {"online", "subscribed"}
    /\ mqttState = CONNECTED /\ tcp = "open" =>
         /\ phase \in {"online", "subscribed"}
         /\ \/ phase = "subscribed" \/ "SUBSCRIBE" \in tx
            \/ sendSubscribe /\ pc \in {"transmit", "after"}

LEMMA InitAsked == Init => Attached /\ Acks /\ Asked
  BY DEF Init, BsdInit, MqttInit, Attached, Acks, Asked

\* what a step that sends nothing does to phase, and one that sends p
LEMMA QuietPhase ==
    ASSUME Quiet, phase' = Phase, tcp = "open", tcp' = "open"
    PROVE  phase' = IF mqttState = WAITFORCONNACK /\ mqttState' = CONNECTED
                    THEN "online" ELSE phase
  BY DEF Quiet, Phase, Sends

LEMMA SentPhase ==
    ASSUME TypeOK, NEW p \in Packet, NEW ok, BSD_send(p, ok), phase' = Phase,
           ~(mqttState = WAITFORCONNACK /\ mqttState' = CONNECTED)
    PROVE  \/ /\ tcp = "open" /\ tcp' = "open" /\ Accepted(ok)
              /\ up' = Append(up, p) /\ Len(up) < MaxUp
              /\ p = "CONNECT" => phase' = "connect"
              /\ p = "SUBSCRIBE" => phase' = "subscribed"
              /\ p = "DISCONNECT" => phase' = "bye"
              /\ p \in {"PUBLISH", "PINGREQ"} => phase' = phase
           \/ /\ tcp = "open" /\ tcp' = "open" /\ ~Accepted(ok)
              /\ up' = up /\ phase' = phase
           \/ tcp # "open" /\ tcp' # "open" /\ up' = up /\ phase' = "none"
<1>1. tcp' = tcp
  BY DEF BSD_send
<1>2. Len(up) \in Nat
  BY LenProperties DEF TypeOK, BsdTypeOK
<1>3. CASE Accepted(ok) /\ tcp = "open"
  <2>1. Len(up') = Len(up) + 1 /\ Last(up') = p
    BY <1>3, SendAppends
  <2>2. /\ Sends("CONNECT") <=> p = "CONNECT"
        /\ Sends("SUBSCRIBE") <=> p = "SUBSCRIBE"
        /\ Sends("DISCONNECT") <=> p = "DISCONNECT"
    BY <1>2, <2>1 DEF Sends
  <2>3. up' = Append(up, p) /\ Len(up) < MaxUp
    BY <1>3 DEF BSD_send
  <2>4. phase' = CASE p = "CONNECT"    -> "connect"
                   [] p = "SUBSCRIBE"  -> "subscribed"
                   [] p = "DISCONNECT" -> "bye"
                   [] OTHER -> phase
    BY <1>1, <1>3, <2>2 DEF Phase
  <2>5. p = "CONNECT" => phase' = "connect"
    BY <2>4
  <2>6. p = "SUBSCRIBE" => phase' = "subscribed"
    BY <2>4
  <2>7. p = "DISCONNECT" => phase' = "bye"
    BY <2>4
  <2>8. p \in {"PUBLISH", "PINGREQ"} => phase' = phase
    BY <2>4
  <2>9. QED
    BY <1>1, <1>3, <2>3, <2>5, <2>6, <2>7, <2>8
<1>4. CASE ~Accepted(ok) /\ tcp = "open"
  <2>1. up' = up
    BY <1>4 DEF BSD_send
  <2>2. Quiet
    BY <2>1, QuietIf
  <2>3. QED
    BY <1>1, <1>4, <2>1, <2>2, QuietPhase
<1>5. CASE tcp # "open"
  BY <1>1, <1>5 DEF Phase, BSD_send
<1>6. QED
  BY <1>3, <1>4, <1>5

\* steps that leave the connection, what is sent on it and what comes alone
Apart ==
    /\ UNCHANGED <<bsdVars, mqttState, tx, rx, rxbuff, broker, sendSubscribe, phase>>
    /\ pc' = pc \/ {pc, pc'} \subseteq {"idle", "link"}

ApartStep ==
    \/ CloudTask \/ AwaitSocket \/ MqttTimeoutTask \/ CheckBackTask \/ MqttTimerTask
    \/ WifiConnected \/ DhcpConf \/ DnsHandler \/ SysTime \/ PressSW1

LEMMA ApartSteps == ASSUME TypeOK, Attached, Next, ApartStep PROVE Apart
<1>1. /\ UNCHANGED <<bsdVars, mqttState, tx, rx, rxbuff, broker, sendSubscribe>>
      /\ pc' = pc \/ {pc, pc'} \subseteq {"idle", "link"}
  BY DEF ApartStep, CloudTask, AwaitSocket, MqttTimeoutTask, CheckBackTask,
         MqttTimerTask, TimerExpires, WifiConnected, DhcpConf, DnsHandler, SysTime, PressSW1
<1>2. phase' = Phase
  BY DEF Next
<1>3. Quiet
  BY <1>1, QuietIf
<1>4. phase' = phase
  <2>1. CASE tcp = "open"
    BY <1>1, <1>2, <1>3, <2>1, QuietPhase
  <2>2. CASE tcp # "open"
    BY <1>1, <1>2, <2>2 DEF Phase, Attached
  <2>3. QED
    BY <2>1, <2>2
<1>5. QED
  BY <1>1, <1>4 DEF Apart

\* Attached, but for phase
Handle ==
    /\ socketState = "NOT_A_SOCKET" <=> tcp = "none"
    /\ sock = "free" <=> tcp = "none"
    /\ tcp # "open" => up = <<>>
    /\ tcp = "opening" => rxbuff = <<>> /\ down = <<>>

LEMMA StepHandle == ASSUME TypeOK, Safe, Attached, Next PROVE Handle'
<1> USE DEF Attached, Handle
<1>1. CASE ApartStep
  BY <1>1, ApartSteps DEF Apart
<1>2. CASE LostAP
  BY <1>2 DEF LostAP, Disconnect, BSD_send
<1>3. CASE OpenSocket
  BY <1>3 DEF OpenSocket, ClientInitialise, BSD_connect, BSD_close
<1>4. CASE ConnectMqtt
  BY <1>4 DEF ConnectMqtt, CreateConnect
<1>5. CASE Receive
  <2>1. tcp # "opening"
    BY <1>5 DEF Receive, Safe, Opening
  <2>2. CASE NoConnack
    BY <2>2 DEF NoConnack, BSD_close
  <2>3. CASE ~NoConnack
    BY <1>5, <2>1, <2>3 DEF Receive, ReceptionHandler, ProcessConnack,
       ProcessPingresp, ProcessSuback, ProcessPublish, ReceiveNothing
  <2>4. QED
    BY <2>2, <2>3
<1>6. CASE Transmit
  <2>1. tcp # "opening"
    BY <1>6 DEF Transmit, Safe, Opening
  <2>2. UNCHANGED <<socketState, sock, tcp, down>> /\ (tcp # "open" => up' = up)
    BY <1>6 DEF Transmit, TransmissionHandler, SendNothing, SendConnect, SendPublish,
       SendSubscribe, SendPingreq, BSD_send
  <2>3. QED
    BY <2>1, <2>2
<1>7. CASE AfterNotConnected
  BY <1>7 DEF AfterNotConnected, Receiving, Safe, Opening
<1>8. CASE AfterConnected
  <2>1. tcp # "opening"
    BY <1>8 DEF AfterConnected, Safe, Opening
  <2>2. QED
    BY <1>8, <2>1 DEF AfterConnected, Receiving, BSD_close
<1>9. CASE CloudResetTask
  BY <1>9 DEF CloudResetTask, SocketReset, BSD_close
<1>10. CASE SocketConnect
  BY <1>10 DEF SocketConnect, ConnectReply, BSD_close, Safe, Opening
<1>11. CASE SocketRecv
  BY <1>11 DEF SocketRecv, GetReceivedData, RecvData, RecvError, BSD_close,
     Safe, Opening
<1>12. CASE WifiDisconnected
  BY <1>12 DEF WifiDisconnected, Drop
<1>13. CASE UserDisconnect
  BY <1>13 DEF UserDisconnect, Disconnect, BSD_send
<1>14. CASE BrokerTakes
  BY <1>14 DEF BrokerTakes, Drop
<1>15. CASE BrokerPublish
  BY <1>15 DEF BrokerPublish
<1>16. CASE ConnectionLost
  BY <1>16 DEF ConnectionLost, Drop
<1>17. QED
  BY <1>1, <1>2, <1>3, <1>4, <1>5, <1>6, <1>7, <1>8, <1>9, <1>10, <1>11,
     <1>12, <1>13, <1>14, <1>15, <1>16
     DEF Next, CloudSteps, WincMessage, ApartStep

LEMMA StepAttached == ASSUME TypeOK, Safe, Attached, Next PROVE Attached'
<1>1. phase' = Phase
  BY DEF Next
<1>2. phase' = "none" <=> tcp' # "open"
  BY <1>1 DEF Phase, Attached
<1>3. QED
  BY <1>2, StepHandle DEF Handle, Attached

\* only the answer to a connect request opens a connection
LEMMA SocketOpens ==
    ASSUME TypeOK, Attached, Next, tcp # "open", tcp' = "open" PROVE SocketConnect
<1>1. ~ApartStep
  BY ApartSteps DEF Apart
<1>2. QED
  BY <1>1
     DEF Next, CloudSteps, WincMessage, ApartStep, LostAP, Disconnect, OpenSocket,
         BSD_connect, BSD_close, ConnectMqtt, Receive, ReceptionHandler,
         ProcessConnack, NoConnack, ProcessPingresp, ProcessSuback, ProcessPublish,
         ReceiveNothing, Transmit, TransmissionHandler, SendNothing, SendConnect,
         SendPublish, SendSubscribe, SendPingreq, BSD_send, AfterNotConnected,
         AfterConnected, CloudResetTask, SocketReset, SocketRecv, GetReceivedData,
         RecvData, RecvError, WifiDisconnected, Drop, UserDisconnect, BrokerTakes,
         BrokerPublish, ConnectionLost

LEMMA AcksKept ==
    ASSUME Acks, tcp = "open", down' = down, broker' = broker,
           rxbuff' = rxbuff \/ rxbuff' = <<>>,
           phase' \in {"online", "subscribed"} => phase \in {"online", "subscribed"}
    PROVE  Acks'
<1>1. Absent("CONNACK", rxbuff) => Absent("CONNACK", rxbuff')
  BY EmptyHasNone
<1>2. Single("CONNACK", rxbuff) => Single("CONNACK", rxbuff')
  BY EmptyHasNone
<1>3. QED
  BY <1>1, <1>2 DEF Acks

\* the last step that can leave phase "online" or "subscribed" behind it
LEMMA SendAcks ==
    ASSUME TypeOK, Acks, Asked, phase' = Phase, tcp = "open", tcp' = "open",
           NEW p \in Packet, NEW ok, BSD_send(p, ok),
           p = "SUBSCRIBE" => mqttState = CONNECTED,
           ~(mqttState = WAITFORCONNACK /\ mqttState' = CONNECTED),
           rxbuff' = <<>>, broker' = broker
    PROVE  Acks'
<1>1. down' = down
  BY DEF BSD_send
<1>2. phase' \in {"online", "subscribed"} => phase \in {"online", "subscribed"}
  BY SentPhase DEF Packet, Asked
<1>3. QED
  BY <1>1, <1>2, AcksKept

LEMMA ReceiveAcks ==
    ASSUME TypeOK, Acks, Receive, phase' = Phase, tcp = "open", tcp' = "open"
    PROVE  Acks'
<1>1. down' = down /\ up' = up /\ broker' = broker
  BY DEF Receive, ReceptionHandler, ProcessConnack, NoConnack, BSD_close,
         ProcessPingresp, ProcessSuback, ProcessPublish, ReceiveNothing
<1>2. phase' = IF mqttState = WAITFORCONNACK /\ mqttState' = CONNECTED
               THEN "online" ELSE phase
  BY <1>1, QuietIf, QuietPhase
<1>3. CASE ProcessConnack
  <2>1. rxbuff \in Seq(Reply) /\ rxbuff # <<>> /\ rxbuff' = Tail(rxbuff)
    BY <1>3 DEF ProcessConnack, TypeOK, MqttTypeOK
  <2>2. /\ Absent("CONNACK", rxbuff) =>
             Absent("CONNACK", rxbuff') /\ Head(rxbuff) # "CONNACK"
        /\ Single("CONNACK", rxbuff) => Single("CONNACK", rxbuff')
        /\ Single("CONNACK", rxbuff) /\ Head(rxbuff) = "CONNACK" =>
             Absent("CONNACK", rxbuff')
    BY <2>1, TailOf
  <2>3. CASE Head(rxbuff) = "CONNACK"
    BY <1>1, <2>2, <2>3 DEF Acks
  <2>4. CASE Head(rxbuff) # "CONNACK"
    <3>1. phase' = phase
      BY <1>2, <1>3, <2>4 DEF ProcessConnack
    <3>2. QED
      BY <1>1, <2>2, <3>1 DEF Acks
  <2>5. QED
    BY <2>3, <2>4
<1>4. CASE NoConnack
  BY <1>4 DEF NoConnack, BSD_close
<1>5. CASE ProcessPingresp
  BY <1>1, <1>2, <1>5, AcksKept DEF ProcessPingresp, Arrived
<1>6. CASE ProcessSuback
  BY <1>1, <1>2, <1>6, AcksKept DEF ProcessSuback
<1>7. CASE ProcessPublish
  BY <1>1, <1>2, <1>7, AcksKept DEF ProcessPublish, Arrived
<1>8. CASE ReceiveNothing
  BY <1>1, <1>2, <1>8, AcksKept DEF ReceiveNothing
<1>9. QED
  BY <1>3, <1>4, <1>5, <1>6, <1>7, <1>8 DEF Receive, ReceptionHandler

LEMMA BrokerAcks ==
    ASSUME TypeOK, Acks, BrokerTakes, phase' = Phase, tcp = "open", tcp' = "open"
    PROVE  Acks'
<1>1. up # <<>> /\ up' = Tail(up) /\ mqttState' = mqttState /\ rxbuff' = rxbuff
  BY DEF BrokerTakes, Drop
<1>2. phase' = phase
  BY <1>1, QuietIf, QuietPhase
<1>3. CASE down' = down /\ broker' = broker
  BY <1>1, <1>2, <1>3, AcksKept
<1>4. ASSUME NEW a \in Answers(Head(up)), down' = Append(down, a),
             broker' = CASE a = "SUBACK" -> "subscribed"
                         [] a = "CONNACK" -> "connected"
                         [] OTHER -> broker,
             (Head(up) = "CONNECT") = (broker = "new")
      PROVE  Acks'
  <2>1. down \in Seq(Reply) /\ a \in Reply
    BY DEF TypeOK, BsdTypeOK, Answers, Reply
  <2>2. /\ a # "CONNACK" /\ Absent("CONNACK", down) => Absent("CONNACK", down')
        /\ a # "CONNACK" /\ Single("CONNACK", down) => Single("CONNACK", down')
        /\ Absent("CONNACK", down) => Single("CONNACK", down')
    BY <1>4, <2>1, AppendedTo
  <2>3. CASE a = "CONNACK"
    <3>1. broker = "new"
      BY <1>4, <2>3 DEF Answers
    <3>2. broker' # "new"
      BY <1>4, <2>3
    <3>3. QED
      BY <1>1, <1>2, <2>2, <3>1, <3>2 DEF Acks
  <2>4. CASE a # "CONNACK"
    <3>1. broker' = "new" => broker = "new"
      BY <1>4, <2>4
    <3>2. QED
      BY <1>1, <1>2, <2>2, <2>4, <3>1 DEF Acks
  <2>5. QED
    BY <2>3, <2>4
<1>5. QED
  BY <1>3, <1>4 DEF BrokerTakes, Drop

LEMMA StepAcks ==
    ASSUME TypeOK, Safe, Attached, Attached', Acks, Asked, Next
    PROVE  Acks'
<1>1. phase' = Phase
  BY DEF Next
<1>2. CASE tcp' # "open"
  BY <1>2 DEF Attached, Acks
<1>3. CASE tcp # "open" /\ tcp' = "open"
  <2>1. phase' = "silent"
    BY <1>1, <1>3 DEF Phase
  <2>2. rxbuff' = <<>> /\ down' = <<>>
    BY <1>3, SocketOpens DEF SocketConnect, ConnectReply, BSD_close, Attached
  <2>3. QED
    BY <2>1, <2>2, EmptyHasNone DEF Acks
<1>4. CASE tcp = "open" /\ tcp' = "open"
  <2>1. CASE ApartStep
    BY <1>4, <2>1, ApartSteps, AcksKept DEF Apart
  <2>2. ASSUME NEW ok, Disconnect(ok), broker' = broker PROVE Acks'
    <3>1. CASE mqttState \in {CONNECTED, WAITFORCONNACK}
      <4>1. BSD_send("DISCONNECT", ok) /\ rxbuff' = <<>> /\ mqttState' = DISCONNECTED
        BY <2>2, <3>1 DEF Disconnect
      <4>2. QED
        BY <1>1, <1>4, <2>2, <4>1, SendAcks DEF Packet
    <3>2. CASE UNCHANGED <<mqttVars, bsdVars>>
      BY <1>1, <1>4, <2>2, <3>2, QuietIf, QuietPhase, AcksKept
    <3>3. QED
      BY <2>2, <3>1, <3>2 DEF Disconnect
  <2>3. ASSUME UNCHANGED <<up, down, broker, rxbuff>>,
               ~(mqttState = WAITFORCONNACK /\ mqttState' = CONNECTED)
        PROVE  Acks'
    BY <1>1, <1>4, <2>3, QuietIf, QuietPhase, AcksKept
  <2>4. CASE LostAP
    BY <2>2, <2>3, <2>4 DEF LostAP
  <2>5. CASE OpenSocket
    BY <1>4, <2>5 DEF OpenSocket, Safe, Attached
  <2>6. CASE ConnectMqtt
    BY <2>3, <2>6 DEF ConnectMqtt, CreateConnect
  <2>7. CASE Receive
    BY <1>1, <1>4, <2>7, ReceiveAcks
  <2>8. CASE Transmit
    <3>1. broker' = broker
      BY <2>8 DEF Transmit
    <3>2. ASSUME NEW ok \in Outcome, SendConnect(ok) PROVE Acks'
      BY <1>1, <1>4, <3>1, <3>2, SendAcks DEF SendConnect, Packet
    <3>3. ASSUME NEW ok \in Outcome, SendPublish(ok) PROVE Acks'
      BY <1>1, <1>4, <3>1, <3>3, SendAcks DEF SendPublish, Packet
    <3>4. ASSUME NEW ok \in Outcome, SendSubscribe(ok) PROVE Acks'
      BY <1>1, <1>4, <3>1, <3>4, SendAcks DEF SendSubscribe, Packet
    <3>5. ASSUME NEW ok \in Outcome, SendPingreq(ok) PROVE Acks'
      BY <1>1, <1>4, <3>1, <3>5, SendAcks DEF SendPingreq, Packet
    <3>6. CASE SendNothing
      BY <2>3, <3>1, <3>6 DEF SendNothing
    <3>7. QED
      BY <2>8, <3>2, <3>3, <3>4, <3>5, <3>6 DEF Transmit, TransmissionHandler
  <2>9. CASE AfterNotConnected
    BY <2>3, <2>9 DEF AfterNotConnected
  <2>10. CASE AfterConnected
    BY <1>4, <2>3, <2>10 DEF AfterConnected, BSD_close
  <2>11. CASE CloudResetTask
    BY <1>4, <2>11 DEF CloudResetTask, SocketReset, BSD_close
  <2>12. CASE SocketConnect
    BY <1>4, <2>12 DEF SocketConnect, ConnectReply
  <2>13. CASE SocketRecv
    <3>1. PICK k \in 1 .. MaxDown : GetReceivedData(k)
      BY <1>4, <2>13 DEF SocketRecv, RecvError, BSD_close
    <3>2. /\ down \in Seq(Reply) /\ k \in 1 .. Len(down)
          /\ rxbuff' = SubSeq(down, 1, k) /\ down' = SubSeq(down, k + 1, Len(down))
      BY <3>1 DEF GetReceivedData, RecvData, TypeOK, BsdTypeOK
    <3>3. /\ Absent("CONNACK", down) =>
               Absent("CONNACK", rxbuff') /\ Absent("CONNACK", down')
          /\ Single("CONNACK", down) =>
               /\ Single("CONNACK", rxbuff') /\ Single("CONNACK", down')
               /\ Absent("CONNACK", rxbuff') \/ Absent("CONNACK", down')
      BY <3>2, SplitAt
    <3>4. up' = up /\ mqttState' = mqttState /\ broker' = broker
      BY <2>13, <3>1 DEF GetReceivedData, RecvData, SocketRecv
    <3>5. phase' = phase
      BY <1>1, <1>4, <3>4, QuietIf, QuietPhase
    <3>6. QED
      BY <1>4, <3>3, <3>4, <3>5 DEF Acks
  <2>14. CASE WifiDisconnected
    BY <1>4, <2>14 DEF WifiDisconnected, Drop
  <2>15. CASE UserDisconnect
    BY <2>2, <2>15 DEF UserDisconnect
  <2>16. CASE BrokerTakes
    BY <1>1, <1>4, <2>16, BrokerAcks
  <2>17. CASE BrokerPublish
    <3>1. down \in Seq(Reply) /\ down' = Append(down, "PUBLISH") /\ "PUBLISH" \in Reply
      BY <2>17 DEF BrokerPublish, TypeOK, BsdTypeOK, Reply
    <3>2. /\ Absent("CONNACK", down) => Absent("CONNACK", down')
          /\ Single("CONNACK", down) => Single("CONNACK", down')
      BY <3>1, AppendedTo
    <3>3. UNCHANGED <<up, mqttState, rxbuff, broker>>
      BY <2>17 DEF BrokerPublish
    <3>4. phase' = phase
      BY <1>1, <1>4, <3>3, QuietIf, QuietPhase
    <3>5. QED
      BY <1>4, <3>2, <3>3, <3>4 DEF Acks
  <2>18. CASE ConnectionLost
    BY <1>4, <2>18 DEF ConnectionLost, Drop
  <2>19. QED
    BY <2>1, <2>4, <2>5, <2>6, <2>7, <2>8, <2>9, <2>10, <2>11, <2>12, <2>13,
       <2>14, <2>15, <2>16, <2>17, <2>18
       DEF Next, CloudSteps, WincMessage, ApartStep
<1>5. QED
  BY <1>2, <1>3, <1>4

\* the part of Asked about the client alone
ToConnect ==
    /\ "CONNECT" \in tx => sendSubscribe /\ mqttState \in {DISCONNECTED, CONNECTING}
    /\ mqttState = CONNECTING => sendSubscribe

LEMMA StepToConnect == ASSUME TypeOK, Attached, Asked, Next PROVE ToConnect'
<1>1. ToConnect
  BY DEF Asked, ToConnect
<1> USE DEF ToConnect
<1>2. CASE ApartStep
  BY <1>1, <1>2, ApartSteps DEF Apart
<1>3. CASE LostAP
  BY <1>1, <1>3 DEF LostAP, Disconnect
<1>4. CASE OpenSocket
  BY <1>1, <1>4 DEF OpenSocket, ClientInitialise
<1>5. CASE ConnectMqtt
  BY <1>1, <1>5 DEF ConnectMqtt, CreateConnect
<1>6. CASE Receive
  BY <1>1, <1>6 DEF Receive, ReceptionHandler, ProcessConnack, NoConnack,
     ProcessPingresp, ProcessSuback, ProcessPublish, ReceiveNothing, Created, Arrived
<1>7. CASE Transmit
  BY <1>1, <1>7 DEF Transmit, TransmissionHandler, SendNothing, SendConnect,
     SendPublish, SendSubscribe, SendPingreq
<1>8. CASE AfterNotConnected
  BY <1>1, <1>8 DEF AfterNotConnected
<1>9. CASE AfterConnected
  BY <1>1, <1>9 DEF AfterConnected, Created
<1>10. CASE CloudResetTask
  BY <1>1, <1>10 DEF CloudResetTask, ClientInitialise
<1>11. CASE SocketConnect
  BY <1>1, <1>11 DEF SocketConnect
<1>12. CASE SocketRecv
  BY <1>1, <1>12 DEF SocketRecv, GetReceivedData
<1>13. CASE WifiDisconnected
  BY <1>1, <1>13 DEF WifiDisconnected
<1>14. CASE UserDisconnect
  BY <1>1, <1>14 DEF UserDisconnect, Disconnect
<1>15. CASE BrokerTakes
  BY <1>1, <1>15 DEF BrokerTakes
<1>16. CASE BrokerPublish
  BY <1>1, <1>16 DEF BrokerPublish
<1>17. CASE ConnectionLost
  BY <1>1, <1>17 DEF ConnectionLost
<1>18. QED
  BY <1>2, <1>3, <1>4, <1>5, <1>6, <1>7, <1>8, <1>9, <1>10, <1>11,
     <1>12, <1>13, <1>14, <1>15, <1>16, <1>17
     DEF Next, CloudSteps, WincMessage, ApartStep

\* the part about an open connection
ToSubscribe ==
    /\ mqttState = WAITFORCONNACK =>
         sendSubscribe \/ phase \in {"online", "subscribed"}
    /\ mqttState = CONNECTED =>
         /\ phase \in {"online", "subscribed"}
         /\ \/ phase = "subscribed" \/ "SUBSCRIBE" \in tx
            \/ sendSubscribe /\ pc \in {"transmit", "after"}

LEMMA ReceiveToSubscribe ==
    ASSUME TypeOK, Acks, ToSubscribe, Receive, phase' = Phase,
           tcp = "open", tcp' = "open"
    PROVE  ToSubscribe'
<1> USE DEF ToSubscribe
<1>1. up' = up /\ sendSubscribe' = sendSubscribe /\ pc = "link" /\ pc' = "transmit"
  BY DEF Receive, ReceptionHandler, ProcessConnack, NoConnack, BSD_close,
         ProcessPingresp, ProcessSuback, ProcessPublish, ReceiveNothing
<1>2. phase' = IF mqttState = WAITFORCONNACK /\ mqttState' = CONNECTED
               THEN "online" ELSE phase
  BY <1>1, QuietIf, QuietPhase
<1>3. CASE ProcessConnack
  <2>1. CASE Head(rxbuff) = "CONNACK"
    <3>1. ~Absent("CONNACK", rxbuff)
      BY <1>3, <2>1, TailOf DEF ProcessConnack, TypeOK, MqttTypeOK
    <3>2. sendSubscribe /\ mqttState' = CONNECTED /\ mqttState = WAITFORCONNACK
      BY <1>3, <2>1, <3>1 DEF ProcessConnack, Acks
    <3>3. QED
      BY <1>1, <1>2, <3>2
  <2>2. CASE Head(rxbuff) # "CONNACK"
    BY <1>3, <2>2 DEF ProcessConnack
  <2>3. QED
    BY <2>1, <2>2
<1>4. CASE NoConnack
  BY <1>4 DEF NoConnack, BSD_close
<1>5. CASE ProcessPingresp
  BY <1>1, <1>2, <1>5 DEF ProcessPingresp, Arrived
<1>6. CASE ProcessSuback
  BY <1>1, <1>2, <1>6 DEF ProcessSuback
<1>7. CASE ProcessPublish
  BY <1>1, <1>2, <1>7 DEF ProcessPublish, Arrived, Created
<1>8. CASE ReceiveNothing
  BY <1>1, <1>2, <1>8 DEF ReceiveNothing
<1>9. QED
  BY <1>3, <1>4, <1>5, <1>6, <1>7, <1>8 DEF Receive, ReceptionHandler

LEMMA TransmitToSubscribe ==
    ASSUME TypeOK, ToConnect, ToSubscribe, Transmit, phase' = Phase,
           tcp = "open", tcp' = "open"
    PROVE  ToSubscribe'
<1> USE DEF ToSubscribe
<1>1. sendSubscribe' = sendSubscribe /\ pc = "transmit" /\ pc' = "after"
  BY DEF Transmit
<1>2. ASSUME NEW ok \in Outcome, SendConnect(ok) PROVE ToSubscribe'
  BY <1>1, <1>2 DEF SendConnect, ToConnect
<1>3. ASSUME NEW ok \in Outcome, SendPublish(ok) PROVE ToSubscribe'
  <2>1. BSD_send("PUBLISH", ok) /\ mqttState = CONNECTED
    BY <1>3 DEF SendPublish
  <2>2. Accepted(ok) => phase' = phase
    BY <2>1, SentPhase DEF Packet
  <2>3. QED
    BY <1>1, <1>3, <2>2 DEF SendPublish
<1>4. ASSUME NEW ok \in Outcome, SendSubscribe(ok) PROVE ToSubscribe'
  <2>1. BSD_send("SUBSCRIBE", ok) /\ mqttState = CONNECTED
    BY <1>4 DEF SendSubscribe
  <2>2. IF Accepted(ok) THEN phase' = "subscribed" ELSE phase' = phase
    BY <2>1, SentPhase DEF Packet
  <2>3. QED
    BY <1>1, <1>4, <2>2 DEF SendSubscribe
<1>5. ASSUME NEW ok \in Outcome, SendPingreq(ok) PROVE ToSubscribe'
  <2>1. BSD_send("PINGREQ", ok) /\ mqttState = CONNECTED
    BY <1>5 DEF SendPingreq
  <2>2. phase' = phase
    BY <2>1, SentPhase DEF Packet
  <2>3. QED
    BY <1>1, <1>5, <2>2 DEF SendPingreq
<1>6. CASE SendNothing
  <2>1. phase' = phase
    BY <1>6, QuietIf, QuietPhase DEF SendNothing
  <2>2. QED
    BY <1>1, <1>6, <2>1 DEF SendNothing
<1>7. QED
  BY <1>2, <1>3, <1>4, <1>5, <1>6 DEF Transmit, TransmissionHandler

LEMMA StepToSubscribe ==
    ASSUME TypeOK, Attached, Acks, Asked, Next, tcp = "open", tcp' = "open"
    PROVE  ToSubscribe'
<1>1. ToConnect /\ ToSubscribe /\ phase' = Phase
  BY DEF Asked, ToConnect, ToSubscribe, Next
<1> USE DEF ToSubscribe
<1>2. ASSUME UNCHANGED <<up, mqttState, tx, sendSubscribe>>,
             pc' = pc \/ {pc, pc'} \subseteq {"idle", "link"}
      PROVE  ToSubscribe'
  <2>1. phase' = phase
    BY <1>1, <1>2, QuietIf, QuietPhase
  <2>2. QED
    BY <1>1, <1>2, <2>1
<1>3. CASE ApartStep
  BY <1>2, <1>3, ApartSteps DEF Apart
<1>4. CASE LostAP
  BY <1>2, <1>4 DEF LostAP, Disconnect
<1>5. CASE OpenSocket
  BY <1>5 DEF OpenSocket, ClientInitialise
<1>6. CASE ConnectMqtt
  BY <1>1, <1>6 DEF ConnectMqtt, CreateConnect
<1>7. CASE Receive
  BY <1>1, <1>7, ReceiveToSubscribe
<1>8. CASE Transmit
  BY <1>1, <1>8, TransmitToSubscribe
<1>9. CASE AfterNotConnected
  <2>1. phase' = phase
    BY <1>1, <1>9, QuietIf, QuietPhase DEF AfterNotConnected
  <2>2. QED
    BY <1>1, <1>9, <2>1 DEF AfterNotConnected
<1>10. CASE AfterConnected
  <2>1. CASE mqttState' = DISCONNECTED
    BY <2>1
  <2>2. CASE mqttState' # DISCONNECTED
    <3>1. /\ UNCHANGED <<up, mqttState>> /\ mqttState = CONNECTED
          /\ sendSubscribe \/ tx' = tx
          /\ sendSubscribe => "SUBSCRIBE" \in tx'
      BY <1>10, <2>2 DEF AfterConnected, Created
    <3>2. phase' = phase
      BY <1>1, <3>1, QuietIf, QuietPhase
    <3>3. QED
      BY <1>1, <3>1, <3>2
  <2>3. QED
    BY <2>1, <2>2
<1>11. CASE CloudResetTask
  BY <1>11 DEF CloudResetTask, SocketReset, BSD_close
<1>12. CASE SocketConnect
  BY <1>12 DEF SocketConnect, ConnectReply
<1>13. CASE SocketRecv
  BY <1>2, <1>13 DEF SocketRecv, GetReceivedData, RecvData, RecvError, BSD_close
<1>14. CASE WifiDisconnected
  BY <1>14 DEF WifiDisconnected, Drop
<1>15. CASE UserDisconnect
  BY <1>2, <1>15 DEF UserDisconnect, Disconnect
<1>16. CASE BrokerTakes
  <2>1. phase' = phase
    BY <1>1, <1>16, QuietIf, QuietPhase DEF BrokerTakes, Drop
  <2>2. QED
    BY <1>1, <1>16, <2>1 DEF BrokerTakes
<1>17. CASE BrokerPublish
  BY <1>2, <1>17 DEF BrokerPublish
<1>18. CASE ConnectionLost
  BY <1>18 DEF ConnectionLost, Drop
<1>19. QED
  BY <1>3, <1>4, <1>5, <1>6, <1>7, <1>8, <1>9, <1>10, <1>11,
     <1>12, <1>13, <1>14, <1>15, <1>16, <1>17, <1>18
     DEF Next, CloudSteps, WincMessage, ApartStep

LEMMA StepAsked == ASSUME TypeOK, Safe, Attached, Acks, Asked, Next PROVE Asked'
<1>1. ToConnect'
  BY StepToConnect
<1>2. tcp = "open" /\ tcp' = "open" => ToSubscribe'
  BY StepToSubscribe
<1>3. tcp # "open" /\ tcp' = "open" => mqttState' = DISCONNECTED
  BY OpensDisconnected
<1>4. QED
  BY <1>1, <1>2, <1>3 DEF Asked, ToConnect, ToSubscribe

Answered == Attached /\ Acks /\ Asked

LEMMA AnsweredHolds == Spec => []Answered
<1>1. Init => Answered
  BY InitAsked DEF Answered
<1>2. IInv /\ Answered /\ [Next]_vars => Answered'
  <2>1. ASSUME IInv, Answered, Next PROVE Answered'
    BY <2>1, StepAttached, StepAcks, StepAsked DEF IInv, Answered
  <2>2. ASSUME Answered, UNCHANGED vars PROVE Answered'
    BY <2>2 DEF Answered, Attached, Acks, Asked
  <2>3. QED
    BY <2>1, <2>2
<1>3. QED
  BY <1>1, <1>2, Invariant, PTL DEF Spec

\* Whenever MQTT is connected between callbacks, the SUBSCRIBE was sent on this
\* connection or is to be sent: ConnectMqtt asks for it anew, and the flag lives
\* until the packet is created (cloud_service.c).
THEOREM AlwaysSubscribes == Spec => []Subscribes
<1>1. Answered => Subscribes
  BY DEF Answered, Asked, Subscribes
<1>2. QED
  BY <1>1, AnsweredHolds, PTL

-----------------------------------------------------------------------------
(* The session.                                                            *)

\* Nobody at the buttons, every request to the WINC module goes through, and the
\* broker accepts what it is asked.
Undisturbed == ~UserActs /\ ~HifFails /\ ~Refuses

\* No refusal is on its way or in the buffer.
Unrefused ==
    /\ Absent("REFUSED", down) /\ Absent("SUBFAIL", down)
    /\ Absent("REFUSED", rxbuff) /\ Absent("SUBFAIL", rxbuff)

\* Without an access point nothing is open but what it left behind; the handlers
\* run with one, and a client they leave DISCONNECTED has closed its socket.
Joined ==
    /\ wifi \in {"joining", "joined"} => ~haveAPConnection /\ tcp \notin {"opening", "open"}
    /\ "checkBack" \in timers => wifi # "up"
    /\ tcp \in {"opening", "open"} /\ ~haveAPConnection => wifi = "idle"
    /\ pc \in {"transmit", "after"} => haveAPConnection
    /\ pc = "transmit" /\ mqttState = DISCONNECTED => sock = "free"

\* What is on its way to the broker fits what the broker has seen.
Flow ==
    /\ phase = "silent" => up = <<>> /\ broker = "new"
    /\ phase = "connect" =>
         \/ up = <<"CONNECT">> /\ broker = "new"
         \/ up = <<>> /\ broker = "connected"
    /\ phase \in {"online", "subscribed", "bye"} =>
         /\ broker # "new" /\ Absent("CONNECT", up) /\ Single("SUBSCRIBE", up)
         /\ Absent("SUBSCRIBE", up) \/ broker = "connected"
    /\ phase = "online" => broker = "connected" /\ Absent("SUBSCRIBE", up)

\* The client's state fits what it sent; it subscribes once.
Client ==
    /\ phase = "connect" => mqttState = WAITFORCONNACK
    /\ phase \in {"online", "subscribed"} => mqttState \in {WAITFORCONNACK, CONNECTED}
    /\ phase = "bye" => mqttState = DISCONNECTED /\ ~haveAPConnection
    /\ phase = "subscribed" => ~sendSubscribe /\ "SUBSCRIBE" \notin tx
    /\ mqttState # DISCONNECTED /\ "SUBSCRIBE" \in tx => ~sendSubscribe

SInv == Unrefused /\ Joined /\ Flow /\ Client

LEMMA InitSInv == Init => SInv
  BY EmptyHasNone DEF Init, BsdInit, MqttInit, SInv, Unrefused, Joined, Flow, Client

\* what a step does to the packets on their way to the device
LEMMA Buffers ==
    ASSUME TypeOK, Attached, Next
    PROVE  \/ /\ down' = down \/ down' = <<>>
              /\ \/ rxbuff' = rxbuff \/ rxbuff' = <<>>
                 \/ rxbuff # <<>> /\ rxbuff' = Tail(rxbuff)
           \/ \E k \in 1 .. MaxDown : GetReceivedData(k)
           \/ /\ rxbuff' = rxbuff
              /\ \E p \in Packet : \E a \in Answers(p) \cup {"PUBLISH"} :
                    down' = Append(down, a)
<1>1. CASE ApartStep
  BY <1>1, ApartSteps DEF Apart
<1>2. CASE LostAP
  BY <1>2 DEF LostAP, Disconnect, BSD_send
<1>3. CASE OpenSocket
  BY <1>3 DEF OpenSocket, ClientInitialise, BSD_connect, BSD_close
<1>4. CASE ConnectMqtt
  BY <1>4 DEF ConnectMqtt, CreateConnect
<1>5. CASE Receive
  BY <1>5 DEF Receive, ReceptionHandler, ProcessConnack, NoConnack, BSD_close,
     ProcessPingresp, ProcessSuback, ProcessPublish, ReceiveNothing
<1>6. CASE Transmit
  BY <1>6 DEF Transmit, TransmissionHandler, SendNothing, SendConnect, SendPublish,
     SendSubscribe, SendPingreq, BSD_send
<1>7. CASE AfterNotConnected
  BY <1>7 DEF AfterNotConnected
<1>8. CASE AfterConnected
  BY <1>8 DEF AfterConnected, BSD_close
<1>9. CASE CloudResetTask
  BY <1>9 DEF CloudResetTask, SocketReset, BSD_close, ClientInitialise
<1>10. CASE SocketConnect
  BY <1>10 DEF SocketConnect, ConnectReply, BSD_close
<1>11. CASE SocketRecv
  BY <1>11 DEF SocketRecv, RecvError, BSD_close
<1>12. CASE WifiDisconnected
  BY <1>12 DEF WifiDisconnected, Drop
<1>13. CASE UserDisconnect
  BY <1>13 DEF UserDisconnect, Disconnect, BSD_send
<1>14. CASE BrokerTakes
  <2>1. CASE down' = down
    BY <1>14, <2>1 DEF BrokerTakes
  <2>2. CASE down' # down
    <3>1. /\ Head(up) \in {"CONNECT", "SUBSCRIBE", "PINGREQ"}
          /\ \E a \in Answers(Head(up)) : down' = Append(down, a)
          /\ rxbuff' = rxbuff
      BY <1>14, <2>2 DEF BrokerTakes, Drop
    <3>2. Head(up) \in Packet
      BY <3>1 DEF Packet
    <3>3. QED
      BY <3>1, <3>2
  <2>3. QED
    BY <2>1, <2>2
<1>15. CASE BrokerPublish
  BY <1>15 DEF BrokerPublish, Packet
<1>16. CASE ConnectionLost
  BY <1>16 DEF ConnectionLost, Drop
<1>17. QED
  BY <1>1, <1>2, <1>3, <1>4, <1>5, <1>6, <1>7, <1>8, <1>9, <1>10, <1>11,
     <1>12, <1>13, <1>14, <1>15, <1>16
     DEF Next, CloudSteps, WincMessage, ApartStep

LEMMA StepUnrefused ==
    ASSUME TypeOK, Attached, Unrefused, Undisturbed, Next
    PROVE  Unrefused'
<1>1. down \in Seq(Reply) /\ rxbuff \in Seq(Reply)
  BY DEF TypeOK, BsdTypeOK, MqttTypeOK
<1>2. ASSUME NEW p \in {"REFUSED", "SUBFAIL"}, Absent(p, down), Absent(p, rxbuff)
      PROVE  Absent(p, down') /\ Absent(p, rxbuff')
  <2>1. rxbuff # <<>> => Absent(p, Tail(rxbuff))
    BY <1>1, <1>2, TailOf
  <2>2. CASE /\ down' = down \/ down' = <<>>
             /\ \/ rxbuff' = rxbuff \/ rxbuff' = <<>>
                \/ rxbuff # <<>> /\ rxbuff' = Tail(rxbuff)
    BY <1>2, <2>1, <2>2, EmptyHasNone
  <2>3. ASSUME NEW k \in 1 .. MaxDown, GetReceivedData(k)
        PROVE  Absent(p, down') /\ Absent(p, rxbuff')
    <3>1. /\ k \in 1 .. Len(down) /\ rxbuff' = SubSeq(down, 1, k)
          /\ down' = SubSeq(down, k + 1, Len(down))
      BY <2>3 DEF GetReceivedData, RecvData
    <3>2. QED
      BY <1>1, <1>2, <3>1, SplitAt
  <2>4. ASSUME rxbuff' = rxbuff, NEW q \in Packet, NEW a \in Answers(q) \cup {"PUBLISH"},
               down' = Append(down, a)
        PROVE  Absent(p, down') /\ Absent(p, rxbuff')
    <3>1. a \in Reply /\ a # p
      BY DEF Answers, Reply, Undisturbed
    <3>2. QED
      BY <1>1, <1>2, <2>4, <3>1, AppendedTo
  <2>5. QED
    BY <2>2, <2>3, <2>4, Buffers
<1>3. QED
  BY <1>2 DEF Unrefused

LEMMA StepJoined ==
    ASSUME TypeOK, Safe, Attached, Unrefused, Joined, Undisturbed, Next
    PROVE  Joined'
<1> USE DEF Joined
<1>1. ASSUME UNCHANGED <<wifi, haveAPConnection, timers, mqttState>>,
             tcp' \in {tcp, "none", "lost"}, pc' = "transmit" => pc = "transmit",
             pc' = "after" => pc \in {"transmit", "after"}, sock = "free" => sock' = "free"
      PROVE  Joined'
  BY <1>1
<1>2. CASE CloudTask
  BY <1>2 DEF CloudTask
<1>3. CASE AwaitSocket
  BY <1>3 DEF AwaitSocket
<1>4. CASE LostAP
  BY <1>4 DEF LostAP, Disconnect, BSD_send
<1>5. CASE OpenSocket
  BY <1>5 DEF OpenSocket, BSD_connect, BSD_close
<1>6. CASE ConnectMqtt
  BY <1>6 DEF ConnectMqtt
<1>7. CASE Receive
  <2>1. UNCHANGED <<wifi, haveAPConnection, timers>> /\ haveAPConnection /\ pc' = "transmit"
    BY <1>7 DEF Receive
  <2>2. tcp' \in {tcp, "none"}
    BY <1>7 DEF Receive, ReceptionHandler, ProcessConnack, NoConnack, BSD_close,
       ProcessPingresp, ProcessSuback, ProcessPublish, ReceiveNothing
  <2>3. rxbuff # <<>> => Head(rxbuff) \notin {"REFUSED", "SUBFAIL"}
    BY TailOf DEF Unrefused, TypeOK, MqttTypeOK
  <2>4. mqttState' = DISCONNECTED => sock' = "free"
    BY <1>7, <2>3 DEF Receive, ReceptionHandler, ProcessConnack, NoConnack, BSD_close,
       ProcessPingresp, ProcessSuback, ProcessPublish, ReceiveNothing, Arrived
  <2>5. QED
    BY <2>1, <2>2, <2>4
<1>8. CASE Transmit
  <2>1. UNCHANGED <<wifi, haveAPConnection, timers, tcp>>
    BY <1>8 DEF Transmit, TransmissionHandler, SendNothing, SendConnect,
       SendPublish, SendSubscribe, SendPingreq, BSD_send
  <2>2. QED
    BY <1>8, <2>1 DEF Transmit
<1>9. CASE AfterNotConnected
  BY <1>9 DEF AfterNotConnected
<1>10. CASE AfterConnected
  BY <1>10 DEF AfterConnected, BSD_close, StandDown
<1>11. CASE MqttTimeoutTask
  BY <1>11 DEF MqttTimeoutTask
<1>12. CASE CloudResetTask
  BY <1>12 DEF CloudResetTask, SocketReset, BSD_close, Undisturbed, ResetTimers
<1>13. CASE CheckBackTask
  BY <1>13 DEF CheckBackTask, TypeOK
<1>14. CASE MqttTimerTask
  BY <1>14 DEF MqttTimerTask, TimerExpires
<1>15. CASE WifiConnected
  BY <1>15 DEF WifiConnected
<1>16. CASE DhcpConf
  BY <1>16 DEF DhcpConf, Undisturbed, Safe, CheckBackRight
<1>17. CASE DnsHandler
  BY <1>17 DEF DnsHandler
<1>18. CASE SysTime
  BY <1>18 DEF SysTime
<1>19. CASE SocketConnect
  BY <1>19 DEF SocketConnect, ConnectReply, BSD_close
<1>20. CASE SocketRecv
  BY <1>20 DEF SocketRecv, GetReceivedData, RecvData, RecvError, BSD_close
<1>21. CASE WifiDisconnected
  BY <1>21 DEF WifiDisconnected, Drop
<1>22. CASE BrokerTakes
  BY <1>22 DEF BrokerTakes, Drop
<1>23. CASE BrokerPublish
  BY <1>23 DEF BrokerPublish
<1>24. CASE ConnectionLost
  BY <1>24 DEF ConnectionLost, Drop
<1>25. QED
  BY <1>2, <1>3, <1>4, <1>5, <1>6, <1>7, <1>8, <1>9, <1>10,
     <1>11, <1>12, <1>13, <1>14, <1>15, <1>16, <1>17, <1>18, <1>19,
     <1>20, <1>21, <1>22, <1>23, <1>24
     DEF Next, CloudSteps, WincMessage, UserDisconnect, PressSW1, Undisturbed

\* Every step on an open connection is a step of the session, or none.
Still == UNCHANGED <<phase, up, broker>>

Moves ==
    \/ Still \/ Session!Connect \/ Session!Accept \/ Session!Subscribe
    \/ Session!Send
    \/ Session!Bye /\ phase \in {"online", "subscribed"}
    \/ Session!Take

LEMMA StillIf ==
    ASSUME TypeOK, phase' = Phase, tcp = "open", tcp' = "open", UNCHANGED <<up, broker>>,
           ~(mqttState = WAITFORCONNACK /\ mqttState' = CONNECTED)
    PROVE  Still
  BY QuietIf, QuietPhase DEF Still

\* a request always goes through, and an open connection has a handle
LEMMA SendGoes ==
    ASSUME Attached, Undisturbed, tcp = "open", NEW ok \in Outcome
    PROVE  Accepted(ok)
  BY DEF Attached, Undisturbed, Outcome, Accepted

LEMMA ReceiveMoves ==
    ASSUME TypeOK, Acks, Client, Unrefused, Receive, phase' = Phase,
           tcp = "open", tcp' = "open", phase # "none", phase = "silent" => mqttState # WAITFORCONNACK
    PROVE  Moves
<1>1. up' = up /\ broker' = broker
  BY DEF Receive, ReceptionHandler, ProcessConnack, NoConnack, BSD_close,
         ProcessPingresp, ProcessSuback, ProcessPublish, ReceiveNothing
<1>2. phase' = IF mqttState = WAITFORCONNACK /\ mqttState' = CONNECTED
               THEN "online" ELSE phase
  BY <1>1, QuietIf, QuietPhase
<1>3. CASE mqttState = WAITFORCONNACK /\ mqttState' = CONNECTED
  <2>1. ProcessConnack /\ Head(rxbuff) = "CONNACK"
    BY <1>3 DEF Receive, ReceptionHandler, ProcessConnack, NoConnack,
       ProcessPingresp, ProcessSuback, ProcessPublish, ReceiveNothing, Arrived
  <2>2. ~Absent("CONNACK", rxbuff)
    BY <2>1, TailOf DEF ProcessConnack, TypeOK, MqttTypeOK
  <2>3. broker # "new" /\ phase \notin {"online", "subscribed"}
    BY <2>2 DEF Acks
  <2>4. phase = "connect"
    BY <1>3, <2>3 DEF TypeOK, Client
  <2>5. QED
    BY <1>1, <1>2, <1>3, <2>3, <2>4 DEF Moves, Session!Accept
<1>4. CASE ~(mqttState = WAITFORCONNACK /\ mqttState' = CONNECTED)
  BY <1>1, <1>2, <1>4 DEF Moves, Still
<1>5. QED
  BY <1>3, <1>4

LEMMA TransmitMoves ==
    ASSUME TypeOK, Attached, Asked, Joined, Client, Undisturbed, Transmit, phase' = Phase,
           tcp = "open", tcp' = "open"
    PROVE  Moves
<1>1. broker' = broker /\ phase # "none" /\ mqttState # DISCONNECTED
  BY DEF Transmit, Attached, Joined
<1>2. ASSUME NEW ok \in Outcome, SendConnect(ok) PROVE Moves
  <2>1. BSD_send("CONNECT", ok) /\ mqttState = CONNECTING
    BY <1>1, <1>2 DEF SendConnect
  <2>2. up' = Append(up, "CONNECT") /\ Len(up) < MaxUp /\ phase' = "connect"
    BY <2>1, SendGoes, SentPhase DEF Packet
  <2>3. phase = "silent"
    BY <1>1, <2>1 DEF TypeOK, Client
  <2>4. QED
    BY <1>1, <2>2, <2>3 DEF Moves, Session!Connect, Session!Put
<1>3. ASSUME NEW ok \in Outcome, NEW p \in {"PUBLISH", "PINGREQ"}, BSD_send(p, ok),
             mqttState = CONNECTED
      PROVE  Moves
  <2>1. up' = Append(up, p) /\ Len(up) < MaxUp /\ phase' = phase
    BY <1>3, SendGoes, SentPhase DEF Packet
  <2>2. phase \in {"online", "subscribed"}
    BY <1>3 DEF Asked
  <2>3. QED
    BY <1>1, <2>1, <2>2 DEF Moves, Session!Send, Session!Put
<1>4. ASSUME NEW ok \in Outcome, SendSubscribe(ok) PROVE Moves
  <2>1. BSD_send("SUBSCRIBE", ok) /\ mqttState = CONNECTED /\ "SUBSCRIBE" \in tx
    BY <1>4 DEF SendSubscribe
  <2>2. up' = Append(up, "SUBSCRIBE") /\ Len(up) < MaxUp /\ phase' = "subscribed"
    BY <2>1, SendGoes, SentPhase DEF Packet
  <2>3. phase = "online"
    BY <2>1 DEF Asked, Client
  <2>4. QED
    BY <1>1, <2>2, <2>3 DEF Moves, Session!Subscribe, Session!Put
<1>5. CASE SendNothing
  BY <1>1, <1>5, StillIf DEF SendNothing, Moves
<1>6. QED
  BY <1>2, <1>3, <1>4, <1>5
     DEF Transmit, TransmissionHandler, SendPublish, SendPingreq

LEMMA BrokerMoves ==
    ASSUME TypeOK, Attached, Flow, Undisturbed, BrokerTakes, phase' = Phase,
           tcp = "open", tcp' = "open"
    PROVE  Moves
<1>1. up # <<>> /\ up' = Tail(up) /\ mqttState' = mqttState /\ phase # "none"
  BY DEF BrokerTakes, Drop, Attached
<1>2. phase' = phase
  BY <1>1, QuietIf, QuietPhase
<1>3. CASE Head(up) = "PUBLISH" /\ broker # "new" /\ broker' = broker
  BY <1>1, <1>2, <1>3 DEF Moves, Session!Take
<1>4. ASSUME Head(up) \in {"CONNECT", "SUBSCRIBE", "PINGREQ"},
             (Head(up) = "CONNECT") = (broker = "new"),
             NEW a \in Answers(Head(up)),
             broker' = CASE a = "SUBACK" -> "subscribed"
                         [] a = "CONNACK" -> "connected"
                         [] OTHER -> broker
      PROVE  Moves
  <2>1. CASE Head(up) = "CONNECT"
    BY <1>1, <1>2, <1>4, <2>1 DEF Moves, Session!Take, Answers, Undisturbed
  <2>2. CASE Head(up) = "SUBSCRIBE"
    <3>1. ~Absent("SUBSCRIBE", up)
      BY <1>1, <2>2, TailOf DEF TypeOK, BsdTypeOK
    <3>2. broker = "connected"
      <4>1. broker # "new"
        BY <1>4, <2>2
      <4>2. phase # "silent"
        BY <1>1 DEF Flow
      <4>3. phase # "connect"
        BY <1>1, <4>1 DEF Flow
      <4>4. QED
        BY <1>1, <3>1, <4>2, <4>3 DEF TypeOK, Flow
    <3>3. a = "SUBACK"
      BY <1>4, <2>2 DEF Answers, Undisturbed
    <3>4. QED
      BY <1>1, <1>2, <1>4, <2>2, <3>2, <3>3 DEF Moves, Session!Take
  <2>3. CASE Head(up) = "PINGREQ"
    <3>1. a = "PINGRESP"
      BY <1>4, <2>3 DEF Answers
    <3>2. QED
      BY <1>1, <1>2, <1>4, <2>3, <3>1 DEF Moves, Session!Take
  <2>4. QED
    BY <1>4, <2>1, <2>2, <2>3
<1>5. QED
  BY <1>3, <1>4 DEF BrokerTakes, Drop

LEMMA StepMoves ==
    ASSUME IInv, Answered, SInv, Undisturbed, Next, tcp = "open", tcp' = "open"
    PROVE  Moves
<1>1. TypeOK /\ phase' = Phase /\ Attached /\ Acks /\ Asked /\ Unrefused /\ Joined
      /\ Flow /\ Client /\ phase # "none"
      /\ (phase = "silent" => mqttState # WAITFORCONNACK)
  BY DEF IInv, SilentBefore, Answered, SInv, Next, Attached
<1>2. ASSUME UNCHANGED <<up, broker>>,
             ~(mqttState = WAITFORCONNACK /\ mqttState' = CONNECTED)
      PROVE  Moves
  BY <1>1, <1>2, StillIf DEF Moves
<1>3. CASE ApartStep
  BY <1>1, <1>2, <1>3, ApartSteps DEF Apart
<1>4. CASE LostAP
  <2>1. CASE mqttState = CONNECTED
    <3>1. PICK ok \in Outcome : Disconnect(ok)
      BY <1>4, <2>1 DEF LostAP
    <3>2. BSD_send("DISCONNECT", ok) /\ mqttState' = DISCONNECTED
      BY <2>1, <3>1 DEF Disconnect
    <3>3. up' = Append(up, "DISCONNECT") /\ Len(up) < MaxUp /\ phase' = "bye"
      BY <1>1, <3>2, SendGoes, SentPhase DEF Packet
    <3>4. phase \in {"online", "subscribed"} /\ broker' = broker
      BY <1>1, <1>4, <2>1 DEF Asked, LostAP
    <3>5. QED
      BY <3>3, <3>4 DEF Moves, Session!Bye, Session!Put
  <2>2. CASE mqttState # CONNECTED
    BY <1>2, <1>4, <2>2 DEF LostAP
  <2>3. QED
    BY <2>1, <2>2
<1>5. CASE OpenSocket
  BY <1>1, <1>5 DEF OpenSocket, Attached
<1>6. CASE ConnectMqtt
  BY <1>2, <1>6 DEF ConnectMqtt
<1>7. CASE Receive
  BY <1>1, <1>7, ReceiveMoves
<1>8. CASE Transmit
  BY <1>1, <1>8, TransmitMoves
<1>9. CASE AfterNotConnected
  BY <1>2, <1>9 DEF AfterNotConnected
<1>10. CASE AfterConnected
  BY <1>2, <1>10 DEF AfterConnected, BSD_close
<1>11. CASE CloudResetTask
  BY <1>11 DEF CloudResetTask, SocketReset, BSD_close
<1>12. CASE SocketConnect
  BY <1>12 DEF SocketConnect, ConnectReply
<1>13. CASE SocketRecv
  BY <1>2, <1>13 DEF SocketRecv, GetReceivedData, RecvData, RecvError, BSD_close
<1>14. CASE WifiDisconnected
  BY <1>14 DEF WifiDisconnected, Drop
<1>15. CASE BrokerTakes
  BY <1>1, <1>15, BrokerMoves
<1>16. CASE BrokerPublish
  BY <1>2, <1>16 DEF BrokerPublish
<1>17. CASE ConnectionLost
  BY <1>17 DEF ConnectionLost, Drop
<1>18. QED
  BY <1>3, <1>4, <1>5, <1>6, <1>7, <1>8, <1>9, <1>10, <1>11,
     <1>12, <1>13, <1>14, <1>15, <1>16, <1>17
     DEF Next, CloudSteps, WincMessage, ApartStep, UserDisconnect, Undisturbed

\* a connection opens with nothing on its way and a broker that knows nothing
LEMMA Opens ==
    ASSUME TypeOK, Attached, Next, tcp # "open", tcp' = "open"
    PROVE  phase' = "silent" /\ up' = <<>> /\ broker' = "new"
<1>1. phase' = "silent"
  BY DEF Next, Phase
<1>2. QED
  BY <1>1, SocketOpens DEF SocketConnect, ConnectReply, BSD_close, Attached

\* only what ends the connection leaves it closed, and the broker learns nothing
LEMMA Ends ==
    ASSUME TypeOK, Attached, Attached', Undisturbed, Next, tcp' # "open"
    PROVE  phase' = "none" /\ up' = <<>> /\ broker' = broker
<1>1. phase' = "none" /\ up' = <<>>
  BY DEF Attached
<1>2. broker' = broker
  <2>1. CASE ApartStep
    BY <2>1, ApartSteps DEF Apart
  <2>2. CASE BrokerTakes
    <3>1. \A p : "REFUSED" \notin Answers(p)
      BY DEF Answers, Undisturbed
    <3>2. QED
      BY <2>2, <3>1 DEF BrokerTakes, Drop
  <2>3. CASE ~ApartStep /\ ~BrokerTakes
    BY <2>3
       DEF Next, CloudSteps, WincMessage, ApartStep, LostAP, OpenSocket, ConnectMqtt,
           Receive, Transmit, AfterNotConnected, AfterConnected, CloudResetTask,
           SocketConnect, SocketRecv, WifiDisconnected, UserDisconnect,
           BrokerPublish, ConnectionLost
  <2>4. QED
    BY <2>1, <2>2, <2>3
<1>3. QED
  BY <1>1, <1>2

LEMMA MovesFlow == ASSUME TypeOK, Flow, Moves PROVE Flow'
<1>1. up \in Seq(Packet)
  BY DEF TypeOK, BsdTypeOK
<1>2. CASE Still
  BY <1>2 DEF Still, Flow
<1>3. CASE Session!Connect
  <2>1. up' = <<"CONNECT">>
    BY <1>3 DEF Flow, Session!Connect, Session!Put
  <2>2. QED
    BY <1>3, <2>1 DEF Flow, Session!Connect, Session!Put
<1>4. CASE Session!Accept
  BY <1>4, EmptyHasNone DEF Flow, Session!Accept
<1>5. CASE Session!Subscribe
  <2>1. up' = Append(up, "SUBSCRIBE") /\ broker' = broker /\ phase' = "subscribed"
        /\ phase = "online"
    BY <1>5 DEF Session!Subscribe, Session!Put
  <2>2. "SUBSCRIBE" \in Packet
    BY DEF Packet
  <2>3. /\ Absent("CONNECT", up) => Absent("CONNECT", up')
        /\ Absent("SUBSCRIBE", up) => Single("SUBSCRIBE", up')
    BY <1>1, <2>1, <2>2, AppendedTo
  <2>4. QED
    BY <2>1, <2>3 DEF Flow
<1>6. ASSUME NEW p \in {"PUBLISH", "PINGREQ", "DISCONNECT"}, up' = Append(up, p), broker' = broker,
             phase \in {"online", "subscribed"}, phase' \in {phase, "bye"}
      PROVE  Flow'
  <2>1. p \in Packet
    BY DEF Packet
  <2>2. /\ Absent("CONNECT", up) => Absent("CONNECT", up')
        /\ Absent("SUBSCRIBE", up) => Absent("SUBSCRIBE", up')
        /\ Single("SUBSCRIBE", up) => Single("SUBSCRIBE", up')
    BY <1>1, <1>6, <2>1, AppendedTo
  <2>3. QED
    BY <1>6, <2>2 DEF Flow
<1>7. CASE Session!Send
  BY <1>6, <1>7 DEF Session!Send, Session!Put
<1>8. CASE Session!Bye /\ phase \in {"online", "subscribed"}
  BY <1>6, <1>8 DEF Session!Bye, Session!Put
<1>9. CASE Session!Take
  <2>1. up # <<>> /\ up' = Tail(up) /\ phase' = phase
    BY <1>9 DEF Session!Take
  <2>2. /\ Absent("CONNECT", up) => Absent("CONNECT", up')
        /\ Absent("SUBSCRIBE", up) => Absent("SUBSCRIBE", up') /\ Head(up) # "SUBSCRIBE"
        /\ Single("SUBSCRIBE", up) => Single("SUBSCRIBE", up')
        /\ Single("SUBSCRIBE", up) /\ Head(up) = "SUBSCRIBE" => Absent("SUBSCRIBE", up')
    BY <1>1, <2>1, TailOf
  <2>3. CASE phase = "connect"
    <3>1. up = <<"CONNECT">> /\ broker = "new"
      BY <2>1, <2>3 DEF Flow
    <3>2. up' = <<>> /\ broker' = "connected"
      BY <1>9, <2>1, <3>1 DEF Session!Take
    <3>3. QED
      BY <2>1, <2>3, <3>2 DEF Flow
  <2>4. CASE phase \in {"online", "subscribed", "bye"}
    <3>1. broker # "new"
      BY <2>4 DEF Flow
    <3>2. CASE Head(up) = "SUBSCRIBE" /\ broker' = "subscribed"
      BY <2>1, <2>2, <2>4, <3>2 DEF Flow
    <3>3. CASE broker' = broker
      BY <2>1, <2>2, <2>4, <3>3 DEF Flow
    <3>4. QED
      BY <1>9, <3>1, <3>2, <3>3 DEF Session!Take
  <2>5. CASE phase \in {"none", "silent"}
    BY <2>1, <2>5 DEF Flow
  <2>6. QED
    BY <2>3, <2>4, <2>5 DEF TypeOK
<1>10. QED
  BY <1>2, <1>3, <1>4, <1>5, <1>7, <1>8, <1>9 DEF Moves

\* the parts of Client that a step on an open connection can disturb
LEMMA StepClient ==
    ASSUME IInv, Answered, SInv, Undisturbed, Next, Attached'
    PROVE  Client'
<1>1. TypeOK /\ phase' = Phase /\ Attached /\ Acks /\ Asked /\ Unrefused /\ Joined
      /\ Flow /\ Client
  BY DEF IInv, Answered, SInv, Next
<1>2. mqttState' # DISCONNECTED /\ "SUBSCRIBE" \in tx' => ~sendSubscribe'
  <2> USE DEF Client
  <2>1. CASE ApartStep
    BY <1>1, <2>1, ApartSteps DEF Apart
  <2>2. CASE LostAP
    BY <1>1, <2>2 DEF LostAP, Disconnect
  <2>3. CASE OpenSocket
    BY <2>3 DEF OpenSocket, ClientInitialise
  <2>4. CASE ConnectMqtt
    BY <2>4 DEF ConnectMqtt, CreateConnect
  <2>5. CASE Receive
    BY <1>1, <2>5 DEF Receive, ReceptionHandler, ProcessConnack, NoConnack,
       ProcessPingresp, ProcessSuback, ProcessPublish, ReceiveNothing, Created, Arrived
  <2>6. CASE Transmit
    <3>1. mqttState = DISCONNECTED => sock = "free"
      BY <1>1, <2>6 DEF Transmit, Joined
    <3>2. QED
      BY <1>1, <2>6, <3>1 DEF Transmit, TransmissionHandler, SendNothing, SendConnect,
         SendPublish, SendSubscribe, SendPingreq, Accepted
  <2>7. CASE AfterNotConnected
    BY <1>1, <2>7 DEF AfterNotConnected
  <2>8. CASE AfterConnected
    BY <2>8 DEF AfterConnected
  <2>9. CASE CloudResetTask
    BY <2>9 DEF CloudResetTask, ClientInitialise
  <2>10. CASE SocketConnect
    BY <1>1, <2>10 DEF SocketConnect
  <2>11. CASE SocketRecv
    BY <1>1, <2>11 DEF SocketRecv, GetReceivedData
  <2>12. CASE WifiDisconnected
    BY <1>1, <2>12 DEF WifiDisconnected
  <2>13. CASE BrokerTakes
    BY <1>1, <2>13 DEF BrokerTakes
  <2>14. CASE BrokerPublish
    BY <1>1, <2>14 DEF BrokerPublish
  <2>15. CASE ConnectionLost
    BY <1>1, <2>15 DEF ConnectionLost
  <2>16. QED
    BY <2>1, <2>2, <2>3, <2>4, <2>5, <2>6, <2>7, <2>8, <2>9, <2>10, <2>11,
       <2>12, <2>13, <2>14, <2>15
       DEF Next, CloudSteps, WincMessage, ApartStep, UserDisconnect, Undisturbed
<1> DEFINE Sent ==
      /\ phase' = "connect" => mqttState' = WAITFORCONNACK
      /\ phase' \in {"online", "subscribed"} => mqttState' \in {WAITFORCONNACK, CONNECTED}
      /\ phase' = "bye" => mqttState' = DISCONNECTED /\ ~haveAPConnection'
      /\ phase' = "subscribed" => ~sendSubscribe' /\ "SUBSCRIBE" \notin tx'
<1> SUFFICES Sent
  BY <1>2 DEF Client
<1>3. CASE tcp' # "open"
  BY <1>3 DEF Attached
<1>4. CASE tcp # "open" /\ tcp' = "open"
  BY <1>1, <1>4, Opens
<1>5. CASE tcp = "open" /\ tcp' = "open"
  <2>1. ASSUME UNCHANGED <<up, mqttState, tx, sendSubscribe>>,
               phase = "bye" => haveAPConnection' = haveAPConnection
        PROVE  Sent
    <3>1. phase' = phase
      BY <1>1, <1>5, <2>1, QuietIf, QuietPhase
    <3>2. QED
      BY <1>1, <2>1, <3>1 DEF Client
  <2>2. CASE ApartStep
    <3>1. phase = "bye" => ~haveAPConnection /\ wifi = "idle"
      BY <1>1, <1>5 DEF Client, Joined
    <3>2. phase = "bye" => ~haveAPConnection'
      BY <2>2, <3>1 DEF ApartStep, CloudTask, AwaitSocket, MqttTimeoutTask, CheckBackTask,
         MqttTimerTask, WifiConnected, DhcpConf, DnsHandler, SysTime, PressSW1, Undisturbed
    <3>3. haveAPConnection \in BOOLEAN /\ haveAPConnection' \in BOOLEAN
      BY <1>1, NextTypes DEF TypeOK, CloudTypeOK
    <3>4. phase = "bye" => haveAPConnection' = haveAPConnection
      BY <3>1, <3>2, <3>3
    <3>5. QED
      BY <1>1, <2>1, <2>2, <3>4, ApartSteps DEF Apart
  <2>3. CASE LostAP
    <3>1. CASE mqttState = CONNECTED
      <4>1. PICK ok \in Outcome : Disconnect(ok)
        BY <2>3, <3>1 DEF LostAP
      <4>2. BSD_send("DISCONNECT", ok) /\ mqttState' = DISCONNECTED
        BY <3>1, <4>1 DEF Disconnect
      <4>3. phase' = "bye"
        BY <1>1, <1>5, <4>2, SendGoes, SentPhase DEF Packet
      <4>4. QED
        BY <2>3, <4>2, <4>3 DEF LostAP
    <3>2. CASE mqttState # CONNECTED
      BY <2>1, <2>3, <3>2 DEF LostAP
    <3>3. QED
      BY <3>1, <3>2
  <2>4. CASE OpenSocket
    BY <1>1, <1>5, <2>4 DEF OpenSocket, Attached
  <2>5. CASE ConnectMqtt
    <3>1. phase \in {"none", "silent"}
      BY <1>1, <2>5 DEF ConnectMqtt, Client, TypeOK
    <3>2. phase' = phase
      BY <1>1, <1>5, <2>5, QuietIf, QuietPhase DEF ConnectMqtt, CreateConnect
    <3>3. QED
      BY <3>1, <3>2
  <2>6. CASE Receive
    <3>1. up' = up /\ sendSubscribe' = sendSubscribe /\ haveAPConnection
      BY <1>5, <2>6 DEF Receive, ReceptionHandler, ProcessConnack, NoConnack, BSD_close,
         ProcessPingresp, ProcessSuback, ProcessPublish, ReceiveNothing
    <3>2. phase' = IF mqttState = WAITFORCONNACK /\ mqttState' = CONNECTED
                   THEN "online" ELSE phase
      BY <1>1, <1>5, <3>1, QuietIf, QuietPhase
    <3>3. rxbuff # <<>> => Head(rxbuff) \notin {"REFUSED", "SUBFAIL"}
      BY <1>1, TailOf DEF Unrefused, TypeOK, MqttTypeOK
    <3>4. \/ mqttState' = mqttState
          \/ mqttState = WAITFORCONNACK /\ mqttState' = CONNECTED
          \/ mqttState = CONNECTED /\ mqttState' = WAITFORCONNACK
      BY <1>5, <2>6, <3>3 DEF Receive, ReceptionHandler, ProcessConnack, NoConnack,
         BSD_close, ProcessPingresp, ProcessSuback, ProcessPublish, ReceiveNothing, Arrived
    <3>5. "SUBSCRIBE" \in tx' => "SUBSCRIBE" \in tx
      BY <1>5, <2>6 DEF Receive, ReceptionHandler, ProcessConnack, NoConnack,
         ProcessPingresp, ProcessSuback, ProcessPublish, ReceiveNothing, Created
    <3>6. phase # "bye"
      BY <1>1, <3>1 DEF Client
    <3>7. QED
      BY <1>1, <3>1, <3>2, <3>4, <3>5, <3>6 DEF Client
  <2>7. CASE Transmit
    <3>1. haveAPConnection /\ mqttState # DISCONNECTED /\ sendSubscribe' = sendSubscribe
      BY <1>1, <1>5, <2>7 DEF Transmit, Joined, Attached
    <3>2. phase # "bye"
      BY <1>1, <3>1 DEF Client
    <3>3. ASSUME NEW ok \in Outcome, SendConnect(ok) PROVE Sent
      <4>1. BSD_send("CONNECT", ok) /\ mqttState = CONNECTING /\ Accepted(ok)
        BY <1>1, <1>5, <3>1, <3>3, SendGoes DEF SendConnect
      <4>2. phase' = "connect"
        BY <1>1, <1>5, <4>1, SentPhase DEF Packet
      <4>3. mqttState' = WAITFORCONNACK
        BY <3>3, <4>1 DEF SendConnect
      <4>4. QED
        BY <4>2, <4>3
    <3>4. ASSUME NEW ok \in Outcome, SendPublish(ok) PROVE Sent
      <4>1. BSD_send("PUBLISH", ok) /\ mqttState = CONNECTED /\ Accepted(ok)
        BY <1>1, <1>5, <3>4, SendGoes DEF SendPublish
      <4>2. phase' = phase
        BY <1>1, <1>5, <4>1, SentPhase DEF Packet
      <4>3. mqttState' = CONNECTED /\ tx' = tx \ {"PUBLISH"}
        BY <3>4, <4>1 DEF SendPublish
      <4>4. QED
        BY <1>1, <3>1, <3>2, <4>1, <4>2, <4>3 DEF Client
    <3>5. ASSUME NEW ok \in Outcome, SendSubscribe(ok) PROVE Sent
      <4>1. BSD_send("SUBSCRIBE", ok) /\ mqttState = CONNECTED /\ Accepted(ok)
            /\ "SUBSCRIBE" \in tx
        BY <1>1, <1>5, <3>5, SendGoes DEF SendSubscribe
      <4>2. phase' = "subscribed"
        BY <1>1, <1>5, <4>1, SentPhase DEF Packet
      <4>3. mqttState' = CONNECTED /\ tx' = tx \ {"SUBSCRIBE"}
        BY <3>5, <4>1 DEF SendSubscribe
      <4>4. ~sendSubscribe
        BY <1>1, <4>1 DEF Client
      <4>5. QED
        BY <3>1, <4>2, <4>3, <4>4
    <3>6. ASSUME NEW ok \in Outcome, SendPingreq(ok) PROVE Sent
      <4>1. BSD_send("PINGREQ", ok) /\ mqttState = CONNECTED /\ Accepted(ok)
        BY <1>1, <1>5, <3>6, SendGoes DEF SendPingreq
      <4>2. phase' = phase
        BY <1>1, <1>5, <4>1, SentPhase DEF Packet
      <4>3. mqttState' = CONNECTED /\ tx' = {}
        BY <3>6, <4>1 DEF SendPingreq
      <4>4. QED
        BY <1>1, <3>1, <3>2, <4>1, <4>2, <4>3 DEF Client
    <3>7. CASE SendNothing
      BY <2>1, <2>7, <3>7 DEF SendNothing, Transmit
    <3>8. QED
      BY <2>7, <3>3, <3>4, <3>5, <3>6, <3>7 DEF Transmit, TransmissionHandler
  <2>8. CASE AfterNotConnected
    BY <2>1, <2>8 DEF AfterNotConnected
  <2>9. CASE AfterConnected
    <3>1. /\ UNCHANGED <<up, mqttState>> /\ mqttState = CONNECTED
          /\ sendSubscribe' = FALSE
          /\ sendSubscribe \/ tx' = tx
      BY <1>5, <2>9 DEF AfterConnected, BSD_close
    <3>2. phase' = phase
      BY <1>1, <1>5, <3>1, QuietIf, QuietPhase
    <3>3. phase = "subscribed" => ~sendSubscribe /\ "SUBSCRIBE" \notin tx
      BY <1>1 DEF Client
    <3>4. phase \notin {"connect", "bye"}
      BY <1>1, <3>1 DEF Client
    <3>5. QED
      BY <3>1, <3>2, <3>3, <3>4
  <2>10. CASE CloudResetTask
    BY <1>5, <2>10 DEF CloudResetTask, SocketReset, BSD_close
  <2>11. CASE SocketConnect
    BY <1>5, <2>11 DEF SocketConnect, ConnectReply
  <2>12. CASE SocketRecv
    BY <1>5, <2>1, <2>12 DEF SocketRecv, GetReceivedData, RecvData, RecvError, BSD_close
  <2>13. CASE WifiDisconnected
    BY <1>5, <2>13 DEF WifiDisconnected, Drop
  <2>14. CASE BrokerTakes
    <3>1. phase' = phase
      BY <1>1, <1>5, <2>14, QuietIf, QuietPhase DEF BrokerTakes, Drop
    <3>2. QED
      BY <1>1, <2>14, <3>1 DEF BrokerTakes, Client
  <2>15. CASE BrokerPublish
    BY <2>1, <2>15 DEF BrokerPublish
  <2>16. CASE ConnectionLost
    BY <1>5, <2>16 DEF ConnectionLost, Drop
  <2>17. QED
    BY <2>2, <2>3, <2>4, <2>5, <2>6, <2>7, <2>8, <2>9, <2>10, <2>11,
       <2>12, <2>13, <2>14, <2>15, <2>16
       DEF Next, CloudSteps, WincMessage, ApartStep, UserDisconnect, Undisturbed
<1>6. QED
  BY <1>3, <1>4, <1>5

LEMMA StepFlow ==
    ASSUME IInv, Answered, Attached', SInv, Undisturbed, Next
    PROVE  Flow'
<1>1. TypeOK /\ Attached /\ Flow
  BY DEF IInv, Answered, SInv
<1>2. CASE tcp' # "open"
  BY <1>1, <1>2, Ends DEF Flow
<1>3. CASE tcp # "open" /\ tcp' = "open"
  BY <1>1, <1>3, Opens DEF Flow
<1>4. CASE tcp = "open" /\ tcp' = "open"
  BY <1>1, <1>4, StepMoves, MovesFlow
<1>5. QED
  BY <1>2, <1>3, <1>4

\* every step is one of the session, or leaves it alone
LEMMA StepSession ==
    ASSUME IInv, Answered, Attached', SInv, Undisturbed, [Next]_vars
    PROVE  [Session!Next]_(Session!sessionVars)
<1> USE DEF Session!sessionVars, Session!Next
<1>1. TypeOK /\ Attached
  BY DEF IInv, Answered
<1>2. CASE UNCHANGED vars
  BY <1>2
<1>3. CASE Next /\ tcp' # "open"
  BY <1>1, <1>3, Ends DEF Session!End
<1>4. CASE Next /\ tcp # "open" /\ tcp' = "open"
  BY <1>1, <1>4, Opens DEF Attached, Session!Open
<1>5. CASE Next /\ tcp = "open" /\ tcp' = "open"
  BY <1>5, StepMoves DEF Moves, Still
<1>6. QED
  BY <1>2, <1>3, <1>4, <1>5

\* Without the user, refusals and failing requests, the client and the broker are
\* a session of MQTT on every connection, whatever connections and access points
\* are lost: one CONNECT, accepted before anything else, and one SUBSCRIBE
\* (cloud_service.c, mqtt_core.c).
THEOREM SessionsFollow == Undisturbed => (Spec => Sessions)
<1> SUFFICES ASSUME Undisturbed PROVE Spec => Sessions
  OBVIOUS
<1>1. Init => SInv /\ Session!Init
  BY InitSInv DEF Init, BsdInit, Session!Init
<1>2. IInv /\ Answered /\ Answered' /\ SInv /\ [Next]_vars => SInv'
  <2>1. ASSUME IInv, Answered, Answered', SInv, Next PROVE SInv'
    <3>1. TypeOK /\ Safe /\ Attached /\ Attached' /\ Unrefused /\ Joined
      BY <2>1 DEF IInv, Answered, SInv
    <3>2. QED
      BY <2>1, <3>1, StepUnrefused, StepJoined, StepFlow, StepClient DEF SInv
  <2>2. ASSUME SInv, UNCHANGED vars PROVE SInv'
    BY <2>2 DEF SInv, Unrefused, Joined, Flow, Client
  <2>3. QED
    BY <2>1, <2>2
<1>3. IInv /\ Answered /\ Answered' /\ SInv /\ [Next]_vars
        => [Session!Next]_(Session!sessionVars)
  BY StepSession DEF Answered
<1>4. QED
  BY <1>1, <1>2, <1>3, Invariant, AnsweredHolds, PTL DEF Spec, Sessions, Session!Spec

=============================================================================
