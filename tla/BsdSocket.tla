------------------------------ MODULE BsdSocket ------------------------------
(***************************************************************************)
(* The one TCP socket of the firmware: the BSD adapter's state for it      *)
(* (src/mcc_generated_files/cloud/bsd_adapter/bsdWINC.c), the WINC host    *)
(* driver's (winc/socket/source/socket.c) and, external, the connection    *)
(* the WINC firmware keeps and the packets it carries.                     *)
(*                                                                         *)
(* The definitions are parts of actions: the modules that extend this one  *)
(* call them as the C code calls the functions.  A handle is never reused  *)
(* while it is open, and socket.c drops what belongs to an older session:  *)
(* one socket variable stands for all handles.                             *)
(***************************************************************************)
EXTENDS Naturals, SequencesExt

CONSTANTS
    HifFails,   \* TRUE: a request to the WINC module may fail
    MaxUp,      \* bound: packets the connection holds on the way to the broker
    MaxDown     \* bound: packets on the way to the device

ASSUME BsdSocketAssumption ==
    HifFails \in BOOLEAN /\ {MaxUp, MaxDown} \subseteq Nat \ {0}

VARIABLES
    socketState,  \* packetReceptionHandler_t.socketState
    sock,         \* gastrSockets[sock]: "free", "used", or used with a receive
                  \* pending; "stuck" when that receive was never requested
    tcp,          \* the connection: "none", "opening", "open" or "lost"
    up,           \* packets on the way to the broker
    down          \* packets on the way to the device

bsdVars == <<socketState, sock, tcp, up, down>>

Packet == {"CONNECT", "PUBLISH", "SUBSCRIBE", "PINGREQ", "DISCONNECT"}
Reply == {"CONNACK", "REFUSED", "SUBACK", "SUBFAIL", "PINGRESP", "PUBLISH"}

BsdInit ==
    /\ socketState = "NOT_A_SOCKET" /\ sock = "free"
    /\ tcp = "none" /\ up = <<>> /\ down = <<>>

\* the outcomes a request to the WINC module can have
Outcome == IF HifFails THEN BOOLEAN ELSE {TRUE}

-----------------------------------------------------------------------------
(* The calls.                                                              *)

\* BSD_send accepts a packet when the handle is open and the request goes
\* through, also when the connection was lost meanwhile: then nobody gets it
Accepted(ok) == ok /\ sock # "free"

BSD_send(p, ok) ==
    /\ \/ Accepted(ok) /\ tcp = "open" /\ Len(up) < MaxUp /\ up' = Append(up, p)
       \/ ~(Accepted(ok) /\ tcp = "open") /\ UNCHANGED up
    /\ UNCHANGED <<socketState, sock, tcp, down>>

\* mutant of BSD_close: the WINC socket stays allocated
CloseLeaks ==
    /\ socketState' = "NOT_A_SOCKET" /\ sock' = sock
    /\ tcp' = "none" /\ up' = <<>> /\ down' = <<>>

\* BSD_close, and close of socket.c
BSD_close ==
    /\ socketState' = "NOT_A_SOCKET" /\ sock' = "free"
    /\ tcp' = "none" /\ up' = <<>> /\ down' = <<>>

\* BSD_socket and BSD_connect, and BSD_close when the request failed
BSD_connect(ok) ==
    \/ /\ ok
       /\ socketState' = "SOCKET_IN_PROGRESS" /\ sock' = "used"
       /\ tcp' = "opening" /\ up' = <<>> /\ down' = <<>>
    \/ ~ok /\ BSD_close

\* BSD_recv: bIsRecvPending is set before the request is made, and stays set
\* when it fails
Receiving(ok) ==
    IF sock # "used" THEN sock ELSE IF ok THEN "pending" ELSE "stuck"

\* socketDeinit, the reset of the WINC module and the cleared handler table
SocketReset == BSD_close

-----------------------------------------------------------------------------
(* BSD_SocketHandler: the messages of the WINC module.                     *)

ConnectReply ==
    /\ tcp = "opening"
    /\ \/ /\ socketState' = "SOCKET_CONNECTED" /\ tcp' = "open"
          /\ UNCHANGED <<sock, up, down>>
       \/ BSD_close

\* k packets arrived together; SOCKET_MSG_RECV hands them to recvCallBack
RecvData(k) ==
    /\ sock = "pending" /\ k \in 1 .. Len(down)
    /\ socketState' = "SOCKET_CONNECTED" /\ sock' = "used"
    /\ down' = SubSeq(down, k + 1, Len(down))
    /\ UNCHANGED <<tcp, up>>

\* the connection is gone: a receive ends with an error
RecvError == sock = "pending" /\ tcp = "lost" /\ down = <<>> /\ BSD_close

-----------------------------------------------------------------------------
(* External: the network.                                                  *)

Drop ==
    /\ tcp' = "lost" /\ up' = <<>>
    /\ UNCHANGED <<socketState, sock, down>>

BsdTypeOK ==
    /\ socketState \in {"NOT_A_SOCKET", "SOCKET_IN_PROGRESS", "SOCKET_CONNECTED"}
    /\ sock \in {"free", "used", "pending", "stuck"}
    /\ tcp \in {"none", "opening", "open", "lost"}
    /\ up \in Seq(Packet) /\ down \in Seq(Reply)

=============================================================================
