----------------------------- MODULE WincSocket -----------------------------
(* The socket layer of the WINC driver (M/winc/socket/source/socket.c) over *)
(* its host interface: TCP sockets, numbered sessions, requests that the    *)
(* module answers some time, and m2m_ip_cb, which takes the answers.        *)
(*                                                                          *)
(* The application calls from the main loop, between two runs of            *)
(* wifiHandlerTask, and closes sockets from its callbacks, too              *)
(* (bsdWINC.c: BSD_SocketHandler).  The steps on messages are those of      *)
(* WincHif, each with what it does to the sockets.                          *)
EXTENDS WincHif

CONSTANTS
    TcpSockMax,  \* TCP_SOCK_MAX
    MaxSession,  \* bound: sessions after a start of the module
    MaxParts     \* bound: parts of a message, the reply's structure included

ASSUME SocketAssumption ==
    /\ TcpSockMax \in Nat \ {0}
    /\ MaxSession \in 1 .. 65535
    /\ MaxParts \in Nat \ {0}

Sockets == 0 .. TcpSockMax - 1

VARIABLES
    gastrSockets,   \* bIsUsed, u16SessionID, bIsRecvPending and whether pu8UserBuffer
                    \* is set, for each socket
    gu16SessionID,
    u8NextTcpSock,
    requests,       \* external: the requests the module has not answered
    lost            \* ghost: sessions with a receive that was not requested, or whose
                    \* reply was not read

sockVars == <<gastrSockets, gu16SessionID, u8NextTcpSock>>
vars == <<hifVars, sockVars, requests, lost>>

Unused == [used |-> FALSE, ses |-> 0, pending |-> FALSE, buffer |-> FALSE]

\* one in use, that has no buffer yet, or that receives
Opened(ses, recv) == [used |-> TRUE, ses |-> ses, pending |-> recv, buffer |-> recv]

Request ==
    [op : {"connect", "recv"}, sock : Sockets, ses : 1 .. MaxSession]

\* what it answers: data only with a receive, whose first part is then not all
Answers(r) ==
    {[op |-> r.op, sock |-> r.sock, ses |-> r.ses, parts |-> n] :
        n \in IF r.op = "recv" THEN 1 .. MaxParts ELSE {1}}

\* what else it tells: the state of the network and what changes nothing in this layer
\* (the reply of a send is compared with the session and handed up), and what
\* m2m_wifi_cb has no branch for
Event == {[op |-> o, sock |-> 0, ses |-> 0, parts |-> 1] : o \in {"news", "unknown"}}

Message ==
    [op : {"connect", "recv", "news", "unknown"}, sock : Sockets, ses : 0 .. MaxSession,
     parts : 1 .. MaxParts]

Init ==
    /\ HifInit
    /\ gastrSockets = [s \in Sockets |-> Unused]
    /\ gu16SessionID = 0 /\ u8NextTcpSock = 0
    /\ requests = {} /\ lost = {}

-----------------------------------------------------------------------------
(* The calls.  hif_send fails when the module grants no memory or does not   *)
(* answer.                                                                    *)

Idle == pc = "idle" /\ UNCHANGED hifVars

\* the first unused socket, searched from u8NextTcpSock on and around
NextFree(s) ==
    /\ ~gastrSockets[s].used
    /\ \A t \in Sockets : ~gastrSockets[t].used =>
           (s - u8NextTcpSock) % TcpSockMax <= (t - u8NextTcpSock) % TcpSockMax

SocketCreated ==
    /\ Idle
    /\ gu16SessionID < MaxSession       \* it wraps to 1 after 65535
    /\ gu16SessionID' = gu16SessionID + 1
    /\ \E s \in Sockets :
        /\ NextFree(s)
        /\ gastrSockets' = [gastrSockets EXCEPT ![s] = Opened(gu16SessionID + 1, FALSE)]
        /\ u8NextTcpSock' = (s + 1) % TcpSockMax
    /\ UNCHANGED <<requests, lost>>

OfSocket(op, s) == [op |-> op, sock |-> s, ses |-> gastrSockets[s].ses]

\* Nothing is kept of a connect.  One that is repeated is the same to this layer.
Connect(s) ==
    /\ Idle
    /\ gastrSockets[s].used /\ registered
    /\ requests' = requests \cup {OfSocket("connect", s)}
    /\ UNCHANGED <<sockVars, lost>>

\* mutant of Recv: the flag is set, but the request only made for the first buffer
RecvOnce(s, ok) ==
    /\ Idle
    /\ gastrSockets[s].used
    /\ gastrSockets' =
          [gastrSockets EXCEPT ![s] = Opened(gastrSockets[s].ses, TRUE)]
    /\ IF gastrSockets[s].buffer
       THEN UNCHANGED <<requests, lost>>
       ELSE /\ requests' = IF ok THEN requests \cup {OfSocket("recv", s)} ELSE requests
            /\ lost' = IF ok THEN lost ELSE lost \cup {gastrSockets[s].ses}
    /\ UNCHANGED <<gu16SessionID, u8NextTcpSock>>

\* The buffer is replaced in any case, and bIsRecvPending is set before the request
\* is made and not reset when it fails.
Recv(s, ok) ==
    /\ Idle
    /\ gastrSockets[s].used
    /\ gastrSockets' =
          [gastrSockets EXCEPT ![s] = Opened(gastrSockets[s].ses, TRUE)]
    /\ IF gastrSockets[s].pending
       THEN UNCHANGED <<requests, lost>>
       ELSE /\ requests' = IF ok THEN requests \cup {OfSocket("recv", s)} ELSE requests
            /\ lost' = IF ok THEN lost ELSE lost \cup {gastrSockets[s].ses}
    /\ UNCHANGED <<gu16SessionID, u8NextTcpSock>>

\* close: the module forgets the session if it gets the request
Closed(s, ok) ==
    /\ gastrSockets[s].used
    /\ gastrSockets' = [gastrSockets EXCEPT ![s] = Unused]
    /\ requests' = IF ok THEN {r \in requests : r.ses # gastrSockets[s].ses} ELSE requests
    /\ UNCHANGED <<gu16SessionID, u8NextTcpSock, lost>>

Close(s, ok) == Idle /\ Closed(s, ok)

\* what a callback may do: close its socket, or none of these calls
CalledBack ==
    \/ UNCHANGED <<sockVars, requests, lost>>
    \/ \E ok \in BOOLEAN : (ok => registered) /\ Closed(msg.sock, ok)

-----------------------------------------------------------------------------
(* The module (external).                                                     *)

Answer(r) ==
    /\ \E m \in Answers(r) : Queued(m)
    /\ requests' = requests \ {r}
    /\ UNCHANGED <<sockVars, lost>>

Tells == (\E m \in Event : Queued(m)) /\ UNCHANGED <<sockVars, requests, lost>>

-----------------------------------------------------------------------------
(* The steps of hif_isr with the callbacks.                                   *)

\* mutant of ReadPart: every part of the data is taken for the last
ReadPartDone ==
    /\ Receive(left < msg.parts)
    /\ lost' = IF pc' = "tail" /\ msg.op = "recv" THEN lost \cup {msg.ses} ELSE lost
    /\ UNCHANGED <<sockVars, requests>>

\* u8SetRxDone is set for the last part of the data; the reply is asked without.  A
\* reply that cannot be read is gone.
ReadPart ==
    /\ Receive(left = 1 /\ left < msg.parts)
    /\ lost' = IF pc' = "tail" /\ msg.op = "recv" THEN lost \cup {msg.ses} ELSE lost
    /\ UNCHANGED <<sockVars, requests>>

WriteRxDone ==
    /\ RxDoneWritten
    /\ lost' = IF pc' = "tail" /\ then = "handle" /\ msg.op = "recv"
               THEN lost \cup {msg.ses} ELSE lost
    /\ UNCHANGED <<sockVars, requests>>

\* what its callbacks ask of the module is not for a socket
News ==
    /\ msg.op = "news"
    /\ Goes("tail")
    /\ UNCHANGED <<sockVars, requests, lost>>

\* whatever session it is for
ConnectReply ==
    /\ msg.op = "connect"
    /\ Goes("tail")
    /\ CalledBack

\* The end of a receive that the session still waits for: its data follows, or it had
\* none and the application is called.  One for a session that is gone is thrown
\* away, but has reset bIsRecvPending of the socket all the same.
RecvReply ==
    /\ msg.op = "recv" /\ left = msg.parts - 1
    /\ LET s == msg.sock
           known == msg.ses = gastrSockets[s].ses
           reset == [gastrSockets EXCEPT ![s].pending = FALSE]
       IN  \/ /\ known /\ left = 0
              /\ Goes("tail")
              /\ \/ gastrSockets' = reset /\ UNCHANGED requests
                 \/ \E ok \in BOOLEAN :
                      /\ gastrSockets' = [gastrSockets EXCEPT ![s] = Unused]
                      /\ requests' = IF ok THEN {r \in requests : r.ses # msg.ses}
                                     ELSE requests
           \/ /\ known /\ left # 0
              /\ gastrSockets' = reset
              /\ Goes(IF gastrSockets[s].buffer THEN "receive" ELSE "tail")
              /\ UNCHANGED requests
           \/ /\ ~known
              /\ gastrSockets' = reset
              /\ Goes(IF left = 0 THEN "tail" ELSE "done")
              /\ UNCHANGED requests
    /\ UNCHANGED <<gu16SessionID, u8NextTcpSock, lost>>

\* mutant of RecvData: the data goes on when the application has closed the socket
RecvDataOn ==
    /\ msg.op = "recv" /\ left < msg.parts - 1
    /\ CalledBack
    /\ Goes(IF left = 0 THEN "tail" ELSE "receive")

\* Socket_ReadSocketData, after a part: the application may have closed the socket
RecvData ==
    /\ msg.op = "recv" /\ left < msg.parts - 1
    /\ CalledBack
    /\ Goes(IF left = 0 THEN "tail"
            ELSE IF gastrSockets'[msg.sock].used THEN "receive" ELSE "done")

\* steps that do not touch the sockets
HifStep ==
    /\ IsrSees \/ IsrClears \/ IsrDispatches \/ IsrEnds \/ HandleLoads \/ HandleStores
    /\ UNCHANGED <<sockVars, requests, lost>>

HandleStep ==
    \/ HifStep \/ ReadPart \/ WriteRxDone
    \/ News \/ ConnectReply \/ RecvReply \/ RecvData

-----------------------------------------------------------------------------
(* wifi_reinit, with socketDeinit and socketInit.                             *)

Reinit == ReinitCalled /\ UNCHANGED <<sockVars, requests, lost>>

Deinit ==
    /\ HifDeinit
    /\ gastrSockets' = [s \in Sockets |-> Unused]
    /\ UNCHANGED <<gu16SessionID, u8NextTcpSock, requests, lost>>

Reset == ChipReset /\ requests' = {} /\ UNCHANGED <<sockVars, lost>>

Starts ==
    /\ ChipStarts
    /\ gastrSockets' = [s \in Sockets |-> Unused] /\ gu16SessionID' = 0
    /\ lost' = {}
    /\ UNCHANGED <<u8NextTcpSock, requests>>

ReinitStep == Deinit \/ Reset \/ Starts

\* the steps that do not touch the sockets, of the module and the pin
Raises == Announce /\ UNCHANGED <<sockVars, requests, lost>>

Interrupted == Isr /\ UNCHANGED <<sockVars, requests, lost>>

Call ==
    \/ SocketCreated
    \/ \E s \in Sockets :
        \/ Connect(s)
        \/ \E ok \in BOOLEAN : (ok => registered) /\ (Recv(s, ok) \/ Close(s, ok))

Next ==
    \/ Call \/ Reinit \/ ReinitStep
    \/ HandleStep \/ Interrupted
    \/ Raises \/ Tells \/ \E r \in requests : Answer(r)

Spec == Init /\ [][Next]_vars

\* The interrupt comes, wifiHandlerTask runs every CLOUD_WIFI_TASK_INTERVAL and goes
\* on, and so does wifi_reinit.  That the module goes on telling is not needed.
Fairness == WF_vars(Interrupted) /\ WF_vars(HandleStep) /\ WF_vars(ReinitStep)

FairSpec == Spec /\ Fairness

-----------------------------------------------------------------------------
(* Properties.                                                                *)

SocketType ==
    /\ gastrSockets \in
          [Sockets -> [used : BOOLEAN, ses : 0 .. MaxSession, pending : BOOLEAN,
                       buffer : BOOLEAN]]
    /\ gu16SessionID \in 0 .. MaxSession /\ u8NextTcpSock \in Sockets
    /\ requests \subseteq Request /\ lost \subseteq 0 .. MaxSession

HifType ==
    /\ queue \in Seq(Message) /\ slot \in Message \cup {NoMessage} /\ msg \in Message \cup {NoMessage}
    /\ bit0 \in BOOLEAN
    /\ flag \in BOOLEAN /\ sense \in BOOLEAN /\ registered \in BOOLEAN
    /\ u8Interrupt \in 0 .. 255 /\ loaded \in 0 .. 255 /\ u8HifRXDone \in BOOLEAN
    /\ pc \in Pc /\ then \in {"handle", "tail", "isr"}
    /\ left \in 0 .. MaxParts /\ failed \in BOOLEAN

TypeOK == SocketType /\ HifType

\* Every announcement is known to the host just once: in the pin's flag, in the
\* count, or with hif_isr, although the count is decremented in two steps and the
\* pin's sense is switched off and on (m2m_hif.c:576, "because of the race of
\* interrupt increment and that decrement").
AnnouncedOnce ==
    registered /\ ~failed /\ pc \notin {"deinit", "reset"} =>
        (IF flag THEN 1 ELSE 0)
        + (IF pc = "store" THEN loaded ELSE u8Interrupt)
        + (IF pc \in {"isr", "clear"} THEN 1 ELSE 0)
          = (IF bit0 THEN 1 ELSE 0)

\* The host reads only from the message the module still holds for it, and gives it
\* back once, however many parts it has, whatever a callback closes between them and
\* whichever read fails.
HeldWhileRead ==
    /\ pc \in {"clear", "header", "receive", "rxdone"} => Owed
    /\ pc = "receive" => msg = slot

\* Received data goes to a buffer of the session it came for, part by part.
DataForSession ==
    pc = "receive" /\ left < msg.parts =>
        /\ gastrSockets[msg.sock].buffer
        /\ gastrSockets[msg.sock].ses = msg.ses

\* the reply of socket s's receive is on its way
Coming(s) ==
    LET Is(m) == m.op = "recv" /\ m.sock = s /\ m.ses = gastrSockets[s].ses
    IN  \/ OfSocket("recv", s) \in requests
        \/ \E i \in 1 .. Len(queue) : Is(queue[i])
        \/ Is(slot)
        \/ Is(msg) /\ pc = "handle"

\* A receive that is pending has its request or its reply on the way: else it would
\* be pending for ever, as each later recv makes no request.  So it is with one whose
\* request failed or whose reply could not be read.
RecvComing ==
    \A s \in Sockets :
        gastrSockets[s].pending => Coming(s) \/ gastrSockets[s].ses \in lost

\* What the module announces is handled, up to RX done, unless a read failed.
Handled == Owed ~> ~Owed \/ failed

=============================================================================
