-------------------------- MODULE WincSocket_proofs --------------------------
(* Proofs about WincSocket and the host interface under it, for any number  *)
(* of sockets, sessions and parts, any queue and any set of faults.         *)
EXTENDS WincSocket, TLAPS

\* What bit 0 and the count say is a message the module holds.
HeldInv ==
    /\ bit0 => Owed
    /\ pc = "clear" => bit0
    /\ pc \in {"clear", "header", "receive", "rxdone"} => Owed
    /\ pc \in {"header", "receive"} => u8HifRXDone
    /\ pc = "rxdone" => ~bit0
    /\ u8HifRXDone =>
         /\ Owed /\ ~bit0
         /\ pc \in {"header", "receive", "handle", "tail", "isr"}

\* The message main is at is that message as long as there is something to read.
PartInv ==
    /\ pc = "receive" => msg = slot /\ left # 0
    /\ pc = "handle" => (left # 0 <=> u8HifRXDone) /\ (left # 0 => msg = slot)
    /\ pc = "rxdone" /\ then = "handle" => msg = slot /\ left = 0

\* While the module may announce something, the pin would see it.
SenseInv ==
    /\ registered => sense \/ pc = "clear" \/ u8HifRXDone
    /\ ~registered => queue = <<>> /\ ~bit0
    /\ pc = "store" => loaded # 0

HifInv == HeldInv /\ PartInv /\ SenseInv /\ AnnouncedOnce

\* The sockets: each session has one, and wifi_reinit has closed them all.
SessionInv ==
    /\ \A s \in Sockets :
         /\ ~gastrSockets[s].used => /\ ~gastrSockets[s].pending /\ ~gastrSockets[s].buffer
                                     /\ gastrSockets[s].ses = 0
         /\ gastrSockets[s].used => gastrSockets[s].ses \in 1 .. gu16SessionID
         /\ pc = "reset" => ~gastrSockets[s].used
    /\ \A s, t \in Sockets :
         gastrSockets[s].used /\ gastrSockets[t].used /\ s # t =>
            gastrSockets[s].ses # gastrSockets[t].ses

\* message m ends a receive that is pending
Ends(m) ==
    /\ m.op = "recv"
    /\ gastrSockets[m.sock].pending /\ gastrSockets[m.sock].ses = m.ses
    /\ m.ses \notin lost

\* When the module gets RX done, no receive waits for the message any more, but the
\* one that is handled next.
EndsInv ==
    /\ pc = "rxdone" => \/ then = "handle" /\ left = msg.parts - 1
                        \/ ~Ends(slot)
    /\ pc = "tail" /\ u8HifRXDone => ~Ends(slot)
    /\ pc = "receive" => \/ left = msg.parts
                         \/ ~Ends(slot)
    /\ pc = "handle" => \/ left = msg.parts - 1
                        \/ ~Ends(msg)

\* Data is read, or will be, only for the session it is for.
DataInv ==
    \/ pc = "receive" /\ left < msg.parts
    \/ pc = "handle" /\ left < msg.parts - 1 /\ left # 0
    => /\ gastrSockets[msg.sock].used /\ gastrSockets[msg.sock].buffer
       /\ gastrSockets[msg.sock].ses = msg.ses

SockInv == SocketType /\ SessionInv /\ EndsInv /\ DataInv /\ RecvComing

IInv == HifType /\ HifInv /\ SockInv

-----------------------------------------------------------------------------
(* The host interface                                                         *)

LEMMA Bounds ==
  /\ TcpSockMax \in Nat \ {0} /\ MaxSession \in Nat \ {0} /\ MaxParts \in Nat \ {0}
  BY SocketAssumption, SMT

LEMMA NoMessageOp == NoMessage \notin Message
  BY DEF NoMessage, Message

LEMMA QueuedHif ==
  ASSUME HifType, HifInv, NEW m \in Message, Queued(m)
  PROVE  HifType' /\ HifInv'
<1>1. HifType'
  <2>1. /\ bit0' \in BOOLEAN /\ flag' \in BOOLEAN /\ sense' \in BOOLEAN
        /\ registered' \in BOOLEAN /\ u8HifRXDone' \in BOOLEAN /\ failed' \in BOOLEAN
    BY Zenon DEF HifType, Queued, chipVars, pinVars, rxVars
  <2>2. /\ queue' \in Seq(Message)
        /\ slot' \in Message \cup {NoMessage} /\ msg' \in Message \cup {NoMessage}
    BY SMT DEF HifType, Queued, chipVars, rxVars
  <2>3. /\ u8Interrupt' \in 0 .. 255 /\ loaded' \in 0 .. 255
        /\ pc' \in Pc /\ then' \in {"handle", "tail", "isr"} /\ left' \in 0 .. MaxParts
    BY SMT DEF HifType, Queued, rxVars
  <2> QED
    BY <2>1, <2>2, <2>3 DEF HifType
<1>2. HeldInv'
  BY NoMessageOp, SMT DEF HifType, HifInv, HeldInv, PartInv, Queued, Owed, chipVars, pinVars, rxVars
<1>3. PartInv'
  BY SMT DEF HifType, HifInv, HeldInv, PartInv, Queued, Owed, chipVars, pinVars, rxVars
<1>4. SenseInv'
  BY SMT DEF HifType, HifInv, HeldInv, PartInv, SenseInv, Queued, Owed, chipVars, pinVars, rxVars
<1>5. AnnouncedOnce'
  BY SMT DEF HifType, HifInv, HeldInv, PartInv, SenseInv, AnnouncedOnce, Queued, Owed, chipVars, pinVars, rxVars
<1> QED
  BY <1>1, <1>2, <1>3, <1>4, <1>5 DEF HifInv

LEMMA AnnounceHif ==
  ASSUME HifType, HifInv, Announce
  PROVE  HifType' /\ HifInv'
<1>1. HifType'
  <2>1. /\ bit0' \in BOOLEAN /\ flag' \in BOOLEAN /\ sense' \in BOOLEAN
        /\ registered' \in BOOLEAN /\ u8HifRXDone' \in BOOLEAN /\ failed' \in BOOLEAN
    BY Zenon DEF HifType, Announce, chipVars, pinVars, rxVars
  <2>2. /\ queue' \in Seq(Message)
        /\ slot' \in Message \cup {NoMessage} /\ msg' \in Message \cup {NoMessage}
    BY SMT DEF HifType, Announce, chipVars, rxVars
  <2>3. /\ u8Interrupt' \in 0 .. 255 /\ loaded' \in 0 .. 255
        /\ pc' \in Pc /\ then' \in {"handle", "tail", "isr"} /\ left' \in 0 .. MaxParts
    BY SMT DEF HifType, Announce, rxVars
  <2> QED
    BY <2>1, <2>2, <2>3 DEF HifType
<1>2. HeldInv'
  BY NoMessageOp, SMT DEF HifType, HifInv, HeldInv, PartInv, Announce, Owed, chipVars, pinVars, rxVars
<1>3. PartInv'
  BY SMT DEF HifType, HifInv, HeldInv, PartInv, Announce, Owed, chipVars, pinVars, rxVars
<1>4. SenseInv'
  BY SMT DEF HifType, HifInv, HeldInv, PartInv, SenseInv, Announce, Owed, chipVars, pinVars, rxVars
<1>5. AnnouncedOnce'
  BY SMT DEF HifType, HifInv, HeldInv, PartInv, SenseInv, AnnouncedOnce, Announce, Owed, chipVars, pinVars, rxVars
<1> QED
  BY <1>1, <1>2, <1>3, <1>4, <1>5 DEF HifInv

LEMMA IsrHif ==
  ASSUME HifType, HifInv, Isr
  PROVE  HifType' /\ HifInv'
<1>1. HifType'
  <2>1. /\ bit0' \in BOOLEAN /\ flag' \in BOOLEAN /\ sense' \in BOOLEAN
        /\ registered' \in BOOLEAN /\ u8HifRXDone' \in BOOLEAN /\ failed' \in BOOLEAN
    BY Zenon DEF HifType, Isr, chipVars, pinVars, rxVars
  <2>2. /\ queue' \in Seq(Message)
        /\ slot' \in Message \cup {NoMessage} /\ msg' \in Message \cup {NoMessage}
    BY SMT DEF HifType, Isr, chipVars, rxVars
  <2>3. /\ u8Interrupt' \in 0 .. 255 /\ loaded' \in 0 .. 255
        /\ pc' \in Pc /\ then' \in {"handle", "tail", "isr"} /\ left' \in 0 .. MaxParts
    BY Bounds, SMT DEF HifType, HifInv, PartInv, SenseInv, Isr, Pc, rxVars
  <2> QED
    BY <2>1, <2>2, <2>3 DEF HifType
<1>2. HeldInv'
  BY NoMessageOp, SMT DEF HifType, HifInv, HeldInv, PartInv, Isr, Owed, chipVars, pinVars, rxVars
<1>3. PartInv'
  BY SMT DEF HifType, HifInv, HeldInv, PartInv, Isr, Owed, chipVars, pinVars, rxVars
<1>4. SenseInv'
  BY SMT DEF HifType, HifInv, HeldInv, PartInv, SenseInv, Isr, Owed, chipVars, pinVars, rxVars
<1>5. AnnouncedOnce'
  BY SMT DEF HifType, HifInv, HeldInv, PartInv, SenseInv, AnnouncedOnce, Isr, Owed, chipVars, pinVars, rxVars
<1> QED
  BY <1>1, <1>2, <1>3, <1>4, <1>5 DEF HifInv

LEMMA HandleLoadsHif ==
  ASSUME HifType, HifInv, HandleLoads
  PROVE  HifType' /\ HifInv'
<1>1. HifType'
  <2>1. /\ bit0' \in BOOLEAN /\ flag' \in BOOLEAN /\ sense' \in BOOLEAN
        /\ registered' \in BOOLEAN /\ u8HifRXDone' \in BOOLEAN /\ failed' \in BOOLEAN
    BY Zenon DEF HifType, HandleLoads, chipVars, pinVars, rxVars
  <2>2. /\ queue' \in Seq(Message)
        /\ slot' \in Message \cup {NoMessage} /\ msg' \in Message \cup {NoMessage}
    BY SMT DEF HifType, HandleLoads, chipVars, rxVars
  <2>3. /\ u8Interrupt' \in 0 .. 255 /\ loaded' \in 0 .. 255
        /\ pc' \in Pc /\ then' \in {"handle", "tail", "isr"} /\ left' \in 0 .. MaxParts
    BY Bounds, SMT DEF HifType, HifInv, PartInv, SenseInv, HandleLoads, Pc, rxVars
  <2> QED
    BY <2>1, <2>2, <2>3 DEF HifType
<1>2. HeldInv'
  BY NoMessageOp, SMT DEF HifType, HifInv, HeldInv, PartInv, HandleLoads, Owed, chipVars, pinVars, rxVars
<1>3. PartInv'
  BY SMT DEF HifType, HifInv, HeldInv, PartInv, HandleLoads, Owed, chipVars, pinVars, rxVars
<1>4. SenseInv'
  BY SMT DEF HifType, HifInv, HeldInv, PartInv, SenseInv, HandleLoads, Owed, chipVars, pinVars, rxVars
<1>5. AnnouncedOnce'
  BY SMT DEF HifType, HifInv, HeldInv, PartInv, SenseInv, AnnouncedOnce, HandleLoads, Owed, chipVars, pinVars, rxVars
<1> QED
  BY <1>1, <1>2, <1>3, <1>4, <1>5 DEF HifInv

LEMMA HandleStoresHif ==
  ASSUME HifType, HifInv, HandleStores
  PROVE  HifType' /\ HifInv'
<1>1. HifType'
  <2>1. /\ bit0' \in BOOLEAN /\ flag' \in BOOLEAN /\ sense' \in BOOLEAN
        /\ registered' \in BOOLEAN /\ u8HifRXDone' \in BOOLEAN /\ failed' \in BOOLEAN
    BY Zenon DEF HifType, HandleStores, chipVars, pinVars, rxVars
  <2>2. /\ queue' \in Seq(Message)
        /\ slot' \in Message \cup {NoMessage} /\ msg' \in Message \cup {NoMessage}
    BY SMT DEF HifType, HandleStores, chipVars, rxVars
  <2>3. /\ u8Interrupt' \in 0 .. 255 /\ loaded' \in 0 .. 255
        /\ pc' \in Pc /\ then' \in {"handle", "tail", "isr"} /\ left' \in 0 .. MaxParts
    BY Bounds, SMT DEF HifType, HifInv, PartInv, SenseInv, HandleStores, Pc, rxVars
  <2> QED
    BY <2>1, <2>2, <2>3 DEF HifType
<1>2. HeldInv'
  BY NoMessageOp, SMT DEF HifType, HifInv, HeldInv, PartInv, HandleStores, Owed, chipVars, pinVars, rxVars
<1>3. PartInv'
  BY SMT DEF HifType, HifInv, HeldInv, PartInv, HandleStores, Owed, chipVars, pinVars, rxVars
<1>4. SenseInv'
  BY SMT DEF HifType, HifInv, HeldInv, PartInv, SenseInv, HandleStores, Owed, chipVars, pinVars, rxVars
<1>5. AnnouncedOnce'
  BY SMT DEF HifType, HifInv, HeldInv, PartInv, SenseInv, AnnouncedOnce, HandleStores, Owed, chipVars, pinVars, rxVars
<1> QED
  BY <1>1, <1>2, <1>3, <1>4, <1>5 DEF HifInv

LEMMA IsrSeesHif ==
  ASSUME HifType, HifInv, IsrSees
  PROVE  HifType' /\ HifInv'
<1>1. HifType'
  <2>1. /\ bit0' \in BOOLEAN /\ flag' \in BOOLEAN /\ sense' \in BOOLEAN
        /\ registered' \in BOOLEAN /\ u8HifRXDone' \in BOOLEAN /\ failed' \in BOOLEAN
    BY Zenon DEF HifType, IsrSees, chipVars, pinVars, rxVars
  <2>2. /\ queue' \in Seq(Message)
        /\ slot' \in Message \cup {NoMessage} /\ msg' \in Message \cup {NoMessage}
    BY SMT DEF HifType, IsrSees, chipVars, rxVars
  <2>3. /\ u8Interrupt' \in 0 .. 255 /\ loaded' \in 0 .. 255
        /\ pc' \in Pc /\ then' \in {"handle", "tail", "isr"} /\ left' \in 0 .. MaxParts
    BY Bounds, SMT DEF HifType, HifInv, PartInv, SenseInv, IsrSees, Pc, rxVars
  <2> QED
    BY <2>1, <2>2, <2>3 DEF HifType
<1>2. HeldInv'
  BY NoMessageOp, SMT DEF HifType, HifInv, HeldInv, PartInv, IsrSees, Owed, chipVars, pinVars, rxVars
<1>3. PartInv'
  BY SMT DEF HifType, HifInv, HeldInv, PartInv, IsrSees, Owed, chipVars, pinVars, rxVars
<1>4. SenseInv'
  BY SMT DEF HifType, HifInv, HeldInv, PartInv, SenseInv, IsrSees, Owed, chipVars, pinVars, rxVars
<1>5. AnnouncedOnce'
  BY SMT DEF HifType, HifInv, HeldInv, PartInv, SenseInv, AnnouncedOnce, IsrSees, Owed, chipVars, pinVars, rxVars
<1> QED
  BY <1>1, <1>2, <1>3, <1>4, <1>5 DEF HifInv

LEMMA IsrClearsHif ==
  ASSUME HifType, HifInv, IsrClears
  PROVE  HifType' /\ HifInv'
<1>1. HifType'
  <2>1. /\ bit0' \in BOOLEAN /\ flag' \in BOOLEAN /\ sense' \in BOOLEAN
        /\ registered' \in BOOLEAN /\ u8HifRXDone' \in BOOLEAN /\ failed' \in BOOLEAN
    BY Zenon DEF HifType, IsrClears, chipVars, pinVars, rxVars
  <2>2. /\ queue' \in Seq(Message)
        /\ slot' \in Message \cup {NoMessage} /\ msg' \in Message \cup {NoMessage}
    BY SMT DEF HifType, IsrClears, chipVars, rxVars
  <2>3. /\ u8Interrupt' \in 0 .. 255 /\ loaded' \in 0 .. 255
        /\ pc' \in Pc /\ then' \in {"handle", "tail", "isr"} /\ left' \in 0 .. MaxParts
    BY Bounds, SMT DEF HifType, HifInv, PartInv, SenseInv, IsrClears, Pc, rxVars
  <2> QED
    BY <2>1, <2>2, <2>3 DEF HifType
<1>2. HeldInv'
  BY NoMessageOp, SMT DEF HifType, HifInv, HeldInv, PartInv, IsrClears, Owed, chipVars, pinVars, rxVars
<1>3. PartInv'
  BY SMT DEF HifType, HifInv, HeldInv, PartInv, IsrClears, Owed, chipVars, pinVars, rxVars
<1>4. SenseInv'
  BY SMT DEF HifType, HifInv, HeldInv, PartInv, SenseInv, IsrClears, Owed, chipVars, pinVars, rxVars
<1>5. AnnouncedOnce'
  BY SMT DEF HifType, HifInv, HeldInv, PartInv, SenseInv, AnnouncedOnce, IsrClears, Owed, chipVars, pinVars, rxVars
<1> QED
  BY <1>1, <1>2, <1>3, <1>4, <1>5 DEF HifInv

LEMMA IsrDispatchesHif ==
  ASSUME HifType, HifInv, IsrDispatches
  PROVE  HifType' /\ HifInv'
<1>1. HifType'
  <2>1. /\ bit0' \in BOOLEAN /\ flag' \in BOOLEAN /\ sense' \in BOOLEAN
        /\ registered' \in BOOLEAN /\ u8HifRXDone' \in BOOLEAN /\ failed' \in BOOLEAN
    BY Zenon DEF HifType, IsrDispatches, chipVars, pinVars, rxVars
  <2>2. /\ queue' \in Seq(Message)
        /\ slot' \in Message \cup {NoMessage} /\ msg' \in Message \cup {NoMessage}
    BY SMT DEF HifType, IsrDispatches, chipVars, rxVars
  <2>3. /\ u8Interrupt' \in 0 .. 255 /\ loaded' \in 0 .. 255
        /\ pc' \in Pc /\ then' \in {"handle", "tail", "isr"} /\ left' \in 0 .. MaxParts
    <3>1. slot \in Message
      BY Zenon DEF HifType, HifInv, HeldInv, IsrDispatches, Owed
    <3>2. slot.parts \in 0 .. MaxParts
      BY <3>1, Bounds, SMT DEF Message
    <3> QED
      BY <3>2, SMT DEF HifType, IsrDispatches, Pc, rxVars
  <2> QED
    BY <2>1, <2>2, <2>3 DEF HifType
<1>2. HeldInv'
  BY NoMessageOp, SMT DEF HifType, HifInv, HeldInv, PartInv, IsrDispatches, Owed, chipVars, pinVars, rxVars
<1>3. PartInv'
  <2>1. slot \in Message
    BY Zenon DEF HifType, HifInv, HeldInv, IsrDispatches, Owed
  <2>2. slot.parts # 0
    BY <2>1, Bounds, SMT DEF Message
  <2> QED
    BY <2>2, SMT DEF HifType, HifInv, PartInv, IsrDispatches, chipVars, rxVars
<1>4. SenseInv'
  BY SMT DEF HifType, HifInv, HeldInv, PartInv, SenseInv, IsrDispatches, Owed, chipVars, pinVars, rxVars
<1>5. AnnouncedOnce'
  BY SMT DEF HifType, HifInv, HeldInv, PartInv, SenseInv, AnnouncedOnce, IsrDispatches, Owed, chipVars, pinVars, rxVars
<1> QED
  BY <1>1, <1>2, <1>3, <1>4, <1>5 DEF HifInv

LEMMA RxDoneWrittenHif ==
  ASSUME HifType, HifInv, RxDoneWritten
  PROVE  HifType' /\ HifInv'
<1>1. HifType'
  <2>1. /\ bit0' \in BOOLEAN /\ flag' \in BOOLEAN /\ sense' \in BOOLEAN
        /\ registered' \in BOOLEAN /\ u8HifRXDone' \in BOOLEAN /\ failed' \in BOOLEAN
    BY Zenon DEF HifType, RxDoneWritten, chipVars, pinVars, rxVars
  <2>2. /\ queue' \in Seq(Message)
        /\ slot' \in Message \cup {NoMessage} /\ msg' \in Message \cup {NoMessage}
    BY SMT DEF HifType, RxDoneWritten, chipVars, rxVars
  <2>3. /\ u8Interrupt' \in 0 .. 255 /\ loaded' \in 0 .. 255
        /\ pc' \in Pc /\ then' \in {"handle", "tail", "isr"} /\ left' \in 0 .. MaxParts
    <3>1. u8Interrupt' \in 0 .. 255 /\ loaded' \in 0 .. 255
      BY Zenon DEF HifType, RxDoneWritten
    <3>2. pc' \in Pc /\ then' \in {"handle", "tail", "isr"}
      BY Zenon DEF HifType, RxDoneWritten, Pc
    <3>3. left' \in 0 .. MaxParts
      BY Zenon DEF HifType, RxDoneWritten
    <3> QED
      BY <3>1, <3>2, <3>3
  <2> QED
    BY <2>1, <2>2, <2>3 DEF HifType
<1>2. HeldInv'
  BY NoMessageOp, SMT DEF HifType, HifInv, HeldInv, PartInv, RxDoneWritten, Owed, chipVars, pinVars, rxVars
<1>3. PartInv'
  BY SMT DEF HifType, HifInv, HeldInv, PartInv, RxDoneWritten, Owed, chipVars, pinVars, rxVars
<1>4. SenseInv'
  BY SMT DEF HifType, HifInv, HeldInv, PartInv, SenseInv, RxDoneWritten, Owed, chipVars, pinVars, rxVars
<1>5. AnnouncedOnce'
  BY SMT DEF HifType, HifInv, HeldInv, PartInv, SenseInv, AnnouncedOnce, RxDoneWritten, Owed, chipVars, pinVars, rxVars
<1> QED
  BY <1>1, <1>2, <1>3, <1>4, <1>5 DEF HifInv

LEMMA ReceiveHif ==
  ASSUME HifType, HifInv, NEW d \in BOOLEAN, d => left = 1, Receive(d)
  PROVE  HifType' /\ HifInv'
<1>1. HifType'
  <2>1. /\ bit0' \in BOOLEAN /\ flag' \in BOOLEAN /\ sense' \in BOOLEAN
        /\ registered' \in BOOLEAN /\ u8HifRXDone' \in BOOLEAN /\ failed' \in BOOLEAN
    BY Zenon DEF HifType, Receive, SetRxDone, chipVars, pinVars, rxVars
  <2>2. /\ queue' \in Seq(Message)
        /\ slot' \in Message \cup {NoMessage} /\ msg' \in Message \cup {NoMessage}
    BY SMT DEF HifType, Receive, SetRxDone, chipVars, rxVars
  <2>3. /\ u8Interrupt' \in 0 .. 255 /\ loaded' \in 0 .. 255
        /\ pc' \in Pc /\ then' \in {"handle", "tail", "isr"} /\ left' \in 0 .. MaxParts
    <3>1. u8Interrupt' \in 0 .. 255 /\ loaded' \in 0 .. 255
      BY Zenon DEF HifType, Receive
    <3>2. pc' \in Pc /\ then' \in {"handle", "tail", "isr"}
      BY Zenon DEF HifType, Receive, SetRxDone, Pc
    <3>3. left' \in 0 .. MaxParts
      BY Bounds, SMT DEF HifType, HifInv, PartInv, Receive
    <3> QED
      BY <3>1, <3>2, <3>3
  <2> QED
    BY <2>1, <2>2, <2>3 DEF HifType
<1>2. /\ pc = "receive" /\ slot' = slot /\ bit0' = bit0 /\ msg' = msg /\ queue' = queue
      /\ flag' = flag /\ registered' = registered /\ failed' = failed
      /\ u8Interrupt' = u8Interrupt /\ loaded' = loaded
  BY Zenon DEF Receive, chipVars
<1>3. CASE left' = left - 1 /\ (left' = 0 \/ d) /\ SetRxDone("handle")
  <2>1. left = 1 => left - 1 = 0
    BY SMT
  <2>2. left' = 0 /\ ~u8HifRXDone' /\ sense' /\ pc' = "rxdone" /\ then' = "handle"
    BY <1>3, <2>1, Zenon DEF SetRxDone
  <2> QED
    BY <1>1, <1>2, <2>2, Zenon DEF HifInv, HeldInv, PartInv, SenseInv, AnnouncedOnce, Owed
<1>4. CASE left' = left - 1 /\ left' # 0 /\ pc' = "handle"
           /\ UNCHANGED <<sense, u8HifRXDone, then>>
  <2>1. HeldInv' /\ PartInv' /\ SenseInv'
    BY <1>2, <1>4, Zenon DEF HifInv, HeldInv, PartInv, SenseInv, Owed
  <2> QED
    BY <1>1, <1>2, <1>4, <2>1, Zenon DEF HifInv, AnnouncedOnce
<1>5. CASE pc' = "tail" /\ UNCHANGED <<left, sense, u8HifRXDone, then>>
  <2>1. HeldInv' /\ PartInv' /\ SenseInv'
    BY <1>2, <1>5, Zenon DEF HifInv, HeldInv, PartInv, SenseInv, Owed
  <2> QED
    BY <1>1, <1>2, <1>5, <2>1, Zenon DEF HifInv, AnnouncedOnce
<1> QED
  BY <1>3, <1>4, <1>5, Zenon DEF Receive

LEMMA IsrEndsHif ==
  ASSUME HifType, HifInv, IsrEnds
  PROVE  HifType' /\ HifInv'
<1>1. HifType'
  <2>1. /\ bit0' \in BOOLEAN /\ flag' \in BOOLEAN /\ sense' \in BOOLEAN
        /\ registered' \in BOOLEAN /\ u8HifRXDone' \in BOOLEAN /\ failed' \in BOOLEAN
    BY Zenon DEF HifType, IsrEnds, SetRxDone, chipVars, pinVars, rxVars
  <2>2. /\ queue' \in Seq(Message)
        /\ slot' \in Message \cup {NoMessage} /\ msg' \in Message \cup {NoMessage}
    BY SMT DEF HifType, IsrEnds, SetRxDone, chipVars, rxVars
  <2>3. /\ u8Interrupt' \in 0 .. 255 /\ loaded' \in 0 .. 255
        /\ pc' \in Pc /\ then' \in {"handle", "tail", "isr"} /\ left' \in 0 .. MaxParts
    <3>1. u8Interrupt' \in 0 .. 255 /\ loaded' \in 0 .. 255
      BY Zenon DEF HifType, IsrEnds
    <3>2. pc' \in Pc /\ then' \in {"handle", "tail", "isr"}
      BY Zenon DEF HifType, IsrEnds, SetRxDone, Pc
    <3>3. left' \in 0 .. MaxParts
      BY Bounds, SMT DEF HifType, IsrEnds
    <3> QED
      BY <3>1, <3>2, <3>3
  <2> QED
    BY <2>1, <2>2, <2>3 DEF HifType
<1>2. HeldInv'
  BY NoMessageOp, SMT DEF HifType, HifInv, HeldInv, PartInv, IsrEnds, SetRxDone, Owed, chipVars, pinVars, rxVars
<1>3. PartInv'
  BY SMT DEF HifType, HifInv, HeldInv, PartInv, IsrEnds, SetRxDone, Owed, chipVars, pinVars, rxVars
<1>4. SenseInv'
  BY SMT DEF HifType, HifInv, HeldInv, PartInv, SenseInv, IsrEnds, SetRxDone, Owed, chipVars, pinVars, rxVars
<1>5. AnnouncedOnce'
  BY SMT DEF HifType, HifInv, HeldInv, PartInv, SenseInv, AnnouncedOnce, IsrEnds, SetRxDone, Owed, chipVars, pinVars, rxVars
<1> QED
  BY <1>1, <1>2, <1>3, <1>4, <1>5 DEF HifInv

LEMMA GoesHif ==
  ASSUME HifType, HifInv, NEW k \in {"tail", "receive", "done"}, k = "tail" \/ left # 0, Goes(k)
  PROVE  HifType' /\ HifInv'
<1>1. HifType'
  <2>1. /\ bit0' \in BOOLEAN /\ flag' \in BOOLEAN /\ sense' \in BOOLEAN
        /\ registered' \in BOOLEAN /\ u8HifRXDone' \in BOOLEAN /\ failed' \in BOOLEAN
    BY Zenon DEF HifType, Goes, SetRxDone, chipVars, pinVars, rxVars
  <2>2. /\ queue' \in Seq(Message)
        /\ slot' \in Message \cup {NoMessage} /\ msg' \in Message \cup {NoMessage}
    BY SMT DEF HifType, Goes, SetRxDone, chipVars, rxVars
  <2>3. /\ u8Interrupt' \in 0 .. 255 /\ loaded' \in 0 .. 255
        /\ pc' \in Pc /\ then' \in {"handle", "tail", "isr"} /\ left' \in 0 .. MaxParts
    <3>1. u8Interrupt' \in 0 .. 255 /\ loaded' \in 0 .. 255
      BY Zenon DEF HifType, Goes
    <3>2. pc' \in Pc /\ then' \in {"handle", "tail", "isr"}
      BY Zenon DEF HifType, Goes, SetRxDone, Pc
    <3>3. left' \in 0 .. MaxParts
      BY Zenon DEF HifType, Goes
    <3> QED
      BY <3>1, <3>2, <3>3
  <2> QED
    BY <2>1, <2>2, <2>3 DEF HifType
<1>2. HeldInv'
  BY NoMessageOp, SMT DEF HifType, HifInv, HeldInv, PartInv, Goes, SetRxDone, Owed, chipVars, pinVars, rxVars
<1>3. PartInv'
  BY SMT DEF HifType, HifInv, HeldInv, PartInv, Goes, SetRxDone, Owed, chipVars, pinVars, rxVars
<1>4. SenseInv'
  BY SMT DEF HifType, HifInv, HeldInv, PartInv, SenseInv, Goes, SetRxDone, Owed, chipVars, pinVars, rxVars
<1>5. AnnouncedOnce'
  BY SMT DEF HifType, HifInv, HeldInv, PartInv, SenseInv, AnnouncedOnce, Goes, SetRxDone, Owed, chipVars, pinVars, rxVars
<1> QED
  BY <1>1, <1>2, <1>3, <1>4, <1>5 DEF HifInv

LEMMA ReinitCalledHif ==
  ASSUME HifType, HifInv, ReinitCalled
  PROVE  HifType' /\ HifInv'
<1>1. HifType'
  <2>1. /\ bit0' \in BOOLEAN /\ flag' \in BOOLEAN /\ sense' \in BOOLEAN
        /\ registered' \in BOOLEAN /\ u8HifRXDone' \in BOOLEAN /\ failed' \in BOOLEAN
    BY Zenon DEF HifType, ReinitCalled, chipVars, pinVars, rxVars
  <2>2. /\ queue' \in Seq(Message)
        /\ slot' \in Message \cup {NoMessage} /\ msg' \in Message \cup {NoMessage}
    BY SMT DEF HifType, ReinitCalled, chipVars, rxVars
  <2>3. /\ u8Interrupt' \in 0 .. 255 /\ loaded' \in 0 .. 255
        /\ pc' \in Pc /\ then' \in {"handle", "tail", "isr"} /\ left' \in 0 .. MaxParts
    BY Bounds, SMT DEF HifType, HifInv, PartInv, SenseInv, ReinitCalled, Pc, rxVars
  <2> QED
    BY <2>1, <2>2, <2>3 DEF HifType
<1>2. HeldInv'
  BY NoMessageOp, SMT DEF HifType, HifInv, HeldInv, PartInv, ReinitCalled, Owed, chipVars, pinVars, rxVars
<1>3. PartInv'
  BY SMT DEF HifType, HifInv, HeldInv, PartInv, ReinitCalled, Owed, chipVars, pinVars, rxVars
<1>4. SenseInv'
  BY SMT DEF HifType, HifInv, HeldInv, PartInv, SenseInv, ReinitCalled, Owed, chipVars, pinVars, rxVars
<1>5. AnnouncedOnce'
  BY SMT DEF HifType, HifInv, HeldInv, PartInv, SenseInv, AnnouncedOnce, ReinitCalled, Owed, chipVars, pinVars, rxVars
<1> QED
  BY <1>1, <1>2, <1>3, <1>4, <1>5 DEF HifInv

LEMMA HifDeinitHif ==
  ASSUME HifType, HifInv, HifDeinit
  PROVE  HifType' /\ HifInv'
<1>1. HifType'
  <2>1. /\ bit0' \in BOOLEAN /\ flag' \in BOOLEAN /\ sense' \in BOOLEAN
        /\ registered' \in BOOLEAN /\ u8HifRXDone' \in BOOLEAN /\ failed' \in BOOLEAN
    BY Zenon DEF HifType, HifDeinit, chipVars, pinVars, rxVars
  <2>2. /\ queue' \in Seq(Message)
        /\ slot' \in Message \cup {NoMessage} /\ msg' \in Message \cup {NoMessage}
    BY SMT DEF HifType, HifDeinit, chipVars, rxVars
  <2>3. /\ u8Interrupt' \in 0 .. 255 /\ loaded' \in 0 .. 255
        /\ pc' \in Pc /\ then' \in {"handle", "tail", "isr"} /\ left' \in 0 .. MaxParts
    BY Bounds, SMT DEF HifType, HifInv, PartInv, SenseInv, HifDeinit, Pc, rxVars
  <2> QED
    BY <2>1, <2>2, <2>3 DEF HifType
<1>2. HeldInv'
  BY NoMessageOp, SMT DEF HifType, HifInv, HeldInv, PartInv, HifDeinit, Owed, chipVars, pinVars, rxVars
<1>3. PartInv'
  BY SMT DEF HifType, HifInv, HeldInv, PartInv, HifDeinit, Owed, chipVars, pinVars, rxVars
<1>4. SenseInv'
  BY SMT DEF HifType, HifInv, HeldInv, PartInv, SenseInv, HifDeinit, Owed, chipVars, pinVars, rxVars
<1>5. AnnouncedOnce'
  BY SMT DEF HifType, HifInv, HeldInv, PartInv, SenseInv, AnnouncedOnce, HifDeinit, Owed, chipVars, pinVars, rxVars
<1> QED
  BY <1>1, <1>2, <1>3, <1>4, <1>5 DEF HifInv

LEMMA ChipResetHif ==
  ASSUME HifType, HifInv, ChipReset
  PROVE  HifType' /\ HifInv'
<1>1. HifType'
  <2>1. /\ bit0' \in BOOLEAN /\ flag' \in BOOLEAN /\ sense' \in BOOLEAN
        /\ registered' \in BOOLEAN /\ u8HifRXDone' \in BOOLEAN /\ failed' \in BOOLEAN
    BY Zenon DEF HifType, ChipReset, chipVars, pinVars, rxVars
  <2>2. /\ queue' \in Seq(Message)
        /\ slot' \in Message \cup {NoMessage} /\ msg' \in Message \cup {NoMessage}
    BY SMT DEF HifType, ChipReset, chipVars, rxVars
  <2>3. /\ u8Interrupt' \in 0 .. 255 /\ loaded' \in 0 .. 255
        /\ pc' \in Pc /\ then' \in {"handle", "tail", "isr"} /\ left' \in 0 .. MaxParts
    BY Bounds, SMT DEF HifType, HifInv, PartInv, SenseInv, ChipReset, Pc, rxVars
  <2> QED
    BY <2>1, <2>2, <2>3 DEF HifType
<1>2. HeldInv'
  BY NoMessageOp, SMT DEF HifType, HifInv, HeldInv, PartInv, ChipReset, Owed, chipVars, pinVars, rxVars
<1>3. PartInv'
  BY SMT DEF HifType, HifInv, HeldInv, PartInv, ChipReset, Owed, chipVars, pinVars, rxVars
<1>4. SenseInv'
  BY SMT DEF HifType, HifInv, HeldInv, PartInv, SenseInv, ChipReset, Owed, chipVars, pinVars, rxVars
<1>5. AnnouncedOnce'
  BY SMT DEF HifType, HifInv, HeldInv, PartInv, SenseInv, AnnouncedOnce, ChipReset, Owed, chipVars, pinVars, rxVars
<1> QED
  BY <1>1, <1>2, <1>3, <1>4, <1>5 DEF HifInv

LEMMA ChipStartsHif ==
  ASSUME HifType, HifInv, ChipStarts
  PROVE  HifType' /\ HifInv'
<1>1. HifType'
  <2>1. /\ bit0' \in BOOLEAN /\ flag' \in BOOLEAN /\ sense' \in BOOLEAN
        /\ registered' \in BOOLEAN /\ u8HifRXDone' \in BOOLEAN /\ failed' \in BOOLEAN
    BY Zenon DEF HifType, ChipStarts, chipVars, pinVars, rxVars
  <2>2. /\ queue' \in Seq(Message)
        /\ slot' \in Message \cup {NoMessage} /\ msg' \in Message \cup {NoMessage}
    BY SMT DEF HifType, ChipStarts, chipVars, rxVars
  <2>3. /\ u8Interrupt' \in 0 .. 255 /\ loaded' \in 0 .. 255
        /\ pc' \in Pc /\ then' \in {"handle", "tail", "isr"} /\ left' \in 0 .. MaxParts
    <3>1. 0 \in 0 .. 255 /\ "idle" \in Pc
      BY SMT DEF Pc
    <3> QED
      BY <3>1, Zenon DEF HifType, ChipStarts
  <2> QED
    BY <2>1, <2>2, <2>3 DEF HifType
<1>2. HeldInv'
  BY NoMessageOp, SMT DEF HifType, HifInv, HeldInv, PartInv, ChipStarts, Owed, chipVars, pinVars, rxVars
<1>3. PartInv'
  BY SMT DEF HifType, HifInv, HeldInv, PartInv, ChipStarts, Owed, chipVars, pinVars, rxVars
<1>4. SenseInv'
  BY SMT DEF HifType, HifInv, HeldInv, PartInv, SenseInv, ChipStarts, Owed, chipVars, pinVars, rxVars
<1>5. AnnouncedOnce'
  <2>1. /\ ~registered /\ ~flag /\ flag' = flag /\ bit0' = bit0 /\ pc' = "idle"
        /\ u8Interrupt' = 0 \/ failed'
    BY Zenon DEF ChipStarts, chipVars
  <2>2. ~bit0
    BY <2>1, Zenon DEF HifInv, SenseInv
  <2> QED
    BY <2>1, <2>2, SMT DEF AnnouncedOnce
<1> QED
  BY <1>1, <1>2, <1>3, <1>4, <1>5 DEF HifInv

-----------------------------------------------------------------------------
(* The sockets                                                                *)

\* Steps that leave the sockets alone
NoSock == UNCHANGED <<sockVars, requests, lost>>

LEMMA NoSockSession ==
  ASSUME SocketType, SessionInv, NoSock, pc' = "reset" => pc = "reset"
  PROVE  SocketType' /\ SessionInv'
BY Zenon DEF SocketType, SessionInv, NoSock, sockVars

\* what the queue holds, one message more or the first one less
LEMMA QueueMoves ==
  ASSUME NEW q \in Seq(Message)
  PROVE  /\ \A m \in Message :
               /\ Len(Append(q, m)) \in 1 .. Len(Append(q, m))
               /\ Append(q, m)[Len(Append(q, m))] = m
               /\ \A i \in 1 .. Len(q) : i \in 1 .. Len(Append(q, m)) /\ Append(q, m)[i] = q[i]
         /\ \A i \in 1 .. Len(q) :
               \/ i = 1 /\ q[i] = Head(q)
               \/ i - 1 \in 1 .. Len(Tail(q)) /\ Tail(q)[i - 1] = q[i]
  BY SMT

\* a receive's reply stays on its way
LEMMA NoSockComing ==
  ASSUME HifType, RecvComing, NoSock,
         \/ queue' = queue
         \/ \E m \in Message : queue' = Append(queue, m)
         \/ queue # <<>> /\ queue' = Tail(queue) /\ slot' = Head(queue),
         \A s \in Sockets :
            /\ gastrSockets[s].pending /\ gastrSockets[s].ses \notin lost
            /\ \/ slot.op = "recv" /\ slot.sock = s /\ slot.ses = gastrSockets[s].ses
               \/ pc = "handle" /\ msg.op = "recv" /\ msg.sock = s
                    /\ msg.ses = gastrSockets[s].ses
            => Coming(s)'
  PROVE  RecvComing'
<1> SUFFICES ASSUME NEW s \in Sockets, gastrSockets[s].pending,
                    gastrSockets[s].ses \notin lost
             PROVE  Coming(s)'
  BY Zenon DEF RecvComing, NoSock, sockVars
<1>1. Coming(s)
  BY Zenon DEF RecvComing
<1>2. /\ gastrSockets' = gastrSockets /\ requests' = requests
      /\ OfSocket("recv", s)' = OfSocket("recv", s)
  BY Zenon DEF NoSock, sockVars, OfSocket
<1>3. CASE OfSocket("recv", s) \in requests
  BY <1>2, <1>3, Zenon DEF Coming
<1>4. CASE \E i \in 1 .. Len(queue) : queue[i].op = "recv" /\ queue[i].sock = s
                                    /\ queue[i].ses = gastrSockets[s].ses
  <2>1. PICK i \in 1 .. Len(queue) : queue[i].op = "recv" /\ queue[i].sock = s
                                    /\ queue[i].ses = gastrSockets[s].ses
    BY <1>4
  <2>2. CASE queue' = queue
    BY <1>2, <2>1, <2>2, Zenon DEF Coming
  <2>3. CASE \E m \in Message : queue' = Append(queue, m)
    <3>1. PICK m \in Message : queue' = Append(queue, m)
      BY <2>3
    <3>2. queue \in Seq(Message)
      BY Zenon DEF HifType
    <3>3. i \in 1 .. Len(queue') /\ queue'[i] = queue[i]
      BY <3>1, <3>2, QueueMoves, Zenon
    <3> QED
      BY <1>2, <2>1, <3>3, Zenon DEF Coming
  <2>4. CASE queue # <<>> /\ queue' = Tail(queue) /\ slot' = Head(queue)
    <3>1. \/ slot' = queue[i]
          \/ i - 1 \in 1 .. Len(queue') /\ queue'[i - 1] = queue[i]
      BY <2>4, QueueMoves, Zenon DEF HifType
    <3> QED
      BY <1>2, <2>1, <3>1, Zenon DEF Coming
  <2> QED
    BY <2>2, <2>3, <2>4
<1>5. CASE \/ slot.op = "recv" /\ slot.sock = s /\ slot.ses = gastrSockets[s].ses
           \/ pc = "handle" /\ msg.op = "recv" /\ msg.sock = s
                /\ msg.ses = gastrSockets[s].ses
  BY <1>5, Zenon
<1> QED
  BY <1>1, <1>3, <1>4, <1>5, Zenon DEF Coming

LEMMA AnnounceSock ==
  ASSUME IInv, Announce, NoSock
  PROVE  SockInv'
<1>1. SocketType' /\ SessionInv'
  BY NoSockSession, Zenon DEF IInv, SockInv, Announce
<1>2. EndsInv' /\ DataInv'
  BY Zenon DEF IInv, SockInv, HifInv, HeldInv, EndsInv, DataInv, Ends, Announce, rxVars,
               NoSock, sockVars
<1>3. RecvComing'
  <2> SUFFICES ASSUME NEW s \in Sockets, pc = "handle", msg.op = "recv", msg.sock = s,
                      msg.ses = gastrSockets[s].ses
               PROVE  Coming(s)'
    <3>1. slot.op # "recv"
      BY SMT DEF Announce, Owed, NoMessage
    <3> QED
      BY <3>1, NoSockComing, Zenon DEF IInv, SockInv, Announce
  <2> QED
    BY Zenon DEF Coming, NoSock, sockVars, Announce, rxVars
<1> QED
  BY <1>1, <1>2, <1>3 DEF SockInv

LEMMA QueuedSock ==
  ASSUME IInv, NEW m \in Message, Queued(m), NoSock
  PROVE  SockInv'
<1>1. SocketType' /\ SessionInv'
  BY NoSockSession, Zenon DEF IInv, SockInv, Queued
<1>2. EndsInv' /\ DataInv'
  BY Zenon DEF IInv, SockInv, EndsInv, DataInv, Ends, Queued, rxVars, NoSock, sockVars
<1>3. \A s \in Sockets :
        \/ slot.op = "recv" /\ slot.sock = s /\ slot.ses = gastrSockets[s].ses
        \/ pc = "handle" /\ msg.op = "recv" /\ msg.sock = s
             /\ msg.ses = gastrSockets[s].ses
        => Coming(s)'
  BY Zenon DEF Coming, NoSock, sockVars, Queued, rxVars
<1>4. RecvComing'
  BY <1>3, NoSockComing, Zenon DEF IInv, SockInv, Queued
<1> QED
  BY <1>1, <1>2, <1>4 DEF SockInv

\* the steps of main and the pin that change neither queue nor slot
LEMMA MainSock ==
  ASSUME IInv, NoSock, pc # "handle", queue' = queue, slot' = slot,
         \/ IsrSees \/ IsrClears \/ IsrEnds \/ HandleLoads \/ HandleStores
         \/ ReinitCalled \/ IsrDispatches
  PROVE  SockInv'
<1>1. SocketType' /\ SessionInv'
  BY NoSockSession, Zenon DEF IInv, SockInv, IsrSees, IsrClears, IsrEnds, SetRxDone,
     HandleLoads, HandleStores, ReinitCalled, IsrDispatches
<1>2. EndsInv' /\ DataInv'
  <2>1. CASE IsrSees \/ IsrClears \/ HandleLoads \/ HandleStores \/ ReinitCalled
    BY <2>1, Zenon DEF EndsInv, DataInv, IsrSees, IsrClears, HandleLoads, HandleStores,
       ReinitCalled
  <2>2. CASE IsrEnds
    BY <2>2, Zenon DEF IInv, SockInv, EndsInv, DataInv, Ends, IsrEnds, SetRxDone, NoSock,
       sockVars
  <2>3. CASE IsrDispatches
    <3>1. left' = slot.parts /\ msg' = slot => ~(left' < msg'.parts)
      <4>1. slot \in Message
        BY <2>3, Zenon DEF IInv, HifType, HifInv, HeldInv, IsrDispatches, Owed
      <4>2. slot.parts \in Int
        BY <4>1, Bounds, SMT DEF Message
      <4> QED
        BY <4>2, SMT
    <3> QED
      BY <2>3, <3>1, Zenon DEF EndsInv, DataInv, Ends, IsrDispatches, NoSock, sockVars
  <2> QED
    BY <2>1, <2>2, <2>3
<1>3. \A s \in Sockets :
        slot.op = "recv" /\ slot.sock = s /\ slot.ses = gastrSockets[s].ses
        => Coming(s)'
  BY Zenon DEF Coming, NoSock, sockVars
<1>4. RecvComing'
  BY <1>3, NoSockComing, Zenon DEF IInv, SockInv
<1> QED
  BY <1>1, <1>2, <1>4 DEF SockInv

LEMMA IsrSock ==
  ASSUME IInv, Isr, NoSock
  PROVE  SockInv'
<1>1. SocketType' /\ SessionInv'
  BY NoSockSession, Zenon DEF IInv, SockInv, Isr
<1>2. EndsInv' /\ DataInv'
  BY Zenon DEF IInv, SockInv, EndsInv, DataInv, Ends, Isr, chipVars, rxVars, NoSock, sockVars
<1>3. \A s \in Sockets :
        \/ slot.op = "recv" /\ slot.sock = s /\ slot.ses = gastrSockets[s].ses
        \/ pc = "handle" /\ msg.op = "recv" /\ msg.sock = s
             /\ msg.ses = gastrSockets[s].ses
        => Coming(s)'
  BY Zenon DEF Coming, NoSock, sockVars, Isr, chipVars, rxVars
<1>4. RecvComing'
  BY <1>3, NoSockComing, Zenon DEF IInv, SockInv, Isr, chipVars
<1> QED
  BY <1>1, <1>2, <1>4 DEF SockInv

LEMMA UnusedIs == ~Unused.used /\ ~Unused.pending /\ ~Unused.buffer /\ Unused.ses = 0
  BY DEF Unused

LEMMA ComingKept ==
  ASSUME NEW s \in Sockets, Coming(s), queue' = queue, slot' = slot,
         gastrSockets'[s].ses = gastrSockets[s].ses,
         OfSocket("recv", s) \in requests => OfSocket("recv", s) \in requests',
         ~(/\ pc = "handle" /\ msg.op = "recv" /\ msg.sock = s
           /\ msg.ses = gastrSockets[s].ses)
  PROVE  Coming(s)'
BY Zenon DEF Coming, OfSocket

\* close: the socket has no receive any more, the others keep what they have
LEMMA ClosedSock ==
  ASSUME SocketType, SessionInv, NEW s \in Sockets, NEW ok \in BOOLEAN, Closed(s, ok),
         pc' = "reset" => pc = "reset"
  PROVE  /\ SocketType' /\ SessionInv'
         /\ gastrSockets'[s] = Unused /\ lost' = lost
         /\ \A t \in Sockets \ {s} :
              /\ gastrSockets'[t] = gastrSockets[t]
              /\ gastrSockets[t].pending /\ OfSocket("recv", t) \in requests =>
                    OfSocket("recv", t) \in requests'
<1>1. /\ gastrSockets'[s] = Unused
      /\ \A t \in Sockets \ {s} : gastrSockets'[t] = gastrSockets[t]
  BY SMT DEF Closed, SocketType
<1>2. SocketType'
  <2>1. Unused \in [used : BOOLEAN, ses : 0 .. MaxSession, pending : BOOLEAN,
                    buffer : BOOLEAN]
    BY Bounds, SMT DEF Unused
  <2>2. gastrSockets' \in [Sockets -> [used : BOOLEAN, ses : 0 .. MaxSession,
                                      pending : BOOLEAN, buffer : BOOLEAN]]
    BY <2>1, Zenon DEF Closed, SocketType
  <2>3. requests' \subseteq Request
    BY Zenon DEF Closed, SocketType
  <2> QED
    BY <2>2, <2>3, Zenon DEF Closed, SocketType
<1>3. SessionInv'
  <2>2. gu16SessionID' = gu16SessionID
    BY DEF Closed
  <2> QED
    <3>1. \A t, u \in Sockets :
            gastrSockets[t].used /\ gastrSockets[u].used /\ t # u =>
               gastrSockets[t].ses # gastrSockets[u].ses
      BY Zenon DEF SessionInv
    <3>2. \A t, u \in Sockets :
            gastrSockets'[t].used /\ gastrSockets'[u].used /\ t # u =>
               gastrSockets'[t].ses # gastrSockets'[u].ses
      BY <1>1, <3>1, UnusedIs, Zenon
    <3>3. \A t \in Sockets : t = s \/ t \in Sockets \ {s}
      OBVIOUS
    <3>4. ASSUME NEW t \in Sockets
          PROVE  /\ ~gastrSockets'[t].used => /\ ~gastrSockets'[t].pending
                                               /\ ~gastrSockets'[t].buffer
                                               /\ gastrSockets'[t].ses = 0
                 /\ gastrSockets'[t].used => gastrSockets'[t].ses \in 1 .. gu16SessionID'
                 /\ pc' = "reset" => ~gastrSockets'[t].used
      BY <1>1, <2>2, <3>3, UnusedIs, Zenon DEF SessionInv
    <3> QED
      BY <3>2, <3>4, Zenon DEF SessionInv
<1>4. ASSUME NEW t \in Sockets \ {s}, gastrSockets[t].pending,
             OfSocket("recv", t) \in requests
      PROVE  OfSocket("recv", t) \in requests'
  <2>1. gastrSockets[t].used
    BY <1>4, Zenon DEF SessionInv
  <2>2. gastrSockets[t].ses # gastrSockets[s].ses
    BY <2>1, Zenon DEF SessionInv, Closed
  <2>3. OfSocket("recv", t).ses = gastrSockets[t].ses
    BY DEF OfSocket
  <2> QED
    BY <1>4, <2>2, <2>3, Zenon DEF Closed
<1> QED
  BY <1>1, <1>2, <1>3, <1>4, Zenon DEF Closed

LEMMA CloseSock ==
  ASSUME IInv, NEW s \in Sockets, NEW ok \in BOOLEAN, Close(s, ok)
  PROVE  SockInv'
<1>1. /\ pc = "idle" /\ pc' = "idle" /\ queue' = queue /\ slot' = slot
      /\ Closed(s, ok)
  BY Zenon DEF Close, Idle, hifVars, chipVars
<1>2. /\ SocketType' /\ SessionInv'
      /\ gastrSockets'[s] = Unused /\ lost' = lost
      /\ \A t \in Sockets \ {s} :
           /\ gastrSockets'[t] = gastrSockets[t]
           /\ gastrSockets[t].pending /\ OfSocket("recv", t) \in requests =>
                 OfSocket("recv", t) \in requests'
  BY <1>1, ClosedSock, Zenon DEF IInv, SockInv
<1>3. RecvComing'
  <2> SUFFICES ASSUME NEW t \in Sockets, gastrSockets'[t].pending
               PROVE  Coming(t)' \/ gastrSockets'[t].ses \in lost'
    BY Zenon DEF RecvComing
  <2>1. t # s
    <3>1. Unused.pending = FALSE
      BY DEF Unused
    <3> QED
      BY <1>2, <3>1, Zenon
  <2>2. Coming(t) \/ gastrSockets[t].ses \in lost
    BY <1>2, <2>1, Zenon DEF IInv, SockInv, RecvComing
  <2> QED
    BY <1>1, <1>2, <2>1, <2>2, ComingKept, Zenon
<1>4. EndsInv' /\ DataInv'
  BY <1>1, Zenon DEF EndsInv, DataInv
<1> QED
  BY <1>2, <1>3, <1>4, Zenon DEF SockInv

\* A callback: the receive of its message does not wait for it.
LEMMA CalledBackSock ==
  ASSUME IInv, CalledBack, pc = "handle", queue' = queue, slot' = slot, msg' = msg,
         pc' # "reset", ~Ends(msg)
  PROVE  /\ SocketType' /\ SessionInv' /\ RecvComing'
         /\ \/ UNCHANGED <<gastrSockets, lost>>
            \/ gastrSockets'[msg.sock] = Unused
<1>1. CASE UNCHANGED <<sockVars, requests, lost>>
  <2>1. SocketType' /\ SessionInv'
    BY <1>1, NoSockSession, Zenon DEF NoSock, IInv, SockInv
  <2>2. \A s \in Sockets :
          /\ gastrSockets[s].pending /\ gastrSockets[s].ses \notin lost
          /\ \/ slot.op = "recv" /\ slot.sock = s /\ slot.ses = gastrSockets[s].ses
             \/ pc = "handle" /\ msg.op = "recv" /\ msg.sock = s
                  /\ msg.ses = gastrSockets[s].ses
          => Coming(s)'
    BY <1>1, Zenon DEF Ends, Coming, sockVars
  <2>3. RecvComing'
    BY <1>1, <2>2, NoSockComing, Zenon DEF NoSock, IInv, SockInv
  <2> QED
    BY <1>1, <2>1, <2>3, Zenon DEF sockVars
<1>2. CASE \E ok \in BOOLEAN : (ok => registered) /\ Closed(msg.sock, ok)
  <2>1. PICK ok \in BOOLEAN : Closed(msg.sock, ok)
    BY <1>2
  <2>2. msg.sock \in Sockets
    <3>1. 0 \in Sockets
      BY Bounds, SMT DEF Sockets
    <3> QED
      BY <3>1, SMT DEF IInv, HifType, Message, NoMessage
  <2>3. /\ SocketType' /\ SessionInv'
        /\ gastrSockets'[msg.sock] = Unused /\ lost' = lost
        /\ \A t \in Sockets \ {msg.sock} :
             /\ gastrSockets'[t] = gastrSockets[t]
             /\ gastrSockets[t].pending /\ OfSocket("recv", t) \in requests =>
                   OfSocket("recv", t) \in requests'
    BY <2>1, <2>2, ClosedSock, Zenon DEF IInv, SockInv
  <2>4. RecvComing'
    <3> SUFFICES ASSUME NEW t \in Sockets, gastrSockets'[t].pending
                 PROVE  Coming(t)' \/ gastrSockets'[t].ses \in lost'
      BY Zenon DEF RecvComing
    <3>1. t # msg.sock
      <4>1. Unused.pending = FALSE
        BY DEF Unused
      <4> QED
        BY <2>3, <4>1, Zenon
    <3>2. Coming(t) \/ gastrSockets[t].ses \in lost
      BY <2>3, <3>1, Zenon DEF IInv, SockInv, RecvComing
    <3> QED
      BY <2>3, <3>1, <3>2, ComingKept, Zenon
  <2> QED
    BY <2>3, <2>4
<1> QED
  BY <1>1, <1>2, Zenon DEF CalledBack

\* with every socket closed there is nothing to say of them
LEMMA UnusedSock ==
  ASSUME \A s \in Sockets : /\ ~gastrSockets[s].used /\ ~gastrSockets[s].pending
                             /\ ~gastrSockets[s].buffer /\ gastrSockets[s].ses = 0
  PROVE  SessionInv /\ RecvComing
BY Zenon DEF SessionInv, RecvComing

LEMMA UnusedType ==
  Unused \in [used : BOOLEAN, ses : 0 .. MaxSession, pending : BOOLEAN, buffer : BOOLEAN]
  BY Bounds, SMT DEF Unused

LEMMA OpenedType ==
  ASSUME NEW n \in 0 .. MaxSession, NEW b \in BOOLEAN
  PROVE  Opened(n, b) \in [used : BOOLEAN, ses : 0 .. MaxSession, pending : BOOLEAN,
                           buffer : BOOLEAN]
  BY DEF Opened

\* the end of a pending receive
LEMMA ResetType ==
  ASSUME NEW u \in [used : BOOLEAN, ses : 0 .. MaxSession, pending : BOOLEAN,
                    buffer : BOOLEAN]
  PROVE  /\ [u EXCEPT !.pending = FALSE] \in
              [used : BOOLEAN, ses : 0 .. MaxSession, pending : BOOLEAN, buffer : BOOLEAN]
         /\ [u EXCEPT !.pending = FALSE].pending = FALSE
         /\ [u EXCEPT !.pending = FALSE].used = u.used
         /\ [u EXCEPT !.pending = FALSE].ses = u.ses
         /\ [u EXCEPT !.pending = FALSE].buffer = u.buffer
<1>1. [u EXCEPT !.pending = FALSE] \in
        [used : BOOLEAN, ses : 0 .. MaxSession, pending : BOOLEAN, buffer : BOOLEAN]
  BY Zenon
<1> QED
  BY <1>1, SMT

LEMMA DeinitSock ==
  ASSUME IInv, Deinit
  PROVE  SockInv'
<1>1. SocketType'
  BY UnusedType, Zenon DEF Deinit, IInv, SockInv, SocketType
<1>2. SessionInv' /\ RecvComing'
  <2>1. \A s \in Sockets : gastrSockets'[s] = Unused
    BY Zenon DEF Deinit
  <2>2. \A s \in Sockets : /\ ~gastrSockets'[s].used /\ ~gastrSockets'[s].pending
                            /\ ~gastrSockets'[s].buffer /\ gastrSockets'[s].ses = 0
    BY <2>1, UnusedIs, Zenon
  <2>3. (\A s \in Sockets : /\ ~gastrSockets[s].used /\ ~gastrSockets[s].pending
                             /\ ~gastrSockets[s].buffer /\ gastrSockets[s].ses = 0)'
    BY <2>2
  <2> QED
    BY <2>3, UnusedSock, PTL
<1>3. EndsInv' /\ DataInv'
  BY Zenon DEF EndsInv, DataInv, Deinit, HifDeinit
<1> QED
  BY <1>1, <1>2, <1>3 DEF SockInv

LEMMA ResetSock ==
  ASSUME IInv, Reset
  PROVE  SockInv'
<1>1. SocketType'
  BY Zenon DEF Reset, sockVars, IInv, SockInv, SocketType
<1>2. gastrSockets' = gastrSockets /\ pc = "reset"
  BY Zenon DEF Reset, ChipReset, sockVars
<1>3. SessionInv' /\ RecvComing'
  <2>1. SessionInv'
    BY <1>2, Zenon DEF IInv, SockInv, SessionInv, Reset, sockVars
  <2>2. \A s \in Sockets : ~gastrSockets'[s].pending
    BY <1>2, Zenon DEF IInv, SockInv, SessionInv
  <2> QED
    BY <2>1, <2>2, Zenon DEF RecvComing
<1>4. EndsInv' /\ DataInv'
  BY Zenon DEF EndsInv, DataInv, Reset, ChipReset
<1> QED
  BY <1>1, <1>3, <1>4 DEF SockInv

LEMMA StartsSock ==
  ASSUME IInv, Starts
  PROVE  SockInv'
<1>1. SocketType'
  <2>1. 0 \in 0 .. MaxSession
    BY Bounds, SMT
  <2> QED
    BY <2>1, UnusedType, Zenon DEF Starts, IInv, SockInv, SocketType
<1>2. SessionInv' /\ RecvComing'
  <2>1. \A s \in Sockets : gastrSockets'[s] = Unused
    BY Zenon DEF Starts
  <2>2. \A s \in Sockets : /\ ~gastrSockets'[s].used /\ ~gastrSockets'[s].pending
                            /\ ~gastrSockets'[s].buffer /\ gastrSockets'[s].ses = 0
    BY <2>1, UnusedIs, Zenon
  <2>3. (\A s \in Sockets : /\ ~gastrSockets[s].used /\ ~gastrSockets[s].pending
                             /\ ~gastrSockets[s].buffer /\ gastrSockets[s].ses = 0)'
    BY <2>2
  <2> QED
    BY <2>3, UnusedSock, PTL
<1>3. EndsInv' /\ DataInv'
  BY Zenon DEF EndsInv, DataInv, Starts, ChipStarts
<1> QED
  BY <1>1, <1>2, <1>3 DEF SockInv

LEMMA InitInv == Init => IInv
<1> SUFFICES ASSUME Init
             PROVE  IInv
  OBVIOUS
<1>1. HifType
  <2>1. /\ queue \in Seq(Message) /\ u8Interrupt \in 0 .. 255 /\ loaded \in 0 .. 255
        /\ left \in 0 .. MaxParts /\ pc \in Pc
    <3>1. 0 \in 0 .. 255 /\ 0 \in 0 .. MaxParts /\ <<>> \in Seq(Message)
      BY Bounds, SMT
    <3> QED
      BY <3>1, Zenon DEF Init, HifInit, Pc
  <2> QED
    BY <2>1, Zenon DEF HifType, Init, HifInit
<1>2. HifInv
  BY Zenon DEF HifInv, HeldInv, PartInv, SenseInv, AnnouncedOnce, Init, HifInit
<1>3. SocketType
  <2>1. 0 \in 0 .. MaxSession /\ 0 \in Sockets
    BY Bounds, SMT DEF Sockets
  <2> QED
    BY <2>1, UnusedType, Zenon DEF Init, SocketType
<1>4. SessionInv /\ RecvComing
  <2>1. \A s \in Sockets : gastrSockets[s] = Unused
    BY Zenon DEF Init
  <2> QED
    BY <2>1, UnusedIs, UnusedSock, Zenon
<1>5. EndsInv /\ DataInv
  BY Zenon DEF EndsInv, DataInv, Init, HifInit
<1> QED
  BY <1>1, <1>2, <1>3, <1>4, <1>5 DEF IInv, SockInv

\* The calls of the application: main is at none of the steps of a message.
LEMMA IdleSock ==
  ASSUME IInv, Idle
  PROVE  /\ EndsInv' /\ DataInv'
         /\ queue' = queue /\ slot' = slot /\ pc = "idle" /\ pc' = "idle"
BY Zenon DEF EndsInv, DataInv, Idle, hifVars, chipVars

LEMMA SocketCreatedSock ==
  ASSUME IInv, SocketCreated
  PROVE  SockInv'
<1>1. /\ EndsInv' /\ DataInv' /\ queue' = queue /\ slot' = slot /\ pc = "idle"
      /\ pc' = "idle"
  BY IdleSock, Zenon DEF SocketCreated
<1> DEFINE new == Opened(gu16SessionID + 1, FALSE)
<1>2. PICK s \in Sockets :
        /\ NextFree(s)
        /\ gastrSockets' = [gastrSockets EXCEPT ![s] = new]
        /\ u8NextTcpSock' = (s + 1) % TcpSockMax
  BY Zenon DEF SocketCreated
<1>3. gu16SessionID \in 0 .. MaxSession /\ gu16SessionID < MaxSession
      /\ gu16SessionID' = gu16SessionID + 1 /\ requests' = requests /\ lost' = lost
  BY Zenon DEF SocketCreated, IInv, SockInv, SocketType
<1>4. new.used = TRUE /\ new.ses = gu16SessionID + 1 /\ new.pending = FALSE
  BY DEF Opened
<1>5. new \in [used : BOOLEAN, ses : 0 .. MaxSession, pending : BOOLEAN, buffer : BOOLEAN]
  <2>1. gu16SessionID + 1 \in 0 .. MaxSession
    BY <1>3, Bounds, SMT
  <2> QED
    BY <2>1, OpenedType
<1>6. SocketType'
  <2>1. gu16SessionID' \in 0 .. MaxSession
    BY <1>3, Bounds, SMT
  <2>2. (s + 1) % TcpSockMax \in Sockets
    BY Bounds, SMT DEF Sockets
  <2> HIDE DEF new
  <2> QED
    BY <1>2, <1>3, <1>5, <2>1, <2>2, Zenon DEF SocketType, IInv, SockInv
<1>7. /\ gastrSockets'[s] = new
      /\ \A t \in Sockets \ {s} : gastrSockets'[t] = gastrSockets[t]
  <2> HIDE DEF new
  <2> QED
    BY <1>2, SMT DEF IInv, SockInv, SocketType
<1> HIDE DEF new
<1>8. SessionInv'
  <2>1. \A t \in Sockets \ {s} : gastrSockets[t].used =>
            /\ gastrSockets[t].ses \in 1 .. gu16SessionID'
            /\ gastrSockets[t].ses # gu16SessionID + 1
    BY <1>3, SMT DEF IInv, SockInv, SessionInv
  <2>2. gu16SessionID + 1 \in 1 .. gu16SessionID'
    BY <1>3, SMT
  <2>3. gastrSockets'[s].used /\ gastrSockets'[s].ses = gu16SessionID + 1
    BY <1>4, <1>7, Zenon
  <2>4. ASSUME NEW t \in Sockets
        PROVE  /\ ~gastrSockets'[t].used => /\ ~gastrSockets'[t].pending
                                             /\ ~gastrSockets'[t].buffer
                                             /\ gastrSockets'[t].ses = 0
               /\ gastrSockets'[t].used => gastrSockets'[t].ses \in 1 .. gu16SessionID'
    <3>1. CASE t = s
      BY <2>2, <2>3, <3>1, Zenon
    <3>2. CASE t # s
      BY <1>7, <2>1, <3>2, Zenon DEF IInv, SockInv, SessionInv
    <3> QED
      BY <3>1, <3>2
  <2>5. ASSUME NEW t \in Sockets, NEW u \in Sockets, t # u, gastrSockets'[t].used,
               gastrSockets'[u].used
        PROVE  gastrSockets'[t].ses # gastrSockets'[u].ses
    <3>1. CASE t = s
      BY <1>7, <2>1, <2>3, <2>5, <3>1, Zenon
    <3>2. CASE u = s
      BY <1>7, <2>1, <2>3, <2>5, <3>2, Zenon
    <3>3. CASE t # s /\ u # s
      BY <1>7, <2>5, <3>3, Zenon DEF IInv, SockInv, SessionInv
    <3> QED
      BY <3>1, <3>2, <3>3
  <2> QED
    BY <1>1, <2>4, <2>5, Zenon DEF SessionInv
<1>9. RecvComing'
  <2> SUFFICES ASSUME NEW t \in Sockets, gastrSockets'[t].pending
               PROVE  Coming(t)' \/ gastrSockets'[t].ses \in lost'
    BY Zenon DEF RecvComing
  <2>1. t # s /\ gastrSockets'[t] = gastrSockets[t]
    BY <1>4, <1>7, Zenon
  <2>2. Coming(t) \/ gastrSockets[t].ses \in lost
    BY <2>1, Zenon DEF IInv, SockInv, RecvComing
  <2> QED
    BY <1>1, <1>3, <2>1, <2>2, ComingKept, Zenon
<1> QED
  BY <1>1, <1>6, <1>8, <1>9 DEF SockInv

LEMMA OfSocketRequest ==
  ASSUME SocketType, SessionInv, NEW s \in Sockets, gastrSockets[s].used,
         NEW op \in {"connect", "recv"}
  PROVE  OfSocket(op, s) \in Request
<1>1. gastrSockets[s].ses \in 1 .. MaxSession
  BY SMT DEF SocketType, SessionInv
<1> QED
  BY <1>1, SMT DEF OfSocket, Request

LEMMA ConnectSock ==
  ASSUME IInv, NEW s \in Sockets, Connect(s)
  PROVE  SockInv'
<1>1. /\ EndsInv' /\ DataInv' /\ queue' = queue /\ slot' = slot /\ pc = "idle"
      /\ pc' = "idle"
  BY IdleSock, Zenon DEF Connect
<1>2. gastrSockets' = gastrSockets /\ gu16SessionID' = gu16SessionID
      /\ u8NextTcpSock' = u8NextTcpSock /\ lost' = lost
  BY Zenon DEF Connect, sockVars
<1>3. SocketType'
  <2>1. OfSocket("connect", s) \in Request
    BY OfSocketRequest, Zenon DEF IInv, SockInv, Connect
  <2> QED
    BY <1>2, <2>1, Zenon DEF IInv, SockInv, SocketType, Connect
<1>4. SessionInv'
  BY <1>1, <1>2, Zenon DEF IInv, SockInv, SessionInv
<1>5. RecvComing'
  <2> SUFFICES ASSUME NEW t \in Sockets, gastrSockets[t].pending
               PROVE  Coming(t)' \/ gastrSockets[t].ses \in lost
    BY <1>2, Zenon DEF RecvComing
  <2>1. Coming(t) \/ gastrSockets[t].ses \in lost
    BY Zenon DEF IInv, SockInv, RecvComing
  <2>2. OfSocket("recv", t) \in requests => OfSocket("recv", t) \in requests'
    BY Zenon DEF Connect
  <2> QED
    BY <1>1, <1>2, <2>1, <2>2, ComingKept, Zenon
<1> QED
  BY <1>1, <1>3, <1>4, <1>5 DEF SockInv

LEMMA RecvSock ==
  ASSUME IInv, NEW s \in Sockets, NEW ok \in BOOLEAN, Recv(s, ok)
  PROVE  SockInv'
<1>1. /\ EndsInv' /\ DataInv' /\ queue' = queue /\ slot' = slot /\ pc = "idle"
      /\ pc' = "idle"
  BY IdleSock, Zenon DEF Recv
<1> DEFINE new == Opened(gastrSockets[s].ses, TRUE)
<1>2. gastrSockets[s] \in [used : BOOLEAN, ses : 0 .. MaxSession, pending : BOOLEAN,
                           buffer : BOOLEAN]
      /\ gastrSockets[s].used
  BY Zenon DEF IInv, SockInv, SocketType, Recv
<1>3. /\ gastrSockets'[s] = new
      /\ \A t \in Sockets \ {s} : gastrSockets'[t] = gastrSockets[t]
  BY SMT DEF IInv, SockInv, SocketType, Recv
<1>4. /\ new.used = gastrSockets[s].used /\ new.ses = gastrSockets[s].ses
      /\ new \in [used : BOOLEAN, ses : 0 .. MaxSession, pending : BOOLEAN,
                  buffer : BOOLEAN]
  <2>1. gastrSockets[s].ses \in 0 .. MaxSession
    BY <1>2, SMT
  <2> QED
    BY <1>2, <2>1, OpenedType DEF Opened
<1>5. gu16SessionID' = gu16SessionID /\ u8NextTcpSock' = u8NextTcpSock
  BY Zenon DEF Recv
<1>6. /\ requests \subseteq requests' /\ lost \subseteq lost'
      /\ requests' \subseteq requests \cup {OfSocket("recv", s)}
      /\ lost' \subseteq lost \cup {gastrSockets[s].ses}
      /\ \/ gastrSockets[s].pending
         \/ OfSocket("recv", s) \in requests'
         \/ gastrSockets[s].ses \in lost'
  <2>1. CASE gastrSockets[s].pending
    BY <2>1, Zenon DEF Recv
  <2>2. CASE ~gastrSockets[s].pending
    <3>1. CASE ok
      BY <2>2, <3>1, Zenon DEF Recv
    <3>2. CASE ~ok
      BY <2>2, <3>2, Zenon DEF Recv
    <3> QED
      BY <3>1, <3>2
  <2> QED
    BY <2>1, <2>2
<1>7. SocketType'
  <2>1. OfSocket("recv", s) \in Request
    BY <1>2, OfSocketRequest, Zenon DEF IInv, SockInv
  <2>2. gastrSockets[s].ses \in 0 .. MaxSession
    BY <1>2, SMT
  <2>3. gastrSockets' \in [Sockets -> [used : BOOLEAN, ses : 0 .. MaxSession,
                                       pending : BOOLEAN, buffer : BOOLEAN]]
    <3>1. gastrSockets' = [gastrSockets EXCEPT ![s] = new]
      BY Zenon DEF Recv
    <3> HIDE DEF new
    <3> QED
      BY <1>4, <3>1, Zenon DEF IInv, SockInv, SocketType
  <2> QED
    BY <1>5, <1>6, <2>1, <2>2, <2>3, Zenon DEF IInv, SockInv, SocketType
<1> HIDE DEF new
<1>8. SessionInv'
  <2>1. \A t \in Sockets :
          /\ gastrSockets'[t].used = gastrSockets[t].used
          /\ gastrSockets'[t].ses = gastrSockets[t].ses
          /\ t # s => gastrSockets'[t] = gastrSockets[t]
    BY <1>2, <1>3, <1>4, Zenon
  <2>2. \A t \in Sockets : ~gastrSockets'[t].used => /\ ~gastrSockets'[t].pending
                                                     /\ ~gastrSockets'[t].buffer
                                                     /\ gastrSockets'[t].ses = 0
    BY <1>2, <2>1, Zenon DEF IInv, SockInv, SessionInv
  <2>3. \A t \in Sockets : gastrSockets'[t].used => gastrSockets'[t].ses \in 1 .. gu16SessionID'
    BY <1>5, <2>1, Zenon DEF IInv, SockInv, SessionInv
  <2>4. \A t, u \in Sockets :
          gastrSockets'[t].used /\ gastrSockets'[u].used /\ t # u =>
             gastrSockets'[t].ses # gastrSockets'[u].ses
    <3>1. \A t, u \in Sockets :
            gastrSockets[t].used /\ gastrSockets[u].used /\ t # u =>
               gastrSockets[t].ses # gastrSockets[u].ses
      BY Zenon DEF IInv, SockInv, SessionInv
    <3>2. \A t \in Sockets :
            /\ gastrSockets'[t].used = gastrSockets[t].used
            /\ gastrSockets'[t].ses = gastrSockets[t].ses
      BY <2>1
    <3> SUFFICES ASSUME NEW t \in Sockets, NEW u \in Sockets, t # u,
                        gastrSockets'[t].used, gastrSockets'[u].used
                 PROVE  gastrSockets'[t].ses # gastrSockets'[u].ses
      OBVIOUS
    <3>3. gastrSockets[t].used /\ gastrSockets[u].used
      BY <3>2, Zenon
    <3>4. gastrSockets[t].ses # gastrSockets[u].ses
      BY <3>1, <3>3, Zenon
    <3> QED
      BY <3>2, <3>4, Zenon
  <2>5. pc' # "reset"
    BY <1>1
  <2> QED
    BY <2>2, <2>3, <2>4, <2>5, Zenon DEF SessionInv
<1>9. RecvComing'
  <2> SUFFICES ASSUME NEW t \in Sockets, gastrSockets'[t].pending
               PROVE  Coming(t)' \/ gastrSockets'[t].ses \in lost'
    BY Zenon DEF RecvComing
  <2>1. gastrSockets'[t].ses = gastrSockets[t].ses
    BY <1>3, <1>4, Zenon
  <2>2. OfSocket("recv", t) \in requests => OfSocket("recv", t) \in requests'
    BY <1>6, Zenon
  <2>3. CASE gastrSockets[t].pending
    <3>1. Coming(t) \/ gastrSockets[t].ses \in lost
      BY <2>3, Zenon DEF IInv, SockInv, RecvComing
    <3> QED
      BY <1>1, <1>6, <2>1, <2>2, <3>1, ComingKept, Zenon
  <2>4. CASE ~gastrSockets[t].pending
    <3>1. t = s
      BY <1>3, <2>4, Zenon
    <3> QED
      BY <1>6, <2>1, <2>4, <3>1, Zenon DEF Coming, OfSocket
  <2> QED
    BY <2>3, <2>4
<1> QED
  BY <1>1, <1>7, <1>8, <1>9 DEF SockInv

-----------------------------------------------------------------------------
(* The module's answers and the callbacks                                     *)

LEMMA AnswersAre ==
  ASSUME NEW r \in Request, NEW m \in Answers(r)
  PROVE  m \in Message /\ m.op = r.op /\ m.sock = r.sock /\ m.ses = r.ses
<1>1. PICK n \in (IF r.op = "recv" THEN 1 .. MaxParts ELSE {1}) :
        m = [op |-> r.op, sock |-> r.sock, ses |-> r.ses, parts |-> n]
  BY Zenon DEF Answers
<1>2. n \in 1 .. MaxParts
  BY Bounds, SMT
<1>3. r.op \in {"connect", "recv"} /\ r.sock \in Sockets /\ r.ses \in 0 .. MaxSession
  BY SMT DEF Request
<1>4. m \in Message
  BY <1>1, <1>2, <1>3, SMT DEF Message
<1> QED
  BY <1>1, <1>4

LEMMA EventMessage == Event \subseteq Message
<1>1. 0 \in Sockets /\ 0 \in 0 .. MaxSession /\ 1 \in 1 .. MaxParts
  BY Bounds, SMT DEF Sockets
<1> QED
  BY <1>1, SMT DEF Event, Message

LEMMA AnswerSock ==
  ASSUME IInv, NEW r \in requests, Answer(r)
  PROVE  HifType' /\ HifInv' /\ SockInv'
<1>1. PICK m \in Answers(r) : Queued(m)
  BY Zenon DEF Answer
<1>2. /\ gastrSockets' = gastrSockets /\ gu16SessionID' = gu16SessionID
      /\ u8NextTcpSock' = u8NextTcpSock /\ lost' = lost /\ requests' = requests \ {r}
  BY Zenon DEF Answer, sockVars
<1>3. m \in Message /\ m.op = r.op /\ m.sock = r.sock /\ m.ses = r.ses
  <2>1. r \in Request
    BY Zenon DEF IInv, SockInv, SocketType
  <2> QED
    BY <2>1, AnswersAre, Zenon
<1>4. HifType' /\ HifInv'
  BY <1>1, <1>3, QueuedHif, Zenon DEF IInv
<1>5. SocketType' /\ SessionInv'
  BY <1>1, <1>2, Zenon DEF IInv, SockInv, SocketType, SessionInv, Queued
<1>6. EndsInv' /\ DataInv'
  BY <1>1, <1>2, Zenon DEF IInv, SockInv, EndsInv, DataInv, Ends, Queued, rxVars
<1>7. RecvComing'
  <2> SUFFICES ASSUME NEW s \in Sockets, gastrSockets[s].pending,
                      gastrSockets[s].ses \notin lost
               PROVE  Coming(s)'
    BY <1>2, Zenon DEF RecvComing
  <2>1. Coming(s)
    BY Zenon DEF IInv, SockInv, RecvComing
  <2>2. /\ queue' = Append(queue, m) /\ slot' = slot /\ pc' = pc /\ msg' = msg
        /\ queue \in Seq(Message)
    BY <1>1, Zenon DEF Queued, rxVars, IInv, HifType
  <2>3. CASE OfSocket("recv", s) = r
    <3>1. m.op = "recv" /\ m.sock = s /\ m.ses = gastrSockets[s].ses
      BY <1>3, <2>3, Zenon DEF OfSocket
    <3>2. Len(queue') \in 1 .. Len(queue') /\ queue'[Len(queue')] = m
      BY <1>3, <2>2, QueueMoves, Zenon
    <3> QED
      BY <1>2, <3>1, <3>2, Zenon DEF Coming
  <2>4. CASE OfSocket("recv", s) \in requests /\ OfSocket("recv", s) # r
    BY <1>2, <2>4, Zenon DEF Coming, OfSocket
  <2>5. CASE \E i \in 1 .. Len(queue) : queue[i].op = "recv" /\ queue[i].sock = s
                                      /\ queue[i].ses = gastrSockets[s].ses
    <3>1. PICK i \in 1 .. Len(queue) : queue[i].op = "recv" /\ queue[i].sock = s
                                      /\ queue[i].ses = gastrSockets[s].ses
      BY <2>5
    <3>2. i \in 1 .. Len(queue') /\ queue'[i] = queue[i]
      BY <1>3, <2>2, QueueMoves, Zenon
    <3> QED
      BY <1>2, <3>1, <3>2, Zenon DEF Coming
  <2>6. CASE \/ slot.op = "recv" /\ slot.sock = s /\ slot.ses = gastrSockets[s].ses
             \/ /\ msg.op = "recv" /\ msg.sock = s /\ msg.ses = gastrSockets[s].ses
                /\ pc = "handle"
    BY <1>2, <2>2, <2>6, Zenon DEF Coming
  <2> QED
    BY <2>1, <2>3, <2>4, <2>5, <2>6, Zenon DEF Coming
<1> QED
  BY <1>4, <1>5, <1>6, <1>7 DEF SockInv

\* Losing a reply takes nothing from the sockets.
LEMMA LostSock ==
  ASSUME IInv, UNCHANGED <<sockVars, requests>>, pc' # "reset",
         lost' = lost \/ lost' = lost \cup {msg.ses}
  PROVE  SocketType' /\ SessionInv'
<1>1. msg.ses \in 0 .. MaxSession
  <2>1. CASE msg \in Message
    BY <2>1, SMT DEF Message
  <2>2. CASE msg = NoMessage
    <3>1. NoMessage.ses = 0 /\ 0 \in 0 .. MaxSession
      BY Bounds, SMT DEF NoMessage
    <3> QED
      BY <2>2, <3>1, Zenon
  <2> QED
    BY <2>1, <2>2, Zenon DEF IInv, HifType
<1> QED
  BY <1>1, Zenon DEF IInv, SockInv, SocketType, SessionInv, sockVars

LEMMA ReadPartSock ==
  ASSUME IInv, ReadPart
  PROVE  HifType' /\ HifInv' /\ SockInv'
<1> DEFINE d == left = 1 /\ left < msg.parts
<1>1. Receive(d) /\ d \in BOOLEAN /\ (d => left = 1)
  BY Zenon DEF ReadPart
<1>2. HifType' /\ HifInv'
  BY <1>1, ReceiveHif, Zenon DEF IInv
<1>3. /\ pc = "receive" /\ queue' = queue /\ slot' = slot /\ msg' = msg /\ msg = slot
      /\ pc' \in {"rxdone", "handle", "tail"} /\ gastrSockets' = gastrSockets
      /\ requests' = requests
      /\ lost' = IF pc' = "tail" /\ msg.op = "recv" THEN lost \cup {msg.ses} ELSE lost
  BY Zenon DEF ReadPart, Receive, SetRxDone, chipVars, sockVars, IInv, HifInv, PartInv
<1>4. SocketType' /\ SessionInv'
  BY <1>3, LostSock, Zenon DEF ReadPart
<1>5. pc' \in {"rxdone", "handle"} => left' = left - 1
  BY <1>1, Zenon DEF Receive
<1>6. pc' = "rxdone" => then' = "handle"
  BY <1>1, Zenon DEF Receive, SetRxDone
<1>7. left \in Int /\ msg.parts \in Int
  <2>1. slot \in Message
    BY <1>3, Zenon DEF IInv, HifType, HifInv, HeldInv, Owed
  <2> QED
    BY <1>3, <2>1, SMT DEF IInv, HifType, Message
<1>8. EndsInv'
  <2>1. CASE pc' = "tail"
    BY <1>3, <2>1, Zenon DEF EndsInv, Ends
  <2>2. CASE pc' # "tail"
    <3>1. left = msg.parts \/ ~Ends(msg)
      BY <1>3, Zenon DEF IInv, SockInv, EndsInv
    <3>2. ~Ends(msg) => ~Ends(msg)'
      BY <1>3, <2>2, Zenon DEF Ends
    <3>3. left = msg.parts => left' = msg'.parts - 1
      BY <1>3, <1>5, <2>2, Zenon
    <3> QED
      BY <1>3, <1>6, <2>2, <3>1, <3>2, <3>3, Zenon DEF EndsInv, Ends
  <2> QED
    BY <2>1, <2>2
<1>9. DataInv'
  <2>1. CASE pc' = "handle" /\ left' < msg'.parts - 1
    <3>1. left < msg.parts
      BY <1>3, <1>5, <1>7, <2>1, SMT
    <3> QED
      BY <1>3, <2>1, <3>1, Zenon DEF IInv, SockInv, DataInv
  <2> QED
    BY <1>3, <2>1, Zenon DEF DataInv
<1>10. RecvComing'
  <2> SUFFICES ASSUME NEW s \in Sockets, gastrSockets[s].pending
               PROVE  Coming(s)' \/ gastrSockets[s].ses \in lost'
    BY <1>3, Zenon DEF RecvComing
  <2>1. Coming(s) \/ gastrSockets[s].ses \in lost
    BY Zenon DEF IInv, SockInv, RecvComing
  <2> QED
    BY <1>3, <2>1, ComingKept, Zenon
<1> QED
  BY <1>2, <1>4, <1>8, <1>9, <1>10 DEF SockInv

LEMMA WriteRxDoneSock ==
  ASSUME IInv, WriteRxDone
  PROVE  HifType' /\ HifInv' /\ SockInv'
<1>1. HifType' /\ HifInv'
  BY RxDoneWrittenHif, Zenon DEF IInv, WriteRxDone
<1>2. /\ pc = "rxdone" /\ queue' = queue /\ msg' = msg /\ left' = left
      /\ ~u8HifRXDone' /\ gastrSockets' = gastrSockets /\ requests' = requests
      /\ lost' = IF pc' = "tail" /\ then = "handle" /\ msg.op = "recv"
                 THEN lost \cup {msg.ses} ELSE lost
  BY Zenon DEF WriteRxDone, RxDoneWritten, sockVars, IInv, HifInv, HeldInv
<1>3. \/ slot' = slot /\ pc' \in {"isr", "tail"}
      \/ slot' = NoMessage /\ then # "handle" /\ pc' = "tail"
      \/ slot' = NoMessage /\ then = "handle" /\ pc' = "handle"
  BY Zenon DEF WriteRxDone, RxDoneWritten, IInv, HifType
<1>4. SocketType' /\ SessionInv'
  BY <1>2, <1>3, LostSock, Zenon DEF WriteRxDone
<1>5. then = "handle" => msg = slot /\ left = 0
  BY <1>2, Zenon DEF IInv, HifInv, PartInv
<1>6. Ends(slot) => then = "handle" /\ left = msg.parts - 1
  BY <1>2, Zenon DEF IInv, SockInv, EndsInv
<1>7. EndsInv'
  <2>1. CASE pc' = "handle"
    BY <1>2, <1>3, <1>5, <1>6, <2>1, Zenon DEF EndsInv, Ends
  <2> QED
    BY <1>2, <1>3, <2>1, Zenon DEF EndsInv
<1>8. DataInv'
  BY <1>2, <1>3, <1>5, Zenon DEF DataInv
<1>9. RecvComing'
  <2> SUFFICES ASSUME NEW s \in Sockets, gastrSockets[s].pending,
                      gastrSockets[s].ses \notin lost
               PROVE  Coming(s)'
    BY <1>2, Zenon DEF RecvComing
  <2>1. Coming(s)
    BY Zenon DEF IInv, SockInv, RecvComing
  <2>2. CASE slot.op = "recv" /\ slot.sock = s /\ slot.ses = gastrSockets[s].ses
    <3>1. CASE slot' = slot
      BY <1>2, <2>2, <3>1, Zenon DEF Coming
    <3>2. CASE slot' # slot
      <4>1. then = "handle" /\ msg = slot
        BY <1>5, <1>6, <2>2, Zenon DEF Ends
      <4> QED
        BY <1>2, <1>3, <2>2, <3>2, <4>1, Zenon DEF Coming
    <3> QED
      BY <3>1, <3>2
  <2> QED
    BY <1>2, <2>1, <2>2, Zenon DEF Coming, OfSocket
<1> QED
  BY <1>1, <1>4, <1>7, <1>8, <1>9 DEF SockInv

\* Where a callback is, and where it goes.
LEMMA GoesTo ==
  ASSUME IInv, NEW k \in {"tail", "receive", "done"}, Goes(k)
  PROVE  /\ pc = "handle" /\ queue' = queue /\ slot' = slot /\ msg' = msg /\ left' = left
         /\ u8HifRXDone <=> left # 0
         /\ left # 0 => msg = slot
         /\ k = "tail" => pc' = "tail" /\ u8HifRXDone' = u8HifRXDone
         /\ k = "receive" => pc' = "receive"
         /\ k = "done" => pc' = "rxdone" /\ then' = "tail" /\ ~u8HifRXDone'
BY Zenon DEF Goes, SetRxDone, chipVars, IInv, HifInv, PartInv

LEMMA NewsSock ==
  ASSUME IInv, News
  PROVE  HifType' /\ HifInv' /\ SockInv'
<1>1. Goes("tail") /\ msg.op = "news" /\ NoSock
  BY Zenon DEF News, NoSock
<1>2. HifType' /\ HifInv'
  BY <1>1, GoesHif, Zenon DEF IInv
<1>3. /\ pc = "handle" /\ queue' = queue /\ slot' = slot /\ msg' = msg /\ left' = left
      /\ u8HifRXDone <=> left # 0
      /\ left # 0 => msg = slot
      /\ pc' = "tail" /\ u8HifRXDone' = u8HifRXDone
  BY <1>1, GoesTo, Zenon
<1>4. SocketType' /\ SessionInv'
  BY <1>1, <1>3, NoSockSession, Zenon DEF IInv, SockInv
<1>5. EndsInv' /\ DataInv'
  BY <1>1, <1>3, Zenon DEF EndsInv, DataInv, Ends
<1>6. \A s \in Sockets :
        \/ slot.op = "recv" /\ slot.sock = s /\ slot.ses = gastrSockets[s].ses
        \/ pc = "handle" /\ msg.op = "recv" /\ msg.sock = s
             /\ msg.ses = gastrSockets[s].ses
        => Coming(s)'
  BY <1>1, <1>3, Zenon DEF Coming, NoSock, sockVars
<1>7. RecvComing'
  BY <1>1, <1>3, <1>6, NoSockComing, Zenon DEF IInv, SockInv
<1> QED
  BY <1>2, <1>4, <1>5, <1>7 DEF SockInv

LEMMA ConnectReplySock ==
  ASSUME IInv, ConnectReply
  PROVE  HifType' /\ HifInv' /\ SockInv'
<1>1. Goes("tail") /\ msg.op = "connect" /\ CalledBack
  BY Zenon DEF ConnectReply
<1>2. HifType' /\ HifInv'
  BY <1>1, GoesHif, Zenon DEF IInv
<1>3. /\ pc = "handle" /\ queue' = queue /\ slot' = slot /\ msg' = msg /\ left' = left
      /\ u8HifRXDone <=> left # 0
      /\ left # 0 => msg = slot
      /\ pc' = "tail" /\ u8HifRXDone' = u8HifRXDone
  BY <1>1, GoesTo, Zenon
<1>4. ~Ends(msg) /\ ~Ends(msg)'
  BY <1>1, <1>3, Zenon DEF Ends
<1>5. SocketType' /\ SessionInv' /\ RecvComing'
  BY <1>1, <1>3, <1>4, CalledBackSock, Zenon
<1>6. EndsInv' /\ DataInv'
  BY <1>3, <1>4, Zenon DEF EndsInv, DataInv, Ends
<1> QED
  BY <1>2, <1>5, <1>6 DEF SockInv

\* Data goes on to a socket that is still in use, and is for its session.
LEMMA RecvDataSock ==
  ASSUME IInv, RecvData
  PROVE  HifType' /\ HifInv' /\ SockInv'
<1> DEFINE k == IF left = 0 THEN "tail"
                ELSE IF gastrSockets'[msg.sock].used THEN "receive" ELSE "done"
<1>1. /\ msg.op = "recv" /\ left < msg.parts - 1 /\ CalledBack /\ Goes(k)
      /\ k \in {"tail", "receive", "done"} /\ (k = "tail" \/ left # 0)
  BY Zenon DEF RecvData
<1>2. k = "tail" => left = 0
  OBVIOUS
<1>3. k = "receive" => gastrSockets'[msg.sock].used
  OBVIOUS
<1> HIDE DEF k
<1>4. HifType' /\ HifInv'
  BY <1>1, GoesHif, Zenon DEF IInv
<1>5. /\ pc = "handle" /\ queue' = queue /\ slot' = slot /\ msg' = msg /\ left' = left
      /\ u8HifRXDone <=> left # 0
      /\ left # 0 => msg = slot
      /\ k = "tail" => pc' = "tail" /\ u8HifRXDone' = u8HifRXDone
      /\ k = "receive" => pc' = "receive"
      /\ k = "done" => pc' = "rxdone" /\ then' = "tail" /\ ~u8HifRXDone'
  BY <1>1, GoesTo, Zenon
<1>6. ~Ends(msg)
  <2>1. left # msg.parts - 1
    <3>1. left \in Int
      BY SMT DEF IInv, HifType
    <3>2. msg.parts \in Int
      <4>1. CASE msg \in Message
        BY <4>1, SMT DEF Message
      <4>2. CASE msg = NoMessage
        BY <4>2, SMT DEF NoMessage
      <4> QED
        BY <4>1, <4>2, Zenon DEF IInv, HifType
    <3> QED
      BY <1>1, <3>1, <3>2, SMT
  <2> QED
    BY <1>5, <2>1, Zenon DEF IInv, SockInv, EndsInv
<1>7. /\ SocketType' /\ SessionInv' /\ RecvComing'
      /\ \/ UNCHANGED <<gastrSockets, lost>>
         \/ gastrSockets'[msg.sock] = Unused
  <2>1. pc' # "reset"
    BY <1>1, <1>5, Zenon
  <2> QED
    BY <1>1, <1>5, <1>6, <2>1, CalledBackSock, Zenon
<1>8. ~Ends(msg)'
  BY <1>5, <1>6, <1>7, UnusedIs, Zenon DEF Ends
<1>9. EndsInv'
  <2>1. CASE k = "tail"
    <3>1. ~u8HifRXDone
      BY <1>2, <1>5, <2>1, Zenon
    <3>2. ~u8HifRXDone'
      BY <1>5, <2>1, <3>1, Zenon
    <3> QED
      BY <1>5, <2>1, <3>2, Zenon DEF EndsInv
  <2>2. CASE k # "tail"
    BY <1>1, <1>5, <1>8, <2>2, Zenon DEF EndsInv, Ends
  <2> QED
    BY <2>1, <2>2
<1>10. DataInv'
  <2>1. CASE k = "receive"
    <3>1. gastrSockets' = gastrSockets
      BY <1>3, <1>7, <2>1, UnusedIs, Zenon
    <3>2. left # 0
      BY <1>1, <2>1, Zenon
    <3> QED
      BY <1>1, <1>5, <3>1, <3>2, Zenon DEF IInv, SockInv, DataInv
  <2> QED
    BY <1>1, <1>5, <2>1, Zenon DEF DataInv
<1> QED
  BY <1>4, <1>7, <1>9, <1>10 DEF SockInv

\* The end of a receive: socket s has none, the others keep theirs.
Ended(s) == [gastrSockets EXCEPT ![s].pending = FALSE]

LEMMA PendingEnds ==
  ASSUME IInv, NEW s \in Sockets, queue' = queue, slot' = slot, msg.sock = s,
         gastrSockets' = Ended(s), requests' = requests, lost' = lost, gu16SessionID' = gu16SessionID,
         u8NextTcpSock' = u8NextTcpSock, pc' # "reset"
  PROVE  /\ SocketType' /\ SessionInv' /\ RecvComing'
         /\ gastrSockets'[s].used = gastrSockets[s].used
         /\ gastrSockets'[s].ses = gastrSockets[s].ses
         /\ gastrSockets'[s].buffer = gastrSockets[s].buffer
         /\ ~gastrSockets'[s].pending
<1> DEFINE new == [gastrSockets[s] EXCEPT !.pending = FALSE]
<1>1. gastrSockets[s] \in [used : BOOLEAN, ses : 0 .. MaxSession, pending : BOOLEAN,
                           buffer : BOOLEAN]
  BY Zenon DEF IInv, SockInv, SocketType
<1>2. /\ gastrSockets'[s] = new
      /\ \A t \in Sockets \ {s} : gastrSockets'[t] = gastrSockets[t]
      /\ gastrSockets' = [gastrSockets EXCEPT ![s] = new]
  BY Zenon DEF IInv, SockInv, SocketType, Ended
<1>3. /\ new \in [used : BOOLEAN, ses : 0 .. MaxSession, pending : BOOLEAN,
                  buffer : BOOLEAN]
      /\ new.pending = FALSE /\ new.used = gastrSockets[s].used
      /\ new.ses = gastrSockets[s].ses /\ new.buffer = gastrSockets[s].buffer
  BY <1>1, ResetType, Zenon
<1> HIDE DEF new
<1>4. SocketType'
  BY <1>2, <1>3, Zenon DEF IInv, SockInv, SocketType
<1>5. \A t \in Sockets :
        /\ gastrSockets'[t].used = gastrSockets[t].used
        /\ gastrSockets'[t].ses = gastrSockets[t].ses
        /\ gastrSockets'[t].buffer = gastrSockets[t].buffer
        /\ gastrSockets'[t].pending => gastrSockets[t].pending /\ t # s
  BY <1>2, <1>3, Zenon
<1>6. SessionInv'
  <2>1. \A t, u \in Sockets :
          gastrSockets[t].used /\ gastrSockets[u].used /\ t # u =>
             gastrSockets[t].ses # gastrSockets[u].ses
    BY Zenon DEF IInv, SockInv, SessionInv
  <2>2. \A t, u \in Sockets :
          gastrSockets'[t].used /\ gastrSockets'[u].used /\ t # u =>
             gastrSockets'[t].ses # gastrSockets'[u].ses
    <3> SUFFICES ASSUME NEW t \in Sockets, NEW u \in Sockets, t # u,
                        gastrSockets'[t].used, gastrSockets'[u].used
                 PROVE  gastrSockets'[t].ses # gastrSockets'[u].ses
      OBVIOUS
    <3>1. gastrSockets[t].ses # gastrSockets[u].ses
      BY <1>5, <2>1, Zenon
    <3> QED
      BY <1>5, <3>1, Zenon
  <2>3. \A t \in Sockets :
          /\ ~gastrSockets'[t].used => /\ ~gastrSockets'[t].pending
                                       /\ ~gastrSockets'[t].buffer
                                       /\ gastrSockets'[t].ses = 0
          /\ gastrSockets'[t].used => gastrSockets'[t].ses \in 1 .. gu16SessionID'
    <3>1. \A t \in Sockets :
            /\ ~gastrSockets[t].used => /\ ~gastrSockets[t].pending
                                        /\ ~gastrSockets[t].buffer
                                        /\ gastrSockets[t].ses = 0
            /\ gastrSockets[t].used => gastrSockets[t].ses \in 1 .. gu16SessionID
      BY Zenon DEF IInv, SockInv, SessionInv
    <3> SUFFICES ASSUME NEW t \in Sockets
                 PROVE  /\ ~gastrSockets'[t].used => /\ ~gastrSockets'[t].pending
                                                     /\ ~gastrSockets'[t].buffer
                                                     /\ gastrSockets'[t].ses = 0
                        /\ gastrSockets'[t].used =>
                              gastrSockets'[t].ses \in 1 .. gu16SessionID'
      OBVIOUS
    <3> QED
      BY <1>5, <3>1, Zenon
  <2> QED
    BY <2>2, <2>3, Zenon DEF SessionInv
<1>7. RecvComing'
  <2> SUFFICES ASSUME NEW t \in Sockets, gastrSockets'[t].pending
               PROVE  Coming(t)' \/ gastrSockets'[t].ses \in lost'
    BY Zenon DEF RecvComing
  <2>1. Coming(t) \/ gastrSockets[t].ses \in lost
    BY <1>5, Zenon DEF IInv, SockInv, RecvComing
  <2> QED
    <3>1. t # s /\ gastrSockets'[t].ses = gastrSockets[t].ses
      BY <1>5, Zenon
    <3>2. CASE gastrSockets[t].ses \in lost
      BY <3>1, <3>2, Zenon
    <3>3. CASE Coming(t)
      BY <3>1, <3>3, Zenon DEF Coming, OfSocket
    <3> QED
      BY <2>1, <3>2, <3>3
<1> QED
  BY <1>4, <1>5, <1>6, <1>7, <1>2, <1>3, Zenon

LEMMA RecvReplySock ==
  ASSUME IInv, RecvReply
  PROVE  HifType' /\ HifInv' /\ SockInv'
<1> DEFINE s == msg.sock
           known == msg.ses = gastrSockets[s].ses
           reset == [gastrSockets EXCEPT ![s].pending = FALSE]
<1>1. /\ msg.op = "recv" /\ left = msg.parts - 1 /\ gu16SessionID' = gu16SessionID
      /\ u8NextTcpSock' = u8NextTcpSock /\ lost' = lost
  BY Zenon DEF RecvReply
<1>2. s \in Sockets
  <2>1. msg \in Message
    BY <1>1, SMT DEF IInv, HifType, NoMessage
  <2> QED
    BY <2>1, SMT DEF Message
\* nothing follows
<1>3. ASSUME known, left = 0, Goes("tail"),
             \E ok \in BOOLEAN :
                /\ gastrSockets' = [gastrSockets EXCEPT ![s] = Unused]
                /\ requests' = IF ok THEN {r \in requests : r.ses # msg.ses} ELSE requests
      PROVE  HifType' /\ HifInv' /\ SockInv'
  <2>1. HifType' /\ HifInv'
    BY <1>3, GoesHif, Zenon DEF IInv
  <2>2. /\ pc = "handle" /\ queue' = queue /\ slot' = slot /\ msg' = msg /\ left' = left
        /\ u8HifRXDone <=> left # 0
        /\ pc' = "tail" /\ u8HifRXDone' = u8HifRXDone
    BY <1>3, GoesTo, Zenon
  <2>3. ~u8HifRXDone'
    <3>1. ~u8HifRXDone
      BY <1>3, <2>2, Zenon
    <3> QED
      BY <2>2, <3>1, Zenon
  <2>4. EndsInv' /\ DataInv'
    BY <2>2, <2>3, Zenon DEF EndsInv, DataInv
  <2>5. /\ gastrSockets'[s] = Unused
        /\ \A t \in Sockets \ {s} : gastrSockets'[t] = gastrSockets[t]
    BY <1>2, <1>3, Zenon DEF IInv, SockInv, SocketType
  <2>6. SocketType'
    BY <1>1, <1>3, UnusedType, Zenon DEF IInv, SockInv, SocketType
  <2>7. SessionInv'
    <3>1. \A t, u \in Sockets :
            gastrSockets[t].used /\ gastrSockets[u].used /\ t # u =>
               gastrSockets[t].ses # gastrSockets[u].ses
      BY Zenon DEF IInv, SockInv, SessionInv
    <3>2. \A t, u \in Sockets :
            gastrSockets'[t].used /\ gastrSockets'[u].used /\ t # u =>
               gastrSockets'[t].ses # gastrSockets'[u].ses
      BY <2>5, <3>1, UnusedIs, Zenon
    <3>3. ASSUME NEW t \in Sockets
          PROVE  /\ ~gastrSockets'[t].used => /\ ~gastrSockets'[t].pending
                                               /\ ~gastrSockets'[t].buffer
                                               /\ gastrSockets'[t].ses = 0
                 /\ gastrSockets'[t].used => gastrSockets'[t].ses \in 1 .. gu16SessionID'
      BY <1>1, <2>5, UnusedIs, Zenon DEF IInv, SockInv, SessionInv
    <3> QED
      BY <2>2, <3>2, <3>3, Zenon DEF SessionInv
  <2>8. RecvComing'
    <3> SUFFICES ASSUME NEW t \in Sockets, gastrSockets'[t].pending
                 PROVE  Coming(t)' \/ gastrSockets'[t].ses \in lost'
      BY Zenon DEF RecvComing
    <3>1. t # s /\ gastrSockets'[t] = gastrSockets[t]
      BY <2>5, UnusedIs, Zenon
    <3>2. gastrSockets[t].used
      BY <3>1, Zenon DEF IInv, SockInv, SessionInv
    <3>3. gastrSockets[t].ses # gastrSockets[s].ses
      <4>1. CASE gastrSockets[s].used
        BY <1>2, <3>1, <3>2, <4>1, Zenon DEF IInv, SockInv, SessionInv
      <4>2. CASE ~gastrSockets[s].used
        <5>1. gastrSockets[s].ses = 0 /\ gastrSockets[t].ses \in 1 .. gu16SessionID
          BY <1>2, <3>2, <4>2, Zenon DEF IInv, SockInv, SessionInv
        <5> QED
          BY <5>1, SMT
      <4> QED
        BY <4>1, <4>2
    <3>4. OfSocket("recv", t) \in requests => OfSocket("recv", t) \in requests'
      <4>1. OfSocket("recv", t).ses # msg.ses
        <5>1. OfSocket("recv", t).ses = gastrSockets[t].ses
          BY DEF OfSocket
        <5> QED
          BY <1>3, <3>3, <5>1, Zenon
      <4> QED
        BY <1>3, <4>1, Zenon
    <3>5. CASE gastrSockets[t].ses \in lost
      BY <1>1, <3>1, <3>5, Zenon
    <3>6. CASE Coming(t)
      BY <2>2, <3>1, <3>4, <3>6, Zenon DEF Coming, OfSocket
    <3> QED
      BY <3>1, <3>5, <3>6, Zenon DEF IInv, SockInv, RecvComing
  <2> QED
    BY <2>1, <2>4, <2>6, <2>7, <2>8 DEF SockInv
\* the pending receive is over
<1>4. ASSUME gastrSockets' = reset, requests' = requests,
             NEW k \in {"tail", "receive", "done"}, k = "tail" \/ left # 0, Goes(k),
             k = "receive" => known /\ gastrSockets[s].buffer
      PROVE  HifType' /\ HifInv' /\ SockInv'
  <2>1. HifType' /\ HifInv'
    BY <1>4, GoesHif, Zenon DEF IInv
  <2>2. /\ pc = "handle" /\ queue' = queue /\ slot' = slot /\ msg' = msg /\ left' = left
        /\ u8HifRXDone <=> left # 0
        /\ left # 0 => msg = slot
        /\ k = "tail" => pc' = "tail" /\ u8HifRXDone' = u8HifRXDone
        /\ k = "receive" => pc' = "receive"
        /\ k = "done" => pc' = "rxdone" /\ then' = "tail" /\ ~u8HifRXDone'
    BY <1>4, GoesTo, Zenon
  <2>3. /\ SocketType' /\ SessionInv' /\ RecvComing'
        /\ gastrSockets'[s].used = gastrSockets[s].used
        /\ gastrSockets'[s].ses = gastrSockets[s].ses
        /\ gastrSockets'[s].buffer = gastrSockets[s].buffer
        /\ ~gastrSockets'[s].pending
    <3>1. pc' # "reset"
      BY <1>4, <2>2, Zenon
    <3> QED
      BY <1>1, <1>2, <1>4, <2>2, <3>1, PendingEnds, Zenon DEF Ended
  <2>4. ~Ends(msg)'
    BY <2>2, <2>3, Zenon DEF Ends
  <2>5. EndsInv'
    <3>1. CASE left = 0
      <4>1. ~u8HifRXDone /\ pc' = "tail"
        BY <1>4, <2>2, <3>1, Zenon
      <4>2. ~u8HifRXDone'
        BY <1>4, <2>2, <4>1, Zenon
      <4> QED
        BY <4>1, <4>2, Zenon DEF EndsInv
    <3>2. CASE left # 0
      BY <1>4, <2>2, <2>4, <3>2, Zenon DEF EndsInv, Ends
    <3> QED
      BY <3>1, <3>2
  <2>6. DataInv'
    <3>1. CASE k = "receive"
      <4>1. gastrSockets[s].used
        BY <1>2, <1>4, <3>1, Zenon DEF IInv, SockInv, SessionInv
      <4> QED
        BY <1>4, <2>2, <2>3, <3>1, <4>1, Zenon DEF DataInv
    <3> QED
      BY <1>4, <2>2, <3>1, Zenon DEF DataInv
  <2> QED
    BY <2>1, <2>3, <2>5, <2>6 DEF SockInv
<1>5. CASE known /\ left = 0
  BY <1>3, <1>4, <1>5, Zenon DEF RecvReply
<1>6. CASE known /\ left # 0
  <2>1. gastrSockets' = reset /\ requests' = requests
        /\ Goes(IF gastrSockets[s].buffer THEN "receive" ELSE "tail")
    BY <1>6, Zenon DEF RecvReply
  <2> QED
    BY <1>4, <1>6, <2>1, Zenon
<1>7. CASE ~known
  <2>1. gastrSockets' = reset /\ requests' = requests
        /\ Goes(IF left = 0 THEN "tail" ELSE "done")
    BY <1>7, Zenon DEF RecvReply
  <2> QED
    BY <1>4, <1>7, <2>1, Zenon
<1> QED
  BY <1>5, <1>6, <1>7

-----------------------------------------------------------------------------
(* Every step                                                                 *)

LEMMA HifKept ==
  ASSUME HifType, HifInv, UNCHANGED hifVars
  PROVE  HifType' /\ HifInv'
<1>1. HifType'
  <2>1. /\ queue' = queue /\ slot' = slot /\ bit0' = bit0 /\ flag' = flag /\ sense' = sense
        /\ registered' = registered /\ u8Interrupt' = u8Interrupt /\ loaded' = loaded
        /\ u8HifRXDone' = u8HifRXDone /\ pc' = pc /\ then' = then /\ msg' = msg
        /\ left' = left /\ failed' = failed
    BY Zenon DEF hifVars, chipVars, pinVars, rxVars
  <2> QED
    <3>1. /\ bit0' \in BOOLEAN /\ flag' \in BOOLEAN /\ sense' \in BOOLEAN
          /\ registered' \in BOOLEAN /\ u8HifRXDone' \in BOOLEAN /\ failed' \in BOOLEAN
      BY <2>1, Zenon DEF HifType
    <3>2. /\ queue' \in Seq(Message)
          /\ slot' \in Message \cup {NoMessage} /\ msg' \in Message \cup {NoMessage}
      BY <2>1, Zenon DEF HifType
    <3>3. /\ u8Interrupt' \in 0 .. 255 /\ loaded' \in 0 .. 255
          /\ pc' \in Pc /\ then' \in {"handle", "tail", "isr"} /\ left' \in 0 .. MaxParts
      BY <2>1, Zenon DEF HifType
    <3> QED
      BY <3>1, <3>2, <3>3 DEF HifType
<1>2. HeldInv'
  BY Zenon DEF HifInv, HeldInv, Owed, hifVars, chipVars, pinVars, rxVars
<1>3. PartInv'
  BY Zenon DEF HifInv, PartInv, hifVars, chipVars, pinVars, rxVars
<1>4. SenseInv'
  BY Zenon DEF HifInv, SenseInv, hifVars, chipVars, pinVars, rxVars
<1>5. AnnouncedOnce'
  BY Zenon DEF HifInv, AnnouncedOnce, hifVars, chipVars, pinVars, rxVars
<1> QED
  BY <1>1, <1>2, <1>3, <1>4, <1>5 DEF HifInv

LEMMA StutterInv ==
  ASSUME IInv, UNCHANGED vars
  PROVE  IInv'
<1>1. HifType' /\ HifInv'
  BY HifKept, Zenon DEF IInv, vars
<1>2. SockInv'
  <2>1. /\ NoSock /\ queue' = queue /\ slot' = slot /\ u8HifRXDone' = u8HifRXDone
        /\ pc' = pc /\ then' = then /\ msg' = msg /\ left' = left
    BY Zenon DEF NoSock, vars, hifVars, chipVars, rxVars
  <2>2. SocketType' /\ SessionInv'
    BY <2>1, NoSockSession, Zenon DEF IInv, SockInv
  <2>3. EndsInv' /\ DataInv'
    BY <2>1, Zenon DEF IInv, SockInv, EndsInv, Ends, DataInv, NoSock, sockVars
  <2>4. RecvComing'
    BY <2>1, Zenon DEF IInv, SockInv, RecvComing, Coming, OfSocket, NoSock, sockVars
  <2> QED
    BY <2>2, <2>3, <2>4 DEF SockInv
<1> QED
  BY <1>1, <1>2 DEF IInv

LEMMA NextInv == IInv /\ [Next]_vars => IInv'
<1> SUFFICES ASSUME IInv, [Next]_vars
             PROVE  HifType' /\ HifInv' /\ SockInv'
  BY DEF IInv
<1>0. HifType /\ HifInv
  BY DEF IInv
<1>1. CASE Call
  <2>1. HifType' /\ HifInv'
    <3>1. UNCHANGED hifVars
      BY <1>1, Zenon DEF Call, SocketCreated, Connect, Recv, Close, Idle
    <3> QED
      BY <1>0, <3>1, HifKept, Zenon
  <2>2. SockInv'
    BY <1>1, SocketCreatedSock, ConnectSock, RecvSock, CloseSock, Zenon DEF Call
  <2> QED
    BY <2>1, <2>2
<1>2. CASE Reinit
  <2>1. ReinitCalled /\ NoSock /\ pc # "handle" /\ queue' = queue /\ slot' = slot
    BY <1>2, Zenon DEF Reinit, ReinitCalled, NoSock, chipVars
  <2> QED
    BY <1>0, <2>1, ReinitCalledHif, MainSock, Zenon
<1>3. CASE ReinitStep
  <2>1. CASE Deinit
    BY <1>0, <2>1, HifDeinitHif, DeinitSock, Zenon DEF Deinit
  <2>2. CASE Reset
    BY <1>0, <2>2, ChipResetHif, ResetSock, Zenon DEF Reset
  <2>3. CASE Starts
    BY <1>0, <2>3, ChipStartsHif, StartsSock, Zenon DEF Starts
  <2> QED
    BY <1>3, <2>1, <2>2, <2>3 DEF ReinitStep
<1>4. CASE HifStep
  <2>1. NoSock /\ pc # "handle" /\ queue' = queue /\ slot' = slot
    BY <1>4, Zenon DEF HifStep, NoSock, IsrSees, IsrClears, IsrDispatches, IsrEnds,
       HandleLoads, HandleStores, chipVars
  <2>2. HifType' /\ HifInv'
    BY <1>0, <1>4, IsrSeesHif, IsrClearsHif, IsrDispatchesHif, IsrEndsHif, HandleLoadsHif,
       HandleStoresHif, Zenon DEF HifStep
  <2>3. SockInv'
    BY <1>4, <2>1, MainSock, Zenon DEF HifStep
  <2> QED
    BY <2>2, <2>3
<1>5. CASE ReadPart \/ WriteRxDone \/ News \/ ConnectReply \/ RecvReply \/ RecvData
  BY <1>5, ReadPartSock, WriteRxDoneSock, NewsSock, ConnectReplySock, RecvReplySock,
     RecvDataSock, Zenon
<1>6. CASE Interrupted
  BY <1>0, <1>6, IsrHif, IsrSock, Zenon DEF Interrupted, NoSock
<1>7. CASE Raises
  BY <1>0, <1>7, AnnounceHif, AnnounceSock, Zenon DEF Raises, NoSock
<1>8. CASE Tells
  BY <1>0, <1>8, EventMessage, QueuedHif, QueuedSock, Zenon DEF Tells, NoSock
<1>9. CASE \E r \in requests : Answer(r)
  BY <1>9, AnswerSock, Zenon
<1>10. CASE UNCHANGED vars
  BY <1>10, StutterInv, Zenon DEF IInv
<1> QED
  BY <1>1, <1>2, <1>3, <1>4, <1>5, <1>6, <1>7, <1>8, <1>9, <1>10, Zenon DEF Next, HandleStep

THEOREM Invariant == Spec => []IInv
  BY InitInv, NextInv, PTL DEF Spec

-----------------------------------------------------------------------------
(* The properties                                                             *)

\* Every variable of the driver and of the module keeps its type.
THEOREM Typed == Spec => []TypeOK
<1>1. IInv => TypeOK
  BY Zenon DEF IInv, SockInv, TypeOK
<1> QED
  BY <1>1, Invariant, PTL

\* An announcement of the module is counted once, however the port interrupt falls
\* between the load and the store of u8Interrupt-- and the switching of the sense.
THEOREM AnnouncementsOnce == Spec => []AnnouncedOnce
<1>1. IInv => AnnouncedOnce
  BY Zenon DEF IInv, HifInv
<1> QED
  BY <1>1, Invariant, PTL

\* hif_receive reads only from the message the module holds, and RX done is written
\* once for it.
THEOREM MessageHeld == Spec => []HeldWhileRead
<1>1. IInv => HeldWhileRead
  BY Zenon DEF IInv, HifInv, HeldInv, PartInv, HeldWhileRead
<1> QED
  BY <1>1, Invariant, PTL

\* Socket_ReadSocketData fills a buffer only for the session the data came for.
THEOREM DataInSession == Spec => []DataForSession
<1>1. IInv => DataForSession
  BY Zenon DEF IInv, SockInv, DataInv, DataForSession
<1> QED
  BY <1>1, Invariant, PTL

\* A pending receive has its reply on the way, or its session is one of those whose
\* request or reply failed.
THEOREM ReceiveComing == Spec => []RecvComing
<1>1. IInv => RecvComing
  BY Zenon DEF IInv, SockInv
<1> QED
  BY <1>1, Invariant, PTL

=============================================================================
