---------------------------- MODULE Usart2_proofs ----------------------------
(***************************************************************************)
(* Theorems about Usart2, for rings of any size and any bytes: its types,  *)
(* the agreement of counts and indices, and that both rings are byte       *)
(* queues.                                                                 *)
(*                                                                         *)
(* IInv adds to the properties what a call under way has in tmp, and that  *)
(* a call waits for a byte or for room before it moves an index.           *)
(***************************************************************************)
EXTENDS Usart2, SequenceTheorems, TLAPS

\* where a call is, tmp is the index it has computed
InCall ==
    /\ pc = "read_index" => tmp = After(rx_tail, RxSize) /\ rx_elements > 0
    /\ pc = "read_count" => tmp = rx_tail /\ rx_elements > 0
    /\ pc = "read_data" => tmp = rx_tail
    /\ pc \in {"write_wait", "write_data", "write_index"} => tmp = After(tx_head, TxSize)
    /\ pc \in {"write_data", "write_index", "write_count"} => tx_elements < TxSize
    /\ pc = "write_count" => tmp = tx_head
    /\ pc \in {"write_wait", "write_data", "write_index", "write_count"} => data \in Byte
    /\ pc \in {"write_index", "write_count"} => txbuf[tmp] = data

IInv == TypeOK /\ Counted /\ Draining /\ InCall

USE Usart2Assumption DEF vars, rxVars, txVars, mainVars, RxSlot, TxSlot

LEMMA InitIInv == Init => IInv
<1> SUFFICES ASSUME Init PROVE IInv
  OBVIOUS
<1>1. TypeOK
  <2>1. /\ rxbuf \in [RxSlot -> Byte \cup {"none"}]
        /\ txbuf \in [TxSlot -> Byte \cup {"none"}]
    BY DEF Init
  <2>2. 0 \in RxSlot /\ 0 \in TxSlot /\ 0 \in 0 .. RxSize /\ 0 \in 0 .. TxSize
    OBVIOUS
  <2>3. QED
    BY <2>1, <2>2 DEF Init, TypeOK
<1>2. Counted
  BY DEF Init, Counted, Shift, RxStored, TxStored
<1>3. Draining /\ InCall
  BY DEF Init, Draining, InCall
<1>4. QED
  BY <1>1, <1>2, <1>3 DEF IInv

LEMMA StepIInv == ASSUME IInv, Next PROVE IInv'
<1> USE DEF IInv, TypeOK, Counted, Draining, InCall, Shift, RxStored, TxStored, After
<1>1. CASE ReadWaits
  BY <1>1 DEF ReadWaits
<1>2. CASE ReadStoresIndex
  BY <1>2 DEF ReadStoresIndex
<1>3. CASE ReadCounts
  BY <1>3 DEF ReadCounts
<1>4. CASE ReadReturns
  BY <1>4 DEF ReadReturns
<1>5. CASE WriteWaits
  BY <1>5 DEF WriteWaits
<1>6. CASE WriteStoresData
  BY <1>6 DEF WriteStoresData
<1>7. CASE WriteStoresIndex
  BY <1>7 DEF WriteStoresIndex
<1>8. CASE WriteCounts
  BY <1>8 DEF WriteCounts
<1>9. CASE WriteEnables
  BY <1>9 DEF WriteEnables
<1>10. CASE UdreIsr
  <2>1. CASE tx_elements = 0
    BY <1>10, <2>1 DEF UdreIsr
  <2>2. CASE tx_elements # 0
    <3>1. /\ tx_tail' = After(tx_tail, TxSize) /\ tx_elements' = tx_elements - 1
          /\ txdata' = txbuf[tx_tail'] /\ dre' = FALSE /\ dreie' = (tx_elements' # 0)
          /\ UNCHANGED <<rxVars, txbuf, tx_head, mainVars>>
      BY <1>10, <2>2 DEF UdreIsr
    <3>2. tx_tail' \in TxSlot /\ tx_elements' \in 0 .. TxSize /\ tx_elements \in 1 .. TxSize
      BY <2>2, <3>1
    <3>3. TypeOK'
      BY <3>1, <3>2
    <3>4. Counted'
      BY <3>1, <3>2
    <3>5. Draining' /\ InCall'
      BY <3>1, <3>2
    <3>6. QED
      BY <3>3, <3>4, <3>5
  <2>3. QED
    BY <2>1, <2>2
<1>11. CASE Shifted
  BY <1>11 DEF Shifted
<1>12. ASSUME NEW b \in Byte, Write(b) PROVE IInv'
  BY <1>12 DEF Write
<1>13. ASSUME NEW b \in Byte, RxIsr(b) PROVE IInv'
  <2>1. CASE UNCHANGED vars
    BY <2>1
  <2>2. CASE /\ After(rx_head, RxSize) # rx_tail
             /\ rx_head' = After(rx_head, RxSize)
             /\ rxbuf' = [rxbuf EXCEPT ![After(rx_head, RxSize)] = b]
             /\ rx_elements' = rx_elements + 1
             /\ UNCHANGED <<rx_tail, txVars, mainVars>>
    <3>1. rxbuf' \in [RxSlot -> Byte \cup {"none"}]
      BY <2>2
    <3>2. Counted' /\ rx_elements' \in 0 .. RxSize /\ rx_head' \in RxSlot
      BY <2>2
    <3>3. TypeOK'
      BY <2>2, <3>1, <3>2
    <3>4. Draining' /\ InCall'
      BY <2>2
    <3>5. QED
      BY <3>2, <3>3, <3>4
  <2>3. QED
    BY <1>13, <2>1, <2>2 DEF RxIsr
<1>14. QED
  BY <1>1, <1>2, <1>3, <1>4, <1>5, <1>6, <1>7, <1>8, <1>9, <1>10, <1>11,
     <1>12, <1>13
     DEF Next, Read, WriteEnds

\* The types, the counts and the draining of the transmit ring hold in every
\* reachable state.
THEOREM Invariant == Spec => []IInv
<1>1. IInv /\ UNCHANGED vars => IInv'
  BY DEF IInv, TypeOK, Counted, Draining, InCall, RxStored, TxStored
<1>2. QED
  BY <1>1, InitIInv, StepIInv, PTL DEF Spec

\* All variables keep their types.
THEOREM TypeCorrect == Spec => []TypeOK
<1>1. IInv => TypeOK
  BY DEF IInv
<1>2. QED
  BY <1>1, Invariant, PTL

\* The element counts agree with the indices, whatever routine ran between two
\* of main's accesses (usart2.c).
THEOREM CountsAgree == Spec => []Counted
<1>1. IInv => Counted
  BY DEF IInv
<1>2. QED
  BY <1>1, Invariant, PTL

\* No interleaving of write and the routine that disables its own interrupt
\* leaves bytes in the ring with the interrupt disabled (usart2.c).
THEOREM AlwaysDraining == Spec => []Draining
<1>1. IInv => Draining
  BY DEF IInv
<1>2. QED
  BY <1>1, Invariant, PTL

-----------------------------------------------------------------------------
(* Rings as sequences.                                                     *)

LEMMA RingIsSeq ==
    ASSUME NEW n \in Nat, NEW tail \in 0 .. n - 1, NEW k \in 0 .. n,
           NEW S, NEW buf \in [0 .. n - 1 -> S]
    PROVE  Ring(buf, tail, k, n) \in Seq(S) /\ Len(Ring(buf, tail, k, n)) = k
<1>1. \A i \in 1 .. k : Shift(tail, i, n) \in 0 .. n - 1
  BY DEF Shift
<1>2. \A i \in 1 .. k : buf[Shift(tail, i, n)] \in S
  BY <1>1
<1>3. QED
  BY <1>2, LenProperties DEF Ring

\* taking the byte behind tail
LEMMA RingTake ==
    ASSUME NEW n \in Nat, n > 1, NEW tail \in 0 .. n - 1, NEW k \in 1 .. n,
           NEW S, NEW buf \in [0 .. n - 1 -> S]
    PROVE  /\ Ring(buf, tail, k, n) # <<>>
           /\ Head(Ring(buf, tail, k, n)) = buf[After(tail, n)]
           /\ Tail(Ring(buf, tail, k, n)) = Ring(buf, After(tail, n), k - 1, n)
<1> DEFINE s == Ring(buf, tail, k, n)
           t == Ring(buf, After(tail, n), k - 1, n)
<1>1. s \in Seq(S) /\ Len(s) = k
  BY RingIsSeq
<1>2. After(tail, n) \in 0 .. n - 1 /\ k - 1 \in 0 .. n
  BY DEF After
<1>3. t \in Seq(S) /\ Len(t) = k - 1
  <2>1. \A r \in 0 .. n - 1, j \in 0 .. n :
          Ring(buf, r, j, n) \in Seq(S) /\ Len(Ring(buf, r, j, n)) = j
    BY RingIsSeq
  <2>2. QED
    BY <1>2, <2>1
<1>4. s # <<>>
  BY <1>1
<1>5. s[1] = buf[After(tail, n)]
  BY DEF Ring, Shift, After
<1>6. Tail(s) \in Seq(S) /\ Len(Tail(s)) = k - 1
      /\ \A i \in 1 .. k - 1 : Tail(s)[i] = s[i + 1]
  BY <1>1, <1>4, HeadTailProperties
<1>7. \A i \in 1 .. k - 1 : t[i] = s[i + 1]
  <2>1. \A i \in 1 .. k - 1 : Shift(After(tail, n), i, n) = Shift(tail, i + 1, n)
    BY DEF Shift, After
  <2>2. \A i \in 1 .. k - 1 : i + 1 \in 1 .. k
    OBVIOUS
  <2>3. QED
    BY <2>1, <2>2 DEF Ring
<1>8. Tail(s) = t
  BY <1>3, <1>6, <1>7, SeqEqual
<1>9. QED
  BY <1>4, <1>5, <1>8

\* one more byte before head
LEMMA RingPut ==
    ASSUME NEW n \in Nat, n > 1, NEW tail \in 0 .. n - 1, NEW k \in 0 .. n - 1,
           NEW S, NEW buf \in [0 .. n - 1 -> S]
    PROVE  Ring(buf, tail, k + 1, n) =
             Append(Ring(buf, tail, k, n), buf[Shift(tail, k + 1, n)])
<1> DEFINE s == Ring(buf, tail, k, n)
           t == Ring(buf, tail, k + 1, n)
           b == buf[Shift(tail, k + 1, n)]
<1>1. s \in Seq(S) /\ Len(s) = k
  BY RingIsSeq
<1>2. t \in Seq(S) /\ Len(t) = k + 1
  BY RingIsSeq
<1>3. b \in S
  BY DEF Shift
<1>4. Append(s, b) \in Seq(S) /\ Len(Append(s, b)) = k + 1
      /\ (\A i \in 1 .. k : Append(s, b)[i] = s[i]) /\ Append(s, b)[k + 1] = b
  BY <1>1, <1>3, AppendProperties
<1>5. (\A i \in 1 .. k : t[i] = s[i]) /\ t[k + 1] = b
  BY DEF Ring
<1>6. \A i \in 1 .. k + 1 : t[i] = Append(s, b)[i]
  BY <1>4, <1>5
<1>7. QED
  BY <1>2, <1>4, <1>6, SeqEqual

\* a store to the slot before head changes nothing between the indices
LEMMA RingOther ==
    ASSUME NEW n \in Nat, n > 1, NEW tail \in 0 .. n - 1, NEW k \in 0 .. n - 1,
           NEW S, NEW buf \in [0 .. n - 1 -> S], NEW b
    PROVE  Ring([buf EXCEPT ![Shift(tail, k + 1, n)] = b], tail, k, n) =
             Ring(buf, tail, k, n)
<1>1. \A i \in 1 .. k : Shift(tail, i, n) # Shift(tail, k + 1, n)
                          /\ Shift(tail, i, n) \in 0 .. n - 1
  BY DEF Shift
<1>2. QED
  BY <1>1 DEF Ring

-----------------------------------------------------------------------------
(* The rings are byte queues.                                              *)

rxQueue == Ring(rxbuf, rx_tail, RxStored, RxSize)
rxTaken == IF pc \in {"read_count", "read_data"} THEN rxbuf[tmp] ELSE ret

LEMMA RxInit == Init => RxQueue!Init
<1> SUFFICES ASSUME Init PROVE rxQueue = <<>> /\ rxTaken = "none"
  BY DEF RxQueue!Init, rxQueue, rxTaken
<1>1. RxStored = 0
  BY DEF Init, RxStored
<1>2. 0 \in RxSlot /\ rxbuf \in [0 .. RxSize - 1 -> {"none"}] /\ rx_tail = 0
  BY DEF Init
<1>3. rxQueue \in Seq({"none"}) /\ Len(rxQueue) = 0
  BY <1>1, <1>2, RingIsSeq DEF rxQueue
<1>4. rxQueue = <<>>
  BY <1>3, EmptySeq
<1>5. rxTaken = "none"
  BY DEF Init, rxTaken
<1>6. QED
  BY <1>4, <1>5

LEMMA RxLength == ASSUME IInv PROVE Len(rxQueue) = RxStored
<1>1. /\ rxbuf \in [0 .. RxSize - 1 -> Byte \cup {"none"}]
      /\ rx_tail \in 0 .. RxSize - 1 /\ RxStored \in 0 .. RxSize
  BY DEF IInv, TypeOK, Counted
<1>2. \A r \in 0 .. RxSize - 1, j \in 0 .. RxSize :
        Ring(rxbuf, r, j, RxSize) \in Seq(Byte \cup {"none"})
        /\ Len(Ring(rxbuf, r, j, RxSize)) = j
  <2>1. RxSize \in Nat
    OBVIOUS
  <2>2. QED
    BY <1>1, <2>1, RingIsSeq
<1>3. QED
  BY <1>1, <1>2 DEF rxQueue

LEMMA RxStep ==
    ASSUME IInv, Next
    PROVE  RxQueue!Next \/ (rxQueue' = rxQueue /\ rxTaken' = rxTaken)
<1>1. /\ rxbuf \in [0 .. RxSize - 1 -> Byte \cup {"none"}]
      /\ rx_tail \in 0 .. RxSize - 1 /\ RxStored \in 0 .. RxSize - 1
      /\ rx_head = Shift(rx_tail, RxStored, RxSize)
  BY DEF IInv, TypeOK, Counted
<1>2. ASSUME UNCHANGED <<rxVars, pc, tmp, ret>> PROVE rxQueue' = rxQueue /\ rxTaken' = rxTaken
  BY <1>2 DEF rxQueue, rxTaken, RxStored
<1>3. ASSUME UNCHANGED rxVars, UNCHANGED ret,
             pc \notin {"read_count", "read_data"}, pc' \notin {"read_count", "read_data"}
      PROVE  rxQueue' = rxQueue /\ rxTaken' = rxTaken
  BY <1>3 DEF rxQueue, rxTaken, RxStored
<1>4. CASE ReadWaits
  BY <1>3, <1>4 DEF ReadWaits
<1>5. CASE ReadStoresIndex
  <2>1. RxStored \in 1 .. RxSize /\ RxStored' = RxStored - 1 /\ tmp = After(rx_tail, RxSize)
    BY <1>1, <1>5 DEF ReadStoresIndex, RxStored, IInv, TypeOK, InCall
  <2>2. /\ rxQueue # <<>> /\ Head(rxQueue) = rxbuf[tmp]
        /\ Tail(rxQueue) = Ring(rxbuf, tmp, RxStored - 1, RxSize)
    BY <1>1, <2>1, RingTake DEF rxQueue
  <2>3. rxQueue' = Ring(rxbuf, tmp, RxStored - 1, RxSize) /\ rxTaken' = rxbuf[tmp]
    BY <1>5, <2>1 DEF ReadStoresIndex, rxQueue, rxTaken
  <2>4. QED
    BY <2>2, <2>3 DEF RxQueue!Next, RxQueue!Take, rxQueue, rxTaken
<1>6. CASE ReadCounts
  BY <1>1, <1>6 DEF ReadCounts, rxQueue, rxTaken, RxStored, IInv, TypeOK
<1>7. CASE ReadReturns
  BY <1>7 DEF ReadReturns, rxQueue, rxTaken, RxStored
<1>8. CASE WriteEnds
  BY <1>3, <1>8 DEF WriteEnds, WriteWaits, WriteStoresData, WriteStoresIndex,
                    WriteCounts, WriteEnables
<1>9. CASE UdreIsr \/ Shifted
  BY <1>2, <1>9 DEF UdreIsr, Shifted
<1>10. ASSUME NEW b \in Byte, Write(b) PROVE rxQueue' = rxQueue /\ rxTaken' = rxTaken
  BY <1>3, <1>10 DEF Write
<1>11. ASSUME NEW b \in Byte, RxIsr(b)
       PROVE  RxQueue!Next \/ (rxQueue' = rxQueue /\ rxTaken' = rxTaken)
  <2>1. CASE UNCHANGED vars
    BY <1>2, <2>1
  <2>2. CASE /\ After(rx_head, RxSize) # rx_tail
             /\ rxbuf' = [rxbuf EXCEPT ![After(rx_head, RxSize)] = b]
             /\ rx_elements' = rx_elements + 1
             /\ UNCHANGED <<rx_tail, mainVars>>
    <3>1. After(rx_head, RxSize) = Shift(rx_tail, RxStored + 1, RxSize)
      BY <1>1 DEF After, Shift
    <3>2. RxStored \in 0 .. RxSize - 2 /\ RxStored' = RxStored + 1
      BY <1>1, <2>2, <3>1 DEF Shift, RxStored, IInv, TypeOK
    <3>3. rxbuf' \in [0 .. RxSize - 1 -> Byte \cup {"none"}]
          /\ rxbuf'[After(rx_head, RxSize)] = b
      BY <1>1, <2>2 DEF After, IInv, TypeOK
    <3>4. Ring(rxbuf', rx_tail, RxStored, RxSize) = rxQueue
      <4>1. Ring([rxbuf EXCEPT ![Shift(rx_tail, RxStored + 1, RxSize)] = b],
                 rx_tail, RxStored, RxSize) = Ring(rxbuf, rx_tail, RxStored, RxSize)
        BY <1>1, RingOther
      <4>2. QED
        BY <2>2, <3>1, <4>1 DEF rxQueue
    <3>5. Ring(rxbuf', rx_tail, RxStored + 1, RxSize) =
            Append(Ring(rxbuf', rx_tail, RxStored, RxSize),
                   rxbuf'[Shift(rx_tail, RxStored + 1, RxSize)])
      BY <1>1, <3>3, RingPut
    <3>6. rxQueue' = Append(rxQueue, b)
      BY <2>2, <3>1, <3>2, <3>3, <3>4, <3>5 DEF rxQueue
    <3>7. Len(rxQueue) = RxStored
      BY RxLength
    <3>8. rxTaken' = rxTaken
      BY <2>2 DEF rxTaken, IInv, InCall, TypeOK
    <3>9. QED
      BY <3>2, <3>6, <3>7, <3>8 DEF RxQueue!Next, RxQueue!Put, rxQueue, rxTaken
  <2>3. QED
    BY <1>11, <2>1, <2>2 DEF RxIsr
<1>12. QED
  BY <1>4, <1>5, <1>6, <1>7, <1>8, <1>9, <1>10, <1>11 DEF Next, Read

\* Whatever the routine stores between main's accesses, read returns every byte
\* the ring accepted, once and in order (usart2.c).
THEOREM RxIsByteQueue == Spec => RxDelivers
<1>1. IInv /\ [Next]_vars => [RxQueue!Next]_<<rxQueue, rxTaken>>
  <2>1. UNCHANGED vars => rxQueue' = rxQueue /\ rxTaken' = rxTaken
    BY DEF rxQueue, rxTaken, RxStored
  <2>2. QED
    BY <2>1, RxStep
<1>2. QED
  BY <1>1, RxInit, Invariant, PTL DEF Spec, RxDelivers, RxQueue!Spec, rxQueue, rxTaken

txQueue == Ring(txbuf, tx_tail, tx_elements, TxSize)

LEMMA TxInit == Init => TxQueue!Init
<1> SUFFICES ASSUME Init PROVE txQueue = <<>> /\ txdata = "none"
  BY DEF TxQueue!Init, txQueue
<1>1. 0 \in TxSlot /\ txbuf \in [0 .. TxSize - 1 -> {"none"}] /\ tx_tail = 0
      /\ tx_elements = 0
  BY DEF Init
<1>2. txQueue \in Seq({"none"}) /\ Len(txQueue) = 0
  BY <1>1, RingIsSeq DEF txQueue
<1>3. QED
  BY <1>2, EmptySeq DEF Init

LEMMA TxLength == ASSUME IInv PROVE Len(txQueue) = tx_elements
<1>1. /\ txbuf \in [0 .. TxSize - 1 -> Byte \cup {"none"}]
      /\ tx_tail \in 0 .. TxSize - 1 /\ tx_elements \in 0 .. TxSize
  BY DEF IInv, TypeOK
<1>2. \A r \in 0 .. TxSize - 1, j \in 0 .. TxSize :
        Ring(txbuf, r, j, TxSize) \in Seq(Byte \cup {"none"})
        /\ Len(Ring(txbuf, r, j, TxSize)) = j
  <2>1. TxSize \in Nat
    OBVIOUS
  <2>2. QED
    BY <1>1, <2>1, RingIsSeq
<1>3. QED
  BY <1>1, <1>2 DEF txQueue

LEMMA TxStep ==
    ASSUME IInv, Next
    PROVE  TxQueue!Next \/ (txQueue' = txQueue /\ txdata' = txdata)
<1>1. /\ txbuf \in [0 .. TxSize - 1 -> Byte \cup {"none"}]
      /\ tx_tail \in 0 .. TxSize - 1 /\ tx_elements \in 0 .. TxSize
      /\ tx_head = Shift(tx_tail, TxStored, TxSize)
  BY DEF IInv, TypeOK, Counted
<1>2. ASSUME UNCHANGED <<txbuf, tx_tail, tx_elements, txdata>>
      PROVE  txQueue' = txQueue /\ txdata' = txdata
  BY <1>2 DEF txQueue
<1>3. CASE Read
  BY <1>2, <1>3 DEF Read, ReadWaits, ReadStoresIndex, ReadCounts, ReadReturns
<1>4. CASE WriteWaits \/ WriteStoresIndex \/ WriteEnables \/ Shifted
  BY <1>2, <1>4 DEF WriteWaits, WriteStoresIndex, WriteEnables, Shifted
<1>5. CASE WriteStoresData
  <2>1. /\ tx_elements \in 0 .. TxSize - 1
        /\ tmp = Shift(tx_tail, tx_elements + 1, TxSize)
        /\ txbuf' = [txbuf EXCEPT ![tmp] = data]
        /\ UNCHANGED <<tx_tail, tx_elements, txdata>>
    BY <1>1, <1>5
       DEF WriteStoresData, IInv, InCall, TxStored, After, Shift
  <2>2. Ring([txbuf EXCEPT ![Shift(tx_tail, tx_elements + 1, TxSize)] = data],
             tx_tail, tx_elements, TxSize) = Ring(txbuf, tx_tail, tx_elements, TxSize)
    BY <1>1, <2>1, RingOther
  <2>3. QED
    BY <2>1, <2>2 DEF txQueue
<1>6. CASE WriteCounts
  <2>1. /\ tx_elements \in 0 .. TxSize - 1 /\ tx_elements' = tx_elements + 1
        /\ txbuf[Shift(tx_tail, tx_elements + 1, TxSize)] = data /\ data \in Byte
        /\ UNCHANGED <<txbuf, tx_tail, txdata>>
    BY <1>1, <1>6 DEF WriteCounts, IInv, InCall, TxStored
  <2>2. Ring(txbuf, tx_tail, tx_elements + 1, TxSize) =
          Append(Ring(txbuf, tx_tail, tx_elements, TxSize),
                 txbuf[Shift(tx_tail, tx_elements + 1, TxSize)])
    BY <1>1, <2>1, RingPut
  <2>3. txQueue' = Append(txQueue, data)
    BY <2>1, <2>2 DEF txQueue
  <2>4. Len(txQueue) < TxSize
    BY <2>1, TxLength
  <2>5. QED
    BY <2>1, <2>3, <2>4 DEF TxQueue!Next, TxQueue!Put, txQueue
<1>7. CASE UdreIsr
  <2>1. CASE tx_elements = 0
    BY <1>2, <1>7, <2>1 DEF UdreIsr
  <2>2. CASE tx_elements # 0
    <3>1. /\ tx_elements \in 1 .. TxSize /\ tx_elements' = tx_elements - 1
          /\ tx_tail' = After(tx_tail, TxSize) /\ txdata' = txbuf[After(tx_tail, TxSize)]
          /\ UNCHANGED txbuf
      <4>1. tx_elements \in 1 .. TxSize
        BY <1>1, <2>2
      <4>2. /\ tx_elements' = tx_elements - 1 /\ tx_tail' = After(tx_tail, TxSize)
            /\ txdata' = txbuf[tx_tail'] /\ UNCHANGED txbuf
        BY <1>7, <2>2 DEF UdreIsr
      <4>3. QED
        BY <4>1, <4>2
    <3>2. /\ txQueue # <<>> /\ Head(txQueue) = txbuf[After(tx_tail, TxSize)]
          /\ Tail(txQueue) = Ring(txbuf, After(tx_tail, TxSize), tx_elements - 1, TxSize)
      BY <1>1, <3>1, RingTake DEF txQueue
    <3>3. txQueue' = Tail(txQueue)
      BY <3>1, <3>2 DEF txQueue
    <3>4. QED
      BY <3>1, <3>2, <3>3 DEF TxQueue!Next, TxQueue!Take, txQueue
  <2>3. QED
    BY <2>1, <2>2
<1>8. ASSUME NEW b \in Byte, Write(b) \/ RxIsr(b) PROVE txQueue' = txQueue /\ txdata' = txdata
  BY <1>2, <1>8 DEF Write, RxIsr
<1>9. QED
  BY <1>3, <1>4, <1>5, <1>6, <1>7, <1>8 DEF Next, WriteEnds

\* Every byte written is transmitted, once and in order, however the routine
\* runs between main's accesses (usart2.c).
THEOREM TxIsByteQueue == Spec => TxDelivers
<1>1. IInv /\ [Next]_vars => [TxQueue!Next]_<<txQueue, txdata>>
  <2>1. UNCHANGED vars => txQueue' = txQueue /\ txdata' = txdata
    BY DEF txQueue
  <2>2. QED
    BY <2>1, TxStep
<1>2. QED
  BY <1>1, TxInit, Invariant, PTL DEF Spec, TxDelivers, TxQueue!Spec, txQueue

=============================================================================
