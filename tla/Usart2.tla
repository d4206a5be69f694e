------------------------------- MODULE Usart2 -------------------------------
(***************************************************************************)
(* The interrupt-driven serial driver, src/mcc_generated_files/src/usart2.c*)
(* after USART_2_init, with the receive interrupt enabled by CLI_init.     *)
(*                                                                         *)
(* Main calls USART_2_read and USART_2_write, one at a time; each of their *)
(* accesses to a volatile variable is a step, between any two of which an  *)
(* interrupt routine may run.  The routines do not interrupt each other,   *)
(* and a critical section of main is one step.  "& MASK" wraps an index at *)
(* the size, a power of two in the code and any size here.                 *)
(***************************************************************************)
EXTENDS Naturals, Sequences

CONSTANTS
    RxSize,   \* USART_2_RX_BUFFER_SIZE
    TxSize,   \* USART_2_TX_BUFFER_SIZE
    Byte      \* the bytes sent and received

ASSUME Usart2Assumption ==
    /\ RxSize \in Nat /\ RxSize > 1
    /\ TxSize \in Nat /\ TxSize > 1
    /\ "none" \notin Byte

VARIABLES
    rxbuf, rx_head, rx_tail, rx_elements,
    txbuf, tx_head, tx_tail, tx_elements,
    dreie,     \* USART2.CTRLA.DREIE, the enable of the data-register interrupt
    dre,       \* the transmit data register is empty
    txdata,    \* USART2.TXDATAL
    pc,        \* where main is in a call, "idle" between calls
    tmp,       \* the call's tmptail or tmphead
    data,      \* the argument of write
    ret        \* what read returned last

rxVars == <<rxbuf, rx_head, rx_tail, rx_elements>>
txVars == <<txbuf, tx_head, tx_tail, tx_elements, dreie, dre, txdata>>
mainVars == <<pc, tmp, data, ret>>
vars == <<rxVars, txVars, mainVars>>

RxSlot == 0 .. RxSize - 1
TxSlot == 0 .. TxSize - 1

Init ==
    /\ rxbuf = [i \in RxSlot |-> "none"] /\ txbuf = [i \in TxSlot |-> "none"]
    /\ rx_head = 0 /\ rx_tail = 0 /\ rx_elements = 0
    /\ tx_head = 0 /\ tx_tail = 0 /\ tx_elements = 0
    /\ dreie = FALSE /\ dre = TRUE /\ txdata = "none"
    /\ pc = "idle" /\ tmp = 0 /\ data = "none" /\ ret = "none"

\* (i + 1) & (n - 1)
After(i, n) == IF i + 1 = n THEN 0 ELSE i + 1

-----------------------------------------------------------------------------
(* USART_2_read.                                                           *)

\* wait for data, tmptail
ReadWaits ==
    /\ pc = "idle" /\ rx_elements # 0
    /\ tmp' = After(rx_tail, RxSize) /\ pc' = "read_index"
    /\ UNCHANGED <<rxVars, txVars, data, ret>>

ReadStoresIndex ==
    /\ pc = "read_index" /\ pc' = "read_count"
    /\ rx_tail' = tmp
    /\ UNCHANGED <<rxbuf, rx_head, rx_elements, txVars, tmp, data, ret>>

\* ENTER_CRITICAL ... EXIT_CRITICAL
ReadCounts ==
    /\ pc = "read_count" /\ pc' = "read_data"
    /\ rx_elements' = rx_elements - 1
    /\ UNCHANGED <<rxbuf, rx_head, rx_tail, txVars, tmp, data, ret>>

ReadReturns ==
    /\ pc = "read_data" /\ pc' = "idle"
    /\ ret' = rxbuf[tmp]
    /\ UNCHANGED <<rxVars, txVars, tmp, data>>

-----------------------------------------------------------------------------
(* USART_2_write.                                                          *)

Write(b) ==
    /\ pc = "idle" /\ pc' = "write_wait"
    /\ data' = b /\ tmp' = After(tx_head, TxSize)
    /\ UNCHANGED <<rxVars, txVars, ret>>

\* mutant of WriteWaits: the wait ends one byte too early
WriteWaitsNot ==
    /\ pc = "write_wait" /\ tx_elements <= TxSize
    /\ pc' = "write_data"
    /\ UNCHANGED <<rxVars, txVars, tmp, data, ret>>

WriteWaits ==
    /\ pc = "write_wait" /\ tx_elements # TxSize
    /\ pc' = "write_data"
    /\ UNCHANGED <<rxVars, txVars, tmp, data, ret>>

WriteStoresData ==
    /\ pc = "write_data" /\ pc' = "write_index"
    /\ txbuf' = [txbuf EXCEPT ![tmp] = data]
    /\ UNCHANGED <<rxVars, tx_head, tx_tail, tx_elements, dreie, dre, txdata,
                   tmp, data, ret>>

WriteStoresIndex ==
    /\ pc = "write_index" /\ pc' = "write_count"
    /\ tx_head' = tmp
    /\ UNCHANGED <<rxVars, txbuf, tx_tail, tx_elements, dreie, dre, txdata,
                   tmp, data, ret>>

WriteCounts ==
    /\ pc = "write_count" /\ pc' = "write_enable"
    /\ tx_elements' = tx_elements + 1
    /\ UNCHANGED <<rxVars, txbuf, tx_head, tx_tail, dreie, dre, txdata,
                   tmp, data, ret>>

\* mutant of WriteEnables: it is thought that the interrupt is enabled already
WriteEnablesNot ==
    /\ pc = "write_enable" /\ pc' = "idle"
    /\ UNCHANGED <<rxVars, txVars, tmp, data, ret>>

\* CTRLA |= DREIE: read and written back, but what a routine may do in between
\* is clear the very bit that is set
WriteEnables ==
    /\ pc = "write_enable" /\ pc' = "idle"
    /\ dreie' = TRUE
    /\ UNCHANGED <<rxVars, txbuf, tx_head, tx_tail, tx_elements, dre, txdata,
                   tmp, data, ret>>

-----------------------------------------------------------------------------
(* The interrupt routines and, external, the hardware.                     *)

\* mutant of RxIsr: the last free slot is used
RxIsrFills(b) ==
    /\ rx_elements < RxSize
    /\ LET tmphead == After(rx_head, RxSize)
       IN  /\ rx_head' = tmphead
           /\ rxbuf' = [rxbuf EXCEPT ![tmphead] = b]
           /\ rx_elements' = rx_elements + 1
    /\ UNCHANGED <<rx_tail, txVars, mainVars>>

\* USART_2_default_rx_isr_cb: a byte that finds the ring full is dropped
RxIsr(b) ==
    LET tmphead == After(rx_head, RxSize)
    IN  \/ /\ tmphead # rx_tail
           /\ rx_head' = tmphead
           /\ rxbuf' = [rxbuf EXCEPT ![tmphead] = b]
           /\ rx_elements' = rx_elements + 1
           /\ UNCHANGED <<rx_tail, txVars, mainVars>>
        \/ tmphead = rx_tail /\ UNCHANGED vars

\* mutant of UdreIsr: disables itself when it has sent one byte
UdreIsrOnce ==
    /\ dreie /\ dre
    /\ dreie' = FALSE
    /\ \/ /\ tx_elements # 0
          /\ tx_tail' = After(tx_tail, TxSize)
          /\ txdata' = txbuf[tx_tail'] /\ dre' = FALSE
          /\ tx_elements' = tx_elements - 1
       \/ tx_elements = 0 /\ UNCHANGED <<tx_tail, txdata, dre, tx_elements>>
    /\ UNCHANGED <<rxVars, txbuf, tx_head, mainVars>>

\* USART_2_default_udre_isr_cb
UdreIsr ==
    /\ dreie /\ dre
    /\ \/ /\ tx_elements # 0
          /\ tx_tail' = After(tx_tail, TxSize)
          /\ txdata' = txbuf[tx_tail'] /\ dre' = FALSE
          /\ tx_elements' = tx_elements - 1
       \/ tx_elements = 0 /\ UNCHANGED <<tx_tail, txdata, dre, tx_elements>>
    /\ dreie' = (tx_elements' # 0)
    /\ UNCHANGED <<rxVars, txbuf, tx_head, mainVars>>

\* the byte moves on to the shift register
Shifted ==
    /\ ~dre /\ dre' = TRUE
    /\ UNCHANGED <<rxVars, txbuf, tx_head, tx_tail, tx_elements, dreie, txdata, mainVars>>

-----------------------------------------------------------------------------

Read == ReadWaits \/ ReadStoresIndex \/ ReadCounts \/ ReadReturns

WriteEnds ==
    \/ WriteWaits \/ WriteStoresData \/ WriteStoresIndex
    \/ WriteCounts \/ WriteEnables

Next ==
    \/ Read \/ WriteEnds \/ UdreIsr \/ Shifted
    \/ \E b \in Byte : Write(b) \/ RxIsr(b)

Spec == Init /\ [][Next]_vars

\* main runs and reads while there is something to read (CLI_task), a pending
\* interrupt is served, the transmitter shifts
FairSpec ==
    /\ Spec
    /\ WF_vars(WriteEnds) /\ WF_vars(Read)
    /\ WF_vars(UdreIsr) /\ WF_vars(Shifted)

-----------------------------------------------------------------------------
(* Properties.                                                             *)

TypeOK ==
    /\ rxbuf \in [RxSlot -> Byte \cup {"none"}] /\ txbuf \in [TxSlot -> Byte \cup {"none"}]
    /\ rx_head \in RxSlot /\ rx_tail \in RxSlot /\ rx_elements \in 0 .. RxSize
    /\ tx_head \in TxSlot /\ tx_tail \in TxSlot /\ tx_elements \in 0 .. TxSize
    /\ dreie \in BOOLEAN /\ dre \in BOOLEAN
    /\ txdata \in Byte \cup {"none"}
    /\ pc \in {"idle", "read_index", "read_count", "read_data", "write_wait",
               "write_data", "write_index", "write_count", "write_enable"}
    /\ tmp \in RxSlot \cup TxSlot
    /\ data \in Byte \cup {"none"} /\ ret \in Byte \cup {"none"}

\* i + k wrapped at n, for k up to n
Shift(i, k, n) == IF i + k >= n THEN i + k - n ELSE i + k

\* the bytes between the indices: the counts, but for the call changing them
RxStored == rx_elements - IF pc = "read_count" THEN 1 ELSE 0
TxStored == tx_elements + IF pc = "write_count" THEN 1 ELSE 0

\* The element counts, changed by main and by the routines, always agree with
\* the indices, and the receive ring keeps one slot free for the byte a call is
\* reading.
Counted ==
    /\ RxStored \in 0 .. RxSize - 1 /\ rx_head = Shift(rx_tail, RxStored, RxSize)
    /\ TxStored \in 0 .. TxSize /\ tx_head = Shift(tx_tail, TxStored, TxSize)

\* A transmit buffer that is not empty is being emptied, or main is about to
\* start it: no interleaving leaves bytes behind with the interrupt disabled.
Draining == tx_elements # 0 => dreie \/ pc = "write_enable"

\* the slots from the one after tail on
Ring(buf, tail, k, n) == [i \in 1 .. k |-> buf[Shift(tail, i, n)]]

\* The receive ring is a ByteQueue that holds one byte less than its size; a
\* byte counts as taken once the tail has passed it, and it is still there when
\* the call reads it.
RxQueue == INSTANCE ByteQueue WITH
    Capacity <- RxSize - 1,
    queue <- Ring(rxbuf, rx_tail, RxStored, RxSize),
    taken <- IF pc \in {"read_count", "read_data"} THEN rxbuf[tmp] ELSE ret
RxDelivers == RxQueue!Spec

\* The transmit ring is a ByteQueue that holds as many bytes as its size.
TxQueue == INSTANCE ByteQueue WITH
    Capacity <- TxSize,
    queue <- Ring(txbuf, tx_tail, tx_elements, TxSize),
    taken <- txdata
TxDelivers == TxQueue!Spec

\* A write that finds the ring full does not wait for ever.
WriteReturns == pc = "write_wait" ~> pc = "idle"

=============================================================================
