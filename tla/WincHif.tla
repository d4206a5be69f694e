------------------------------ MODULE WincHif ------------------------------
(* The host interface of the WINC Wi-Fi module                              *)
(* (M/winc/driver/source/m2m_hif.c, M/winc/bsp/source/nm_bsp_mega.c, with M *)
(* for src/mcc_generated_files).                                            *)
(*                                                                          *)
(* The module has one message at a time in the memory it shares with the    *)
(* host.  It sets bit 0 of WIFI_HOST_RCV_CTRL_0, which pulls the interrupt  *)
(* line low, and says no more until the host has written bit 1, RX done.    *)
(* The port interrupt counts the edge; wifiHandlerTask finds the count and  *)
(* handles the message, a register of the module at a time.                 *)
(*                                                                          *)
(* A register is written without an answer that could be missing (nmspi.c   *)
(* tests only the echo of the command), a read fails when no data header    *)
(* comes: Faults names the reads that fail.  A read of CTRL_0 that fails is *)
(* made again, which is no step of the model.                               *)
(*                                                                          *)
(* WincSocket extends this module: what a message says is its business.     *)
EXTENDS Integers, Sequences

CONSTANTS
    MaxQueue,   \* bound: messages the module has for the host
    Faults      \* the reads that fail: of the message's place or its header, of its
                \* data, of CTRL_0 before RX done; "start": the module does not start

ASSUME HifAssumption ==
    /\ MaxQueue \in Nat \ {0}
    /\ Faults \subseteq {"header", "data", "rxdone", "start"}

VARIABLES
    queue,        \* the module: messages it has not announced
    slot,         \* ... the message it announced, until RX done
    bit0,         \* ... bit 0 of CTRL_0: announced and not cleared, the line is low
    flag,         \* the interrupt flag of the pin
    sense,        \* the pin's sense is the falling edge
    registered,   \* gpfIsr # NULL
    u8Interrupt,  \* announcements counted and not handled
    loaded,       \* u8Interrupt as hif_handle_isr has it in a register
    u8HifRXDone,  \* RX done is to be written yet
    pc,           \* where main is
    then,         \* where it goes on when RX done is written
    msg,          \* the message main is at: its header, then its reply
    left,         \* parts of it that are to be read
    failed        \* ghost: a read failed too late to be made again, or the module
                  \* did not start

chipVars == <<queue, slot, bit0>>
pinVars  == <<flag, sense, registered>>
rxVars   == <<u8HifRXDone, then, msg, left>>
hifVars  == <<chipVars, pinVars, u8Interrupt, loaded, rxVars, pc, failed>>

Pc == {"idle", "store", "isr", "clear", "header", "receive", "handle", "rxdone",
       "tail", "deinit", "reset"}

\* The messages: m.parts reads take m.op's reply and its data from the memory.
NoMessage == [op |-> "none", sock |-> 0, ses |-> 0, parts |-> 0]

\* the module waits for RX done
Owed == slot # NoMessage

HifInit ==
    /\ queue = <<>> /\ slot = NoMessage /\ bit0 = FALSE
    /\ flag = FALSE /\ sense = FALSE /\ registered = FALSE
    /\ u8Interrupt = 0 /\ loaded = 0 /\ u8HifRXDone = FALSE
    /\ pc = "deinit" /\ then = "tail" /\ msg = NoMessage /\ left = 0 /\ failed = FALSE

-----------------------------------------------------------------------------
(* The module (external).                                                     *)

\* it has something to say
Queued(m) ==
    /\ registered                       \* it was started
    /\ Len(queue) < MaxQueue
    /\ queue' = Append(queue, m)
    /\ UNCHANGED <<slot, bit0, pinVars, u8Interrupt, loaded, rxVars, pc, failed>>

\* The line falls; the pin sees it if its sense is on.
Announce ==
    /\ queue # <<>> /\ ~Owed
    /\ slot' = Head(queue) /\ queue' = Tail(queue)
    /\ bit0' = TRUE
    /\ flag' = (flag \/ sense)
    /\ UNCHANGED <<sense, registered, u8Interrupt, loaded, rxVars, pc, failed>>

-----------------------------------------------------------------------------
(* The port interrupt, and hif_handle_isr.                                    *)

Isr ==
    /\ flag
    /\ flag' = FALSE
    /\ u8Interrupt' = IF bit0 /\ registered THEN (u8Interrupt + 1) % 256
                      ELSE u8Interrupt
    /\ UNCHANGED <<chipVars, sense, registered, loaded, rxVars, pc, failed>>

\* u8Interrupt--: a load, a store
HandleLoads ==
    /\ pc = "idle" /\ u8Interrupt # 0
    /\ loaded' = u8Interrupt
    /\ pc' = "store"
    /\ UNCHANGED <<chipVars, pinVars, u8Interrupt, rxVars, failed>>

\* mutant of HandleStores: it is cleared after the message
HandleStoresLate ==
    /\ pc = "store"
    /\ pc' = "isr"
    /\ UNCHANGED <<chipVars, pinVars, u8Interrupt, loaded, rxVars, failed>>

HandleStores ==
    /\ pc = "store"
    /\ u8Interrupt' = loaded - 1 /\ loaded' = 0
    /\ pc' = "isr"
    /\ UNCHANGED <<chipVars, pinVars, rxVars, failed>>

\* hif_isr, called until it succeeds.  With bit 0 clear it prints "False interrupt"
\* and is called again: no step of the model.
IsrSees ==
    /\ pc = "isr" /\ bit0
    /\ sense' = FALSE
    /\ pc' = "clear"
    /\ UNCHANGED <<chipVars, flag, registered, u8Interrupt, loaded, rxVars, failed>>

IsrClears ==
    /\ pc = "clear"
    /\ bit0' = FALSE
    /\ u8HifRXDone' = TRUE
    /\ pc' = "header"
    /\ UNCHANGED <<queue, slot, pinVars, u8Interrupt, loaded, then, msg, left, failed>>

\* Where the message is and its header; then the callback of its group.  m2m_wifi_cb
\* reads nothing of an operation it does not know.
IsrDispatches ==
    /\ pc = "header"
    /\ \/ /\ pc' = IF slot.op = "unknown" THEN "tail" ELSE "receive"
          /\ msg' = slot /\ left' = slot.parts
          /\ UNCHANGED <<sense, failed>>
       \/ /\ "header" \in Faults
          /\ sense' = TRUE /\ failed' = TRUE
          /\ pc' = "isr"
          /\ UNCHANGED <<msg, left>>
    /\ UNCHANGED <<chipVars, flag, registered, u8Interrupt, loaded, u8HifRXDone, then>>

\* mutant of SetRxDone: the sense stays off
SetRxDoneBlind(k) ==
    /\ u8HifRXDone' = FALSE
    /\ pc' = "rxdone" /\ then' = k
    /\ UNCHANGED sense

\* hif_set_rx_done up to its first read; it is called with what follows
SetRxDone(k) ==
    /\ u8HifRXDone' = FALSE
    /\ sense' = TRUE
    /\ pc' = "rxdone" /\ then' = k

\* The read of CTRL_0 and its write with bit 1.  Without it hif_receive fails, and
\* hif_isr, whose callback returns nothing, succeeds; when hif_isr itself called, it
\* fails.
RxDoneWritten ==
    /\ pc = "rxdone"
    /\ \/ /\ slot' = NoMessage
          /\ pc' = IF then = "isr" THEN "tail" ELSE then
          /\ UNCHANGED failed
       \/ /\ "rxdone" \in Faults
          /\ failed' = TRUE
          /\ pc' = IF then = "isr" THEN "isr" ELSE "tail"
          /\ UNCHANGED slot
    /\ then' = "tail"
    /\ UNCHANGED <<queue, bit0, pinVars, u8Interrupt, loaded, u8HifRXDone, msg, left>>

\* hif_receive of the next part: RX done after the last one, or when it is asked for
Receive(isDone) ==
    /\ pc = "receive"
    /\ \/ /\ left' = left - 1
          /\ \/ (left' = 0 \/ isDone) /\ SetRxDone("handle")
             \/ /\ left' # 0 /\ ~isDone
                /\ pc' = "handle"
                /\ UNCHANGED <<sense, u8HifRXDone, then>>
       \/ /\ "data" \in Faults
          /\ pc' = "tail"
          /\ UNCHANGED <<left, sense, u8HifRXDone, then>>
    /\ UNCHANGED <<chipVars, flag, registered, u8Interrupt, loaded, msg, failed>>

\* the end of hif_isr: RX done when no callback has asked for it
IsrEnds ==
    /\ pc = "tail"
    /\ \/ /\ u8HifRXDone
          /\ SetRxDone("isr")
          /\ UNCHANGED <<msg, left>>
       \/ /\ ~u8HifRXDone
          /\ pc' = "idle"
          /\ msg' = NoMessage /\ left' = 0
          /\ UNCHANGED <<sense, u8HifRXDone, then>>
    /\ UNCHANGED <<chipVars, flag, registered, u8Interrupt, loaded, failed>>

\* a callback's way on: to the end of hif_isr, to the next part, or to RX done
Goes(k) ==
    /\ pc = "handle"
    /\ \/ /\ k # "done"
          /\ pc' = k
          /\ UNCHANGED <<sense, u8HifRXDone, then>>
       \/ k = "done" /\ SetRxDone("tail")
    /\ UNCHANGED <<chipVars, flag, registered, u8Interrupt, loaded, msg, left, failed>>

-----------------------------------------------------------------------------
(* wifi_reinit.                                                               *)

\* the first call of wifi_init has it all before it, too
ReinitCalled ==
    /\ pc = "idle"
    /\ pc' = "deinit"
    /\ UNCHANGED <<chipVars, pinVars, u8Interrupt, loaded, rxVars, failed>>

\* hif_deinit: memset of gstrHifCxt
HifDeinit ==
    /\ pc = "deinit"
    /\ u8Interrupt' = 0 /\ u8HifRXDone' = FALSE
    /\ pc' = "reset"
    /\ UNCHANGED <<chipVars, pinVars, loaded, then, msg, left, failed>>

\* nm_bsp_init: the module is reset
ChipReset ==
    /\ pc = "reset" /\ registered
    /\ registered' = FALSE
    /\ queue' = <<>> /\ slot' = NoMessage /\ bit0' = FALSE
    /\ UNCHANGED <<flag, sense, u8Interrupt, loaded, rxVars, pc, failed>>

\* m2m_wifi_init: hif_init when nm_drv_init has started the module.  The module says
\* nothing until it is asked something.  An edge from before the reset, which takes
\* 130 ms, has been taken by then.
ChipStarts ==
    /\ pc = "reset" /\ ~registered /\ ~flag
    /\ \/ /\ u8Interrupt' = 0 /\ u8HifRXDone' = FALSE
          /\ registered' = TRUE /\ sense' = TRUE
          /\ failed' = FALSE
       \/ /\ "start" \in Faults
          /\ failed' = TRUE
          /\ UNCHANGED <<u8Interrupt, u8HifRXDone, registered, sense>>
    /\ pc' = "idle"
    /\ UNCHANGED <<chipVars, flag, loaded, then, msg, left>>

=============================================================================
