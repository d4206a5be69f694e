----------------------------- MODULE I2cMaster -----------------------------
(* The I2C master M/src/twi0.c and its callers                              *)
(* M/drivers/i2c_simple_master.c (M/cryptoauthlib/lib/hal/hal_i2c.c holds   *)
(* copies of two of them).  Main opens the bus, sets a buffer and callbacks,*)
(* starts the state machine and polls I2C_0_close; the TWI interrupt routine*)
(* moves the bytes.                                                         *)
(*                                                                          *)
(* TWI0.MSTATUS is cleared flag by flag by writing ones (twi0.c:443 uses it *)
(* so).  MSTATUS |= f therefore clears f and every other flag that is set.  *)
EXTENDS Integers, Sequences

CONSTANTS
    MaxLen,     \* bound: length of a caller's buffer
    Faults      \* the bus faults that occur

SizeMod == 65536    \* size_t has 16 bits

ASSUME I2cAssumption ==
    /\ MaxLen \in 1 .. SizeMod - 1
    /\ Faults \subseteq {"ARBLOST", "BUSERR"}

(* What a caller asks for: a register's number first or not, the direction  *)
(* of the data, i2c_cb_restart_write as address-NACK callback or the        *)
(* default, the length of the data.                                         *)
Job ==
    {j \in [reg : BOOLEAN, read : BOOLEAN, poll : BOOLEAN, len : 1 .. MaxLen] :
        /\ j.reg => j.poll                              \* i2c_*Register, readDataBlock
        /\ ~j.reg /\ j.read => ~j.poll                  \* i2c_readNBytes
        /\ ~j.reg /\ ~j.read /\ ~j.poll => j.len = 1}   \* I2C_0_wake_up

PlanLen(j) == IF j.reg THEN j.len + 1 ELSE j.len

\* the bytes that are to pass, "reg", or "out" and "in" for those of the data
Plan(j) ==
    [i \in 1 .. PlanLen(j) |->
        IF j.reg /\ i = 1 THEN "reg" ELSE IF j.read THEN "in" ELSE "out"]

VARIABLES
    pc,                 \* where main is: "idle", "open", or in I2C_0_close
    loaded,             \* the bits of I2C_0_status close has in a register
    job,                \* the call main is in, or its last one
    tries,              \* x of i2c_read1ByteRegister
    busy, inUse, bufferFree, addressNACKCheck, state, error,   \* I2C_0_status
    data_ptr,           \* its buffer: "reg" or "data"
    data_length,        \* its rest
    swaps,              \* dataComplete callback: a *CompleteHandler, or the default
    restarts,           \* addressNACK callback: i2c_cb_restart_write, or the default
    ien,                \* RIEN and WIEN of TWI0.MCTRLA
    flags,              \* the flags set in TWI0.MSTATUS; "IF" is RIF or WIF
    rxack,              \* RXACK: the device did not acknowledge
    bus,                \* what the module does: "held" waits for a command,
                        \* "lost" no longer owns the bus
    done,               \* ghost: the bytes that have passed in this transfer
    refused, failed     \* ghosts: a NACK, a bus fault in this transfer

callVars   == <<loaded, job, tries>>
bufVars    == <<bufferFree, data_ptr, data_length>>
statusVars == <<busy, inUse, bufVars, addressNACKCheck, state, error, swaps, restarts>>
twiVars    == <<ien, flags, rxack, bus>>
ghosts     == <<done, refused, failed>>
vars == <<pc, callVars, statusVars, twiVars, ghosts>>

Bits == [bufferFree : BOOLEAN, addressNACKCheck : BOOLEAN]
State == {"IDLE", "RESET", "TX", "RX", "TX_EMPTY"}

Init ==
    /\ pc = "idle" /\ tries = 0
    /\ loaded = [bufferFree |-> FALSE, addressNACKCheck |-> FALSE]
    /\ job \in Job                \* none yet: as if it had been answered
    /\ busy = FALSE /\ inUse = FALSE /\ bufferFree = FALSE
    /\ addressNACKCheck = FALSE /\ state = "IDLE" /\ error = "NOERR"
    /\ data_ptr = "data" /\ data_length = 0 /\ swaps = FALSE /\ restarts = FALSE
    /\ ien = TRUE /\ flags = {} /\ rxack = FALSE /\ bus = "quiet"
    /\ done = Plan(job) /\ refused = FALSE /\ failed = FALSE

-----------------------------------------------------------------------------
(* The state handlers.  Each sets what it changes of the state machine and   *)
(* of the bus; CallBuffer and the rest are left to the routine.              *)

\* A command to the module; it is lost on a bus the module does not own.
Command(c) == bus' = c \/ (bus = "lost" /\ bus' = "lost")

SendAdrRead ==
    /\ addressNACKCheck' = TRUE /\ state' = "RX" /\ Command("addressRead")

SendAdrWrite ==
    /\ addressNACKCheck' = TRUE /\ state' = "TX" /\ Command("addressWrite")

\* mutant of SendStop: no stop on the bus
SendStopUnsent == bus' = bus /\ busy' = FALSE /\ error' = "NOERR" /\ state' = "IDLE"

\* mutant of SendStop: busy is left
SendStopBusy == bus' = "quiet" /\ error' = "NOERR" /\ state' = "IDLE" /\ UNCHANGED busy

\* I2C_0_do_I2C_SEND_STOP and DO_NACK_STOP: both end in IDLE
SendStop ==
    /\ bus' = "quiet"
    /\ busy' = FALSE /\ error' = "NOERR" /\ state' = "IDLE"

\* mutant of SendByte: the last byte is not sent
SendByteFewer(ptr, length) ==
    /\ addressNACKCheck' = FALSE
    /\ Command("out")
    /\ done' = Append(done, IF ptr = "reg" THEN "reg" ELSE "out")
    /\ data_ptr' = ptr /\ data_length' = (length - 1) % SizeMod
    /\ state' = IF data_length' > 1 THEN "TX" ELSE "TX_EMPTY"

\* *data_ptr++ to the bus
SendByte(ptr, length) ==
    /\ addressNACKCheck' = FALSE
    /\ Command("out")
    /\ done' = Append(done, IF ptr = "reg" THEN "reg" ELSE "out")
    /\ data_ptr' = ptr /\ data_length' = (length - 1) % SizeMod
    /\ state' = IF data_length' # 0 THEN "TX" ELSE "TX_EMPTY"

\* nobody sets a data-NACK callback: the default one stops
DataNack ==
    /\ rxack
    /\ SendStop
    /\ UNCHANGED <<bufVars, addressNACKCheck, swaps, done>>

DoTx ==
    \/ DataNack
    \/ /\ ~rxack
       /\ SendByte(data_ptr, data_length)
       /\ UNCHANGED <<busy, error, bufferFree, swaps>>

\* mutant of DoTxEmpty: the handler leaves itself as callback
DoTxEmptyAgain ==
    \/ DataNack
    \/ /\ ~rxack /\ ~swaps
       /\ bufferFree' = TRUE
       /\ SendStop
       /\ UNCHANGED <<data_ptr, data_length, addressNACKCheck, swaps, done>>
    \/ /\ ~rxack /\ swaps
       /\ bufferFree' = FALSE /\ UNCHANGED swaps
       /\ IF job.read
          THEN /\ data_ptr' = "data" /\ data_length' = job.len
               /\ SendAdrRead
               /\ UNCHANGED done
          ELSE SendByte("data", job.len)
       /\ UNCHANGED <<busy, error>>

\* The buffer is free; a *CompleteHandler sets the data for it and goes on with
\* a restart or with the next byte.
DoTxEmpty ==
    \/ DataNack
    \/ /\ ~rxack /\ ~swaps
       /\ bufferFree' = TRUE
       /\ SendStop
       /\ UNCHANGED <<data_ptr, data_length, addressNACKCheck, swaps, done>>
    \/ /\ ~rxack /\ swaps
       /\ bufferFree' = FALSE /\ swaps' = FALSE
       /\ IF job.read
          THEN /\ data_ptr' = "data" /\ data_length' = job.len
               /\ SendAdrRead
               /\ UNCHANGED done
          ELSE SendByte("data", job.len)
       /\ UNCHANGED <<busy, error>>

DoRx ==
    /\ addressNACKCheck' = FALSE
    /\ done' = Append(done, "in")
    /\ data_length' = (data_length - 1) % SizeMod
    /\ \/ /\ data_length' # 0
          /\ state' = "RX" /\ Command("in")
          /\ UNCHANGED <<busy, error, bufferFree>>
       \/ /\ data_length' = 0
          /\ bufferFree' = TRUE
          /\ SendStop
    /\ UNCHANGED <<data_ptr, swaps>>

\* the error set first is overwritten by SendStop
DoAddressNack ==
    /\ \/ /\ restarts
          /\ error' = "FAIL"
          /\ SendAdrWrite
          /\ UNCHANGED busy
       \/ /\ ~restarts
          /\ addressNACKCheck' = FALSE
          /\ SendStop
    /\ UNCHANGED <<bufVars, swaps, done>>

\* BUS_COLLISION (its callback is the default) and BUS_ERROR park on RESET; the
\* former calls the handler of RESET, which overwrites the error.
DoFault(f) ==
    /\ bus' = "quiet"
    /\ busy' = FALSE /\ state' = "RESET"
    /\ error' = IF f = "BUSERR" THEN "FAIL" ELSE "NOERR"
    /\ UNCHANGED <<bufVars, addressNACKCheck, swaps, done>>

-----------------------------------------------------------------------------
(* The interrupt routine.  Clearing RIF and WIF clears all flags, so that it  *)
(* only sees a fault that arises after that.  The handlers of IDLE and RESET   *)
(* are left out: Parked shows that they are never called.                     *)

Isr ==
    /\ ien /\ "IF" \in flags
    /\ flags' = {}
    /\ \/ /\ \E f \in Faults : DoFault(f)
          /\ failed' = TRUE
       \/ /\ addressNACKCheck /\ rxack
          /\ DoAddressNack
          /\ UNCHANGED failed
       \/ /\ ~(addressNACKCheck /\ rxack)
          /\ \/ state = "TX" /\ DoTx
             \/ state = "TX_EMPTY" /\ DoTxEmpty
             \/ state = "RX" /\ DoRx
          /\ UNCHANGED failed
    /\ UNCHANGED <<pc, callVars, inUse, restarts, ien, rxack, refused>>

-----------------------------------------------------------------------------
(* Main.                                                                      *)

Call(j) ==
    /\ pc = "idle"
    /\ pc' = "open" /\ job' = j
    /\ tries' = IF j.reg /\ j.read /\ j.len = 1 THEN 2 ELSE 1
    /\ UNCHANGED <<loaded, statusVars, twiVars, ghosts>>

\* while(!I2C_0_open()): the first call takes the bus and returns I2C_NOERR, which
\* is 0; the second returns I2C_BUSY and ends the loop.  Then the callbacks, the
\* buffer and I2C_0_master_operation, which calls the routine for the address; the
\* address takes longer on the bus than the stores up to here.
Begin ==
    /\ pc = "open" /\ ~inUse
    /\ pc' = "poll"
    /\ inUse' = TRUE /\ busy' = TRUE /\ bufferFree' = FALSE
    /\ addressNACKCheck' = TRUE
    /\ swaps' = job.reg /\ restarts' = job.poll
    /\ data_ptr' = IF job.reg THEN "reg" ELSE "data"
    /\ data_length' = IF job.reg THEN 1 ELSE job.len
    /\ ien' = TRUE /\ flags' = {}
    /\ IF job.read /\ ~job.reg
       THEN state' = "RX" /\ bus' = "addressRead"
       ELSE state' = "TX" /\ bus' = "addressWrite"
    /\ done' = <<>> /\ refused' = FALSE /\ failed' = FALSE
    /\ UNCHANGED <<callVars, error, rxack>>

\* I2C_0_close, called until it does not return I2C_BUSY.  busy and inUse share a
\* byte with bits of the routine's: main loads it, changes its bit and stores it, and
\* what the routine changed in between is undone.
Load == loaded' = [bufferFree |-> bufferFree, addressNACKCheck |-> addressNACKCheck]

Store ==
    /\ busy' = FALSE
    /\ bufferFree' = loaded.bufferFree
    /\ addressNACKCheck' = loaded.addressNACKCheck

CloseReads ==
    /\ pc = "poll"
    /\ \/ "BUSERR" \in flags /\ pc' = "fail" /\ Load
       \/ "BUSERR" \notin flags /\ pc' = "test" /\ UNCHANGED loaded
    /\ UNCHANGED <<job, tries, statusVars, twiVars, ghosts>>

\* The compiler may go on with the byte that was loaded.
CloseFails ==
    /\ pc = "fail"
    /\ Store
    /\ error' = "FAIL"
    /\ pc' \in {"test", "free"}
    /\ UNCHANGED <<callVars, inUse, data_ptr, data_length, state, swaps, restarts,
                   twiVars, ghosts>>

CloseTests ==
    /\ pc = "test"
    /\ \/ busy /\ pc' = "poll" /\ UNCHANGED loaded
       \/ ~busy /\ pc' = "free" /\ Load
    /\ UNCHANGED <<job, tries, statusVars, twiVars, ghosts>>

CloseFrees ==
    /\ pc = "free"
    /\ Store
    /\ inUse' = FALSE /\ flags' = {}
    /\ pc' = "disable"
    /\ UNCHANGED <<callVars, data_ptr, data_length, state, error, swaps, restarts,
                   ien, rxack, bus, ghosts>>

\* mutant of CloseReturns: the interrupts stay enabled
CloseReturnsEnabled ==
    /\ pc = "disable"
    /\ \/ /\ error # "NOERR" /\ tries > 1
          /\ pc' = "open" /\ tries' = tries - 1
       \/ /\ error = "NOERR" \/ tries = 1
          /\ pc' = "idle" /\ UNCHANGED tries
    /\ UNCHANGED <<loaded, job, statusVars, twiVars, ghosts>>

\* MCTRLA &= ~(RIEN | WIEN), and close returns the error; i2c_read1ByteRegister
\* tries once more unless it is I2C_NOERR.
CloseReturns ==
    /\ pc = "disable"
    /\ ien' = FALSE
    /\ \/ /\ error # "NOERR" /\ tries > 1
          /\ pc' = "open" /\ tries' = tries - 1
       \/ /\ error = "NOERR" \/ tries = 1
          /\ pc' = "idle" /\ UNCHANGED tries
    /\ UNCHANGED <<loaded, job, statusVars, flags, rxack, bus, ghosts>>

-----------------------------------------------------------------------------
(* The TWI module, the device and the wires.                                  *)

\* What main has left to do when it has seen that the transfer is over, a few
\* instructions, is shorter than anything on the bus.
Closing == pc \in {"fail", "free", "disable"} \/ (pc = "test" /\ ~busy)

Interrupt == flags' = flags \cup {"IF"}

\* A read goes on with its first byte when the address is acknowledged.
AddressAcked ==
    /\ ~Closing
    /\ bus \in {"addressWrite", "addressRead"}
    /\ rxack' = FALSE
    /\ \/ bus = "addressWrite" /\ bus' = "held" /\ Interrupt
       \/ bus = "addressRead" /\ bus' = "in" /\ UNCHANGED flags
    /\ UNCHANGED <<pc, callVars, statusVars, ien, ghosts>>

AddressNacked ==
    /\ ~Closing
    /\ bus \in {"addressWrite", "addressRead"}
    /\ rxack' = TRUE /\ bus' = "held" /\ Interrupt /\ refused' = TRUE
    /\ UNCHANGED <<pc, callVars, statusVars, ien, done, failed>>

ByteOut(nack) ==
    /\ ~Closing
    /\ bus = "out"
    /\ rxack' = nack /\ bus' = "held" /\ Interrupt
    /\ refused' = (refused \/ nack)
    /\ UNCHANGED <<pc, callVars, statusVars, ien, done, failed>>

ByteIn ==
    /\ ~Closing
    /\ bus = "in"
    /\ bus' = "held" /\ Interrupt
    /\ UNCHANGED <<pc, callVars, statusVars, ien, rxack, ghosts>>

\* A start or stop out of place, or another master's data
BusFault(f) ==
    /\ ~Closing
    /\ bus \notin {"quiet", "lost"}
    /\ flags' = flags \cup {"IF", f} /\ bus' = "lost"
    /\ rxack' \in BOOLEAN /\ failed' = TRUE
    /\ UNCHANGED <<pc, callVars, statusVars, ien, done, refused>>

MainStep ==
    Begin \/ CloseReads \/ CloseFails \/ CloseTests \/ CloseFrees \/ CloseReturns

ByteEnds == ByteIn \/ \E nack \in BOOLEAN : ByteOut(nack)

Next ==
    \/ MainStep
    \/ \E j \in Job : Call(j)
    \/ Isr
    \/ AddressAcked \/ AddressNacked \/ ByteEnds
    \/ \E f \in Faults : BusFault(f)

Spec == Init /\ [][Next]_vars

\* Main goes on, the routine runs, a byte or an address takes a bounded time on the
\* bus, and a device that is addressed again and again answers in the end.
Fairness ==
    /\ WF_vars(MainStep) /\ WF_vars(Isr) /\ WF_vars(ByteEnds)
    /\ WF_vars(AddressAcked \/ AddressNacked) /\ SF_vars(AddressAcked)

FairSpec == Spec /\ Fairness

-----------------------------------------------------------------------------
(* Properties.                                                                *)

MainType ==
    /\ pc \in {"idle", "open", "poll", "fail", "test", "free", "disable"}
    /\ job \in Job /\ tries \in 0 .. 2 /\ loaded \in Bits

StatusType ==
    /\ busy \in BOOLEAN /\ inUse \in BOOLEAN /\ bufferFree \in BOOLEAN
    /\ addressNACKCheck \in BOOLEAN /\ state \in State
    /\ error \in {"NOERR", "FAIL"}
    /\ data_ptr \in {"reg", "data"} /\ data_length \in 0 .. MaxLen
    /\ swaps \in BOOLEAN /\ restarts \in BOOLEAN

TwiType ==
    /\ ien \in BOOLEAN /\ flags \subseteq Faults \cup {"IF"} /\ rxack \in BOOLEAN
    /\ bus \in {"quiet", "held", "lost", "addressWrite", "addressRead", "out", "in"}
    /\ done \in Seq({"reg", "out", "in"})
    /\ refused \in BOOLEAN /\ failed \in BOOLEAN

TypeOK == MainType /\ StatusType /\ TwiType

\* The routine moves no byte beyond the buffer it was given, whatever restarts the
\* callbacks ask for: data_ptr and data_length always belong together.
InBounds ==
    /\ state \in {"TX", "RX"} => data_length > 0
    /\ pc # "open" => Len(done) + data_length =
                         IF data_ptr = "reg" THEN 1 ELSE PlanLen(job)

\* The buffers are on the stack of the call: no byte moves once it has returned,
\* although close may return in the middle of a transfer that a bus error broke.
StackSafe == [][Len(done') > Len(done) => pc \notin {"idle", "open"}]_vars

\* The routine is never called with the state machine parked.
Parked == "IF" \in flags => state \notin {"IDLE", "RESET"}

\* A call that returned without error has left the bus to others.
BusReleased ==
    pc \in {"idle", "open"} /\ error = "NOERR" =>
        bus = "quiet" /\ state \in {"IDLE", "RESET"}

\* A call that met no NACK and no fault has moved what it was asked to move: the
\* register's number, then, with a restart or without, the data.
Whole ==
    pc = "idle" /\ ~refused /\ ~failed => error = "NOERR" /\ done = Plan(job)

\* "I2C_NOERR, // The message was sent." (i2c_types.h:30).  The code violates it: a stop
\* overwrites the error of the NACK before it.
NoErrSent == pc = "idle" /\ error = "NOERR" => done = Plan(job)

\* Every call returns, unless a bus fault meets it, if the device answers some time.
Returns == pc = "open" ~> (pc = "idle" \/ failed)

=============================================================================
