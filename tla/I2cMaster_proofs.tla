-------------------------- MODULE I2cMaster_proofs --------------------------
(* Proofs about I2cMaster, for buffers of any length and any set of faults. *)
EXTENDS I2cMaster, TLAPS

Idle == pc \in {"idle", "open"}

\* The bus is quiet exactly when the state machine is parked, and then no flag is set.
BusInv ==
    /\ bus = "quiet" <=> state \in {"IDLE", "RESET"}
    /\ flags # {} => bus # "quiet"

\* Between calls the routine cannot run; busy is over in time.
MainInv ==
    /\ Idle => ~ien \/ bus = "quiet"
    /\ Idle \/ pc \in {"free", "disable"} => ~busy
    /\ ~busy => bus = "quiet" \/ (failed /\ error = "FAIL")
    /\ pc = "fail" => failed

\* The buffer: which one it is, and what a restart finds in it.  The bit a stale
\* store sets again is not looked at any more.
BufferInv ==
    /\ state = "TX_EMPTY" => data_length = 0
    /\ data_ptr = "reg" <=> swaps
    /\ pc # "open" =>
         /\ swaps => job.reg
         /\ state = "RX" => data_ptr = "data" /\ job.read
         /\ data_ptr = "data" => data_length <= job.len
    /\ state = "TX_EMPTY" /\ (addressNACKCheck \/ (pc \in {"fail", "free"} /\ loaded.addressNACKCheck))
         => Idle \/ (Closing /\ flags = {})

\* What the ghosts know of a NACK or a fault
GhostInv ==
    /\ rxack /\ ("IF" \in flags \/ bus = "in") => refused \/ failed
    /\ "BUSERR" \in flags => failed
    /\ bus = "lost" => failed

\* A transfer without NACK and fault follows the plan.
PlanInv ==
    ~refused /\ ~failed /\ pc # "open" =>
        /\ \A i \in 1 .. Len(done) : i <= PlanLen(job) /\ done[i] = Plan(job)[i]
        /\ state \in {"TX", "TX_EMPTY"} /\ data_ptr = "data" => ~job.read
        /\ state \in {"IDLE", "RESET"} => error = "NOERR" /\ Len(done) = PlanLen(job)

IInv == TypeOK /\ InBounds /\ BusInv /\ MainInv /\ BufferInv /\ GhostInv /\ PlanInv

-----------------------------------------------------------------------------
(* Lemmas                                                                     *)

LEMMA MaxLenNat == MaxLen \in Nat
  BY I2cAssumption, SMT DEF SizeMod

\* A length that is not zero does not wrap.
LEMMA Wrap == \A n \in 1 .. MaxLen : (n - 1) % SizeMod = n - 1 /\ n - 1 \in 0 .. MaxLen
  BY I2cAssumption, SMT DEF SizeMod

\* What a job is.
LEMMA JobType ==
  \A j \in Job : /\ j.reg \in BOOLEAN /\ j.read \in BOOLEAN /\ j.poll \in BOOLEAN
                 /\ j.len \in 1 .. MaxLen /\ PlanLen(j) \in 1 .. MaxLen + 1
                 /\ PlanLen(j) = IF j.reg THEN j.len + 1 ELSE j.len
<1> TAKE j \in Job
<1>1. /\ j.reg \in BOOLEAN /\ j.read \in BOOLEAN /\ j.poll \in BOOLEAN
      /\ j.len \in 1 .. MaxLen
  BY DEF Job
<1>2. PlanLen(j) = IF j.reg THEN j.len + 1 ELSE j.len
  BY DEF PlanLen
<1>3. PlanLen(j) \in 1 .. MaxLen + 1
  BY <1>1, <1>2, MaxLenNat, SMT
<1> QED
  BY <1>1, <1>2, <1>3

\* One byte more on the list of those that have passed
LEMMA OneMore ==
  ASSUME NEW S, NEW s \in Seq(S), NEW e \in S
  PROVE  /\ Append(s, e) \in Seq(S)
         /\ Len(Append(s, e)) = Len(s) + 1
         /\ Len(s) \in Nat
         /\ Append(s, e)[Len(s) + 1] = e
         /\ \A i \in 1 .. Len(s) : Append(s, e)[i] = s[i]
  OBVIOUS

\* The initial states satisfy the inductive invariant.
LEMMA InitInv == Init => IInv
<1> SUFFICES ASSUME Init PROVE IInv
  OBVIOUS
<1>1. PlanLen(job) \in 1 .. MaxLen + 1 /\ job \in Job
  BY JobType, SMT DEF Init
<1>2. /\ Len(done) = PlanLen(job)
      /\ done \in Seq({"reg", "out", "in"})
      /\ \A i \in 1 .. Len(done) : i <= PlanLen(job) /\ done[i] = Plan(job)[i]
  <2>1. done = Plan(job) /\ PlanLen(job) \in Nat
    BY <1>1, MaxLenNat, SMT DEF Init
  <2>2. /\ Plan(job) \in [1 .. PlanLen(job) -> {"reg", "out", "in"}]
    BY <1>1, SMT DEF Plan
  <2>3. Plan(job) \in Seq({"reg", "out", "in"}) /\ Len(Plan(job)) = PlanLen(job)
    BY <2>1, <2>2, SMT
  <2> QED
    BY <2>1, <2>3, SMT
<1>3. TypeOK
  <2>1. loaded \in Bits /\ state \in State /\ data_length \in 0 .. MaxLen
    BY MaxLenNat, SMT DEF Init, Bits, State
  <2> /\ busy \in BOOLEAN /\ inUse \in BOOLEAN /\ bufferFree \in BOOLEAN
      /\ addressNACKCheck \in BOOLEAN /\ ien \in BOOLEAN /\ rxack \in BOOLEAN
      /\ refused \in BOOLEAN /\ failed \in BOOLEAN
      /\ swaps \in BOOLEAN /\ restarts \in BOOLEAN
    BY Zenon DEF Init
  <2>2. MainType /\ StatusType
    BY <1>1, <2>1, SMT DEF Init, MainType, StatusType
  <2>3. TwiType
    BY <1>2, SMT DEF Init, TwiType
  <2> QED
    BY <2>2, <2>3 DEF TypeOK
<1>4. InBounds /\ BusInv /\ MainInv /\ GhostInv /\ PlanInv
  BY <1>2, SMT DEF Init, InBounds, BusInv, MainInv, Idle, GhostInv, PlanInv
<1>5. BufferInv
  BY <1>1, JobType, SMT DEF Init, BufferInv, Idle
<1> QED
  BY <1>3, <1>4, <1>5 DEF IInv

-----------------------------------------------------------------------------
(* Main's steps                                                               *)

LEMMA CallInv == ASSUME IInv, NEW j \in Job, Call(j) PROVE IInv'
<1> USE DEF Call, callVars, bufVars, statusVars, twiVars, ghosts
<1>1. TypeOK'
  <2>1. MainType'
    BY SMT DEF IInv, TypeOK, MainType
  <2>2. StatusType' /\ TwiType'
    BY SMT DEF IInv, TypeOK, StatusType, TwiType
  <2> QED
    BY <2>1, <2>2 DEF TypeOK
<1>2. InBounds' /\ BusInv' /\ GhostInv' /\ PlanInv'
  BY SMT DEF IInv, InBounds, BusInv, GhostInv, PlanInv
<1>3. MainInv' /\ BufferInv'
  BY SMT DEF IInv, TypeOK, StatusType, TwiType, MainInv, BufferInv, Idle, Closing
<1> QED
  BY <1>1, <1>2, <1>3 DEF IInv

LEMMA BeginInv == ASSUME IInv, Begin PROVE IInv'
<1> USE DEF Begin, callVars
<1>1. /\ job \in Job /\ job' = job /\ job.len \in 1 .. MaxLen /\ job.reg \in BOOLEAN
      /\ job.read \in BOOLEAN
      /\ PlanLen(job) = IF job.reg THEN job.len + 1 ELSE job.len
  BY JobType, SMT DEF IInv, TypeOK, MainType
<1>2. TypeOK'
  <2>1. <<>> \in Seq({"reg", "out", "in"}) /\ job.poll \in BOOLEAN
    BY <1>1, JobType, SMT
  <2>2. data_length' \in 0 .. MaxLen /\ data_ptr' \in {"reg", "data"}
    BY <1>1, MaxLenNat, SMT
  <2>3. state' \in State /\ bus' \in {"addressRead", "addressWrite"}
    BY SMT DEF State
  <2>4. TypeOK
    BY DEF IInv
  <2> /\ busy' \in BOOLEAN /\ inUse' \in BOOLEAN /\ bufferFree' \in BOOLEAN
      /\ addressNACKCheck' \in BOOLEAN /\ ien' \in BOOLEAN
      /\ refused' \in BOOLEAN /\ failed' \in BOOLEAN
    BY Zenon
  <2> swaps' \in BOOLEAN /\ restarts' \in BOOLEAN
    BY <1>1, <2>1, Zenon
  <2>5. MainType' /\ StatusType'
    BY <1>1, <2>1, <2>2, <2>3, <2>4, SMT DEF TypeOK, MainType, StatusType
  <2>6. TwiType'
    BY <2>1, <2>3, <2>4, SMT DEF TypeOK, TwiType
  <2> QED
    BY <2>5, <2>6 DEF TypeOK
<1>3. InBounds'
  BY <1>1, SMT DEF InBounds, PlanLen
<1>4. BusInv' /\ MainInv' /\ GhostInv'
  BY SMT DEF BusInv, MainInv, Idle, GhostInv
<1>5. BufferInv'
  BY <1>1, SMT DEF BufferInv, Idle, Closing
<1>6. PlanInv'
  BY <1>1, SMT DEF PlanInv
<1> QED
  BY <1>2, <1>3, <1>4, <1>5, <1>6 DEF IInv

LEMMA CloseReadsInv == ASSUME IInv, CloseReads PROVE IInv'
<1> USE DEF CloseReads, Load, bufVars, statusVars, twiVars, ghosts
<1>1. TypeOK'
  <2>1. pc' \in {"fail", "test"} /\ loaded' \in Bits
    BY SMT DEF IInv, TypeOK, MainType, StatusType, Bits
  <2>2. MainType'
    BY <2>1, SMT DEF IInv, TypeOK, MainType
  <2>3. StatusType'
    BY <2>1, SMT DEF IInv, TypeOK, StatusType
  <2>4. TwiType'
    BY SMT DEF IInv, TypeOK, TwiType
  <2> QED
    BY <2>2, <2>3, <2>4 DEF TypeOK
<1>2. InBounds' /\ BusInv' /\ GhostInv' /\ PlanInv'
  BY SMT DEF IInv, InBounds, BusInv, GhostInv, PlanInv
<1>3. MainInv'
  BY SMT DEF IInv, MainInv, Idle, GhostInv
<1>4. BufferInv'
  BY SMT DEF IInv, BufferInv, Idle, Closing
<1> QED
  BY <1>1, <1>2, <1>3, <1>4 DEF IInv

LEMMA CloseFailsInv == ASSUME IInv, CloseFails PROVE IInv'
<1> USE DEF CloseFails, Store, callVars, twiVars, ghosts
<1>1. TypeOK'
  <2>1. pc' \in {"test", "free"} /\ bufferFree' \in BOOLEAN /\ addressNACKCheck' \in BOOLEAN
    BY SMT DEF IInv, TypeOK, MainType, StatusType, Bits
  <2>2. MainType'
    BY <2>1, SMT DEF IInv, TypeOK, MainType
  <2> busy' \in BOOLEAN
    BY Zenon
  <2>3. StatusType'
    BY <2>1, SMT DEF IInv, TypeOK, StatusType
  <2>4. TwiType'
    BY SMT DEF IInv, TypeOK, TwiType
  <2> QED
    BY <2>2, <2>3, <2>4 DEF TypeOK
<1>2. InBounds' /\ BusInv' /\ GhostInv'
  BY SMT DEF IInv, InBounds, BusInv, GhostInv
<1>3. MainInv' /\ PlanInv'
  BY SMT DEF IInv, MainInv, Idle, PlanInv
<1>4. BufferInv'
  BY SMT DEF IInv, BufferInv, Idle, Closing
<1> QED
  BY <1>1, <1>2, <1>3, <1>4 DEF IInv

LEMMA CloseTestsInv == ASSUME IInv, CloseTests PROVE IInv'
<1> USE DEF CloseTests, Load, bufVars, statusVars, twiVars, ghosts
<1>1. TypeOK'
  <2>1. pc' \in {"poll", "free"} /\ loaded' \in Bits
    BY SMT DEF IInv, TypeOK, MainType, StatusType, Bits
  <2>2. MainType'
    BY <2>1, SMT DEF IInv, TypeOK, MainType
  <2>3. StatusType'
    BY <2>1, SMT DEF IInv, TypeOK, StatusType
  <2>4. TwiType'
    BY SMT DEF IInv, TypeOK, TwiType
  <2> QED
    BY <2>2, <2>3, <2>4 DEF TypeOK
<1>2. InBounds' /\ BusInv' /\ GhostInv' /\ PlanInv'
  BY SMT DEF IInv, InBounds, BusInv, GhostInv, PlanInv
<1>3. MainInv'
  BY SMT DEF IInv, MainInv, Idle
<1>4. BufferInv'
  BY SMT DEF IInv, BufferInv, Idle, Closing
<1> QED
  BY <1>1, <1>2, <1>3, <1>4 DEF IInv

LEMMA CloseFreesInv == ASSUME IInv, CloseFrees PROVE IInv'
<1> USE DEF CloseFrees, Store, callVars, ghosts
<1>1. TypeOK'
  <2>1. bufferFree' \in BOOLEAN /\ addressNACKCheck' \in BOOLEAN
    BY SMT DEF IInv, TypeOK, MainType, StatusType, Bits
  <2>2. MainType'
    BY <2>1, SMT DEF IInv, TypeOK, MainType
  <2> busy' \in BOOLEAN /\ inUse' \in BOOLEAN
    BY Zenon
  <2>3. StatusType'
    BY <2>1, SMT DEF IInv, TypeOK, StatusType
  <2>4. TwiType'
    BY SMT DEF IInv, TypeOK, TwiType
  <2> QED
    BY <2>2, <2>3, <2>4 DEF TypeOK
<1>2. InBounds' /\ BusInv' /\ PlanInv'
  BY SMT DEF IInv, InBounds, BusInv, PlanInv
<1>3. MainInv' /\ GhostInv'
  BY SMT DEF IInv, MainInv, Idle, GhostInv
<1>4. BufferInv'
  BY SMT DEF IInv, BufferInv, Idle, Closing
<1> QED
  BY <1>1, <1>2, <1>3, <1>4 DEF IInv

LEMMA CloseReturnsInv == ASSUME IInv, CloseReturns PROVE IInv'
<1> USE DEF CloseReturns, bufVars, statusVars, ghosts
<1>1. TypeOK'
  <2>1. pc' \in {"idle", "open"} /\ tries' \in 0 .. 2
    BY SMT DEF IInv, TypeOK, MainType
  <2>2. MainType'
    BY <2>1, SMT DEF IInv, TypeOK, MainType
  <2>3. StatusType'
    BY <2>1, SMT DEF IInv, TypeOK, StatusType
  <2> ien' \in BOOLEAN
    BY Zenon
  <2>4. TwiType'
    BY SMT DEF IInv, TypeOK, TwiType
  <2> QED
    BY <2>2, <2>3, <2>4 DEF TypeOK
<1>2. InBounds' /\ BusInv' /\ GhostInv' /\ PlanInv'
  BY SMT DEF IInv, InBounds, BusInv, GhostInv, PlanInv
<1>3. MainInv'
  BY SMT DEF IInv, MainInv, Idle
<1>4. BufferInv'
  BY SMT DEF IInv, BufferInv, Idle, Closing
<1> QED
  BY <1>1, <1>2, <1>3, <1>4 DEF IInv

-----------------------------------------------------------------------------
(* The interrupt routine                                                      *)

\* What every run of it does
IsrFrame ==
    /\ ien /\ "IF" \in flags
    /\ flags' = {}
    /\ UNCHANGED <<pc, callVars, inUse, restarts, ien, rxack, refused>>

\* It runs in a call only, and with the state machine at work.
LEMMA IsrFacts ==
  ASSUME IInv, IsrFrame
  PROVE  /\ ~Idle /\ pc # "open" /\ bus # "quiet" /\ state \in {"TX", "RX", "TX_EMPTY"}
         /\ busy \/ (failed /\ error = "FAIL")
         /\ rxack => refused \/ failed
         /\ job \in Job /\ job.len \in 1 .. MaxLen /\ job.reg \in BOOLEAN
         /\ job.read \in BOOLEAN /\ PlanLen(job) \in 1 .. MaxLen + 1
         /\ PlanLen(job) = IF job.reg THEN job.len + 1 ELSE job.len
<1>1. ~Idle /\ pc # "open" /\ bus # "quiet" /\ (busy \/ (failed /\ error = "FAIL"))
  BY Zenon DEF IInv, IsrFrame, BusInv, MainInv, Idle
<1>2. state \in {"TX", "RX", "TX_EMPTY"} /\ job \in Job
  BY <1>1, SMT DEF IInv, BusInv, TypeOK, StatusType, MainType, State
<1>3. rxack => refused \/ failed
  BY Zenon DEF IInv, IsrFrame, GhostInv
<1> QED
  BY <1>1, <1>2, <1>3, JobType, Zenon

\* A handler that ends the transfer with a stop
LEMMA StopInv ==
  ASSUME IInv, IsrFrame, SendStop, failed' = failed, UNCHANGED <<data_ptr, swaps>>,
         bufferFree' \in BOOLEAN, addressNACKCheck' \in BOOLEAN,
         data_length' \in 0 .. MaxLen, data_length' <= data_length,
         done' \in Seq({"reg", "out", "in"}),
         Len(done') + data_length' = IF data_ptr = "reg" THEN 1 ELSE PlanLen(job),
         ~refused /\ ~failed =>
            /\ Len(done') = PlanLen(job)
            /\ \A i \in 1 .. Len(done') : i <= PlanLen(job) /\ done'[i] = Plan(job)[i]
  PROVE  IInv'
<1> USE DEF IsrFrame, SendStop, callVars
<1>1. TypeOK'
  <2> busy' \in BOOLEAN
    BY Zenon
  <2>1. MainType'
    BY SMT DEF IInv, TypeOK, MainType
  <2>2. StatusType'
    BY SMT DEF IInv, TypeOK, StatusType, State
  <2>3. TwiType'
    BY SMT DEF IInv, TypeOK, TwiType
  <2> QED
    BY <2>1, <2>2, <2>3 DEF TypeOK
<1>2. InBounds'
  BY SMT DEF InBounds, PlanLen
<1>3. BusInv' /\ GhostInv'
  BY SMT DEF IInv, BusInv, GhostInv
<1>4. MainInv'
  BY SMT DEF IInv, MainInv, Idle
<1>5. BufferInv'
  <2>1. data_length \in 0 .. MaxLen /\ job.len \in 1 .. MaxLen /\ MaxLen \in Nat
    BY IsrFacts, MaxLenNat, Zenon DEF IInv, TypeOK, StatusType
  <2> QED
    BY <2>1, SMT DEF IInv, BufferInv
<1>6. PlanInv'
  BY SMT DEF PlanInv
<1> QED
  BY <1>1, <1>2, <1>3, <1>4, <1>5, <1>6 DEF IInv

\* A handler that sends a byte of the buffer ptr
LEMMA SendByteInv ==
  ASSUME IInv, IsrFrame, NEW ptr \in {"reg", "data"}, NEW length \in 1 .. MaxLen,
         SendByte(ptr, length), failed' = failed, UNCHANGED <<busy, error>>,
         bufferFree' \in BOOLEAN, swaps' \in BOOLEAN, ptr = "reg" <=> swaps',
         swaps' => job.reg, ptr = "data" => length <= job.len,
         job.reg /\ ptr = "data" => Len(done) > 0,
         ~refused /\ ~failed /\ ptr = "data" => ~job.read,
         Len(done) + length = IF ptr = "reg" THEN 1 ELSE PlanLen(job)
  PROVE  IInv'
<1> USE DEF IsrFrame, SendByte, callVars
<1> DEFINE e == IF ptr = "reg" THEN "reg" ELSE "out"
<1>1. /\ done \in Seq({"reg", "out", "in"}) /\ e \in {"reg", "out", "in"}
      /\ data_length' = length - 1 /\ data_length' \in 0 .. MaxLen
  BY Wrap, SMT DEF IInv, TypeOK, TwiType
<1>2. /\ done' \in Seq({"reg", "out", "in"})
      /\ Len(done') = Len(done) + 1
      /\ Len(done) \in Nat
      /\ done'[Len(done) + 1] = e
      /\ \A i \in 1 .. Len(done) : done'[i] = done[i]
  <2>1. done' = Append(done, e)
    OBVIOUS
  <2> HIDE DEF e
  <2>2. /\ Append(done, e) \in Seq({"reg", "out", "in"})
        /\ Len(Append(done, e)) = Len(done) + 1
        /\ Len(done) \in Nat
        /\ Append(done, e)[Len(done) + 1] = e
        /\ \A i \in 1 .. Len(done) : Append(done, e)[i] = done[i]
    BY <1>1, OneMore
  <2> QED
    BY <2>1, <2>2, Zenon
<1>3. TypeOK'
  <2> addressNACKCheck' \in BOOLEAN
    BY Zenon
  <2>1. MainType'
    BY SMT DEF IInv, TypeOK, MainType
  <2>2. StatusType'
    BY <1>1, SMT DEF IInv, TypeOK, StatusType, State
  <2>3. TwiType'
    BY <1>2, SMT DEF IInv, TypeOK, TwiType, Command
  <2> QED
    BY <2>1, <2>2, <2>3 DEF TypeOK
<1>4. InBounds'
  <2>1. job' = job /\ PlanLen(job) \in 1 .. MaxLen + 1 /\ MaxLen \in Nat
    BY IsrFacts, MaxLenNat, Zenon
  <2>2. Len(done') + data_length' = IF data_ptr' = "reg" THEN 1 ELSE PlanLen(job)
    BY <1>1, <1>2, <2>1, SMT
  <2>3. state' \in {"TX", "RX"} => data_length' > 0
    BY <1>1, MaxLenNat, SMT
  <2> QED
    BY <2>1, <2>2, <2>3, Zenon DEF InBounds
<1>5. BusInv' /\ MainInv' /\ GhostInv'
  <2>1. BusInv' /\ GhostInv'
    BY SMT DEF IInv, BusInv, GhostInv, Command
  <2>2. MainInv'
    BY IsrFacts, SMT DEF IInv, MainInv, Idle
  <2> QED
    BY <2>1, <2>2
<1>6. BufferInv'
  <2>1. state' = "TX_EMPTY" => data_length' = 0
    BY <1>1, SMT
  <2>2. data_ptr' = "reg" <=> swaps'
    BY Zenon
  <2>3. data_ptr' = "data" => data_length' <= job'.len
    BY <1>1, IsrFacts, MaxLenNat, SMT
  <2>4. pc' \in {"fail", "free"} => Closing'
    BY SMT DEF Closing
  <2> QED
    BY <2>1, <2>2, <2>3, <2>4, SMT DEF BufferInv
<1>7. PlanInv'
  <2> SUFFICES ASSUME ~refused, ~failed
               PROVE  /\ \A i \in 1 .. Len(done') : i <= PlanLen(job) /\ done'[i] = Plan(job)[i]
                      /\ data_ptr' = "data" => ~job.read
                      /\ state' \notin {"IDLE", "RESET"}
    BY SMT DEF PlanInv
  <2>1. \A i \in 1 .. Len(done) : i <= PlanLen(job) /\ done[i] = Plan(job)[i]
    BY IsrFacts DEF IInv, PlanInv
  <2>2. Len(done) + 1 <= PlanLen(job) /\ Len(done) + 1 \in 1 .. PlanLen(job)
    <3>1. PlanLen(job) \in 1 .. MaxLen + 1 /\ MaxLen \in Nat
      BY IsrFacts, MaxLenNat, Zenon
    <3> QED
      BY <1>2, <3>1, SMT
  <2>3. Plan(job)[Len(done) + 1] = e
    <3>1. ptr = "reg" => job.reg /\ Len(done) = 0
      BY <1>2, Zenon, SMT
    <3>2. ptr = "data" => ~job.read /\ ~(job.reg /\ Len(done) = 0)
      BY <1>2, SMT
    <3> QED
      BY <1>2, <2>2, <3>1, <3>2, SMT DEF Plan
  <2> QED
    BY <1>2, <2>1, <2>2, <2>3, SMT
<1> QED
  BY <1>3, <1>4, <1>5, <1>6, <1>7 DEF IInv

LEMMA DataNackInv ==
  ASSUME IInv, IsrFrame, failed' = failed, DataNack
  PROVE  IInv'
<1>1. refused \/ failed
  BY IsrFacts, Zenon DEF DataNack
<1>2. /\ bufferFree' \in BOOLEAN /\ addressNACKCheck' \in BOOLEAN
      /\ data_length \in 0 .. MaxLen /\ done' \in Seq({"reg", "out", "in"})
  BY SMT DEF DataNack, bufVars, IInv, TypeOK, StatusType, TwiType
<1>3. data_length' = data_length /\ data_length <= data_length
  BY <1>2, MaxLenNat, SMT DEF DataNack, bufVars
<1>4. Len(done) + data_length = IF data_ptr = "reg" THEN 1 ELSE PlanLen(job)
  BY IsrFacts, Zenon DEF IInv, InBounds
<1>5. SendStop /\ UNCHANGED <<data_ptr, swaps>> /\ done' = done
  BY DEF DataNack, bufVars
<1> QED
  BY <1>1, <1>2, <1>3, <1>4, <1>5, StopInv

LEMMA DoTxInv ==
  ASSUME IInv, IsrFrame, failed' = failed, state = "TX", DoTx
  PROVE  IInv'
<1>1. CASE DataNack
  BY <1>1, DataNackInv
<1>2. CASE ~DataNack
  <2>1. SendByte(data_ptr, data_length) /\ UNCHANGED <<busy, error, bufferFree, swaps>>
    BY <1>2 DEF DoTx
  <2>2. /\ data_ptr \in {"reg", "data"} /\ data_length \in 1 .. MaxLen
        /\ bufferFree' \in BOOLEAN /\ swaps' \in BOOLEAN
    BY <2>1, MaxLenNat, SMT DEF IInv, InBounds, TypeOK, StatusType
  <2>3. /\ data_ptr = "reg" <=> swaps'
        /\ swaps' => job.reg
        /\ data_ptr = "data" => data_length <= job.len
    BY <2>1, IsrFacts, Zenon DEF IInv, BufferInv
  <2>4. Len(done) + data_length = IF data_ptr = "reg" THEN 1 ELSE PlanLen(job)
    BY IsrFacts, Zenon DEF IInv, InBounds
  <2>5. job.reg /\ data_ptr = "data" => Len(done) > 0
    <3>1. done \in Seq({"reg", "out", "in"}) /\ Len(done) \in Nat
      BY DEF IInv, TypeOK, TwiType
    <3> QED
      BY <2>2, <2>3, <2>4, <3>1, IsrFacts, MaxLenNat, SMT
  <2>6. ~refused /\ ~failed /\ data_ptr = "data" => ~job.read
    BY IsrFacts, Zenon DEF IInv, PlanInv
  <2> QED
    BY <2>1, <2>2, <2>3, <2>4, <2>5, <2>6, SendByteInv
<1> QED
  BY <1>1, <1>2

LEMMA DoTxEmptyInv ==
  ASSUME IInv, IsrFrame, failed' = failed, state = "TX_EMPTY", DoTxEmpty
  PROVE  IInv'
<1>0. /\ data_length = 0 /\ pc # "open"
      /\ done \in Seq({"reg", "out", "in"}) /\ Len(done) \in Nat
      /\ data_ptr \in {"reg", "data"}
  BY IsrFacts DEF IInv, BufferInv, TypeOK, TwiType, StatusType
<1>1. Len(done) = IF data_ptr = "reg" THEN 1 ELSE PlanLen(job)
  BY <1>0, IsrFacts, SMT DEF IInv, InBounds
<1>2. CASE DataNack
  BY <1>2, DataNackInv
<1>3. CASE ~DataNack /\ ~swaps
  <2>1. /\ SendStop /\ bufferFree' \in BOOLEAN
        /\ UNCHANGED <<data_ptr, data_length, addressNACKCheck, swaps, done>>
    BY <1>3, Zenon DEF DoTxEmpty
  <2>2. /\ addressNACKCheck' \in BOOLEAN /\ data_length' \in 0 .. MaxLen
        /\ done' \in Seq({"reg", "out", "in"}) /\ data_length' <= data_length
    BY <2>1, <1>0, MaxLenNat, SMT DEF IInv, TypeOK, StatusType
  <2>3. data_ptr = "data"
    BY <1>0, <1>3 DEF IInv, BufferInv
  <2>4. /\ Len(done') + data_length' = IF data_ptr = "reg" THEN 1 ELSE PlanLen(job)
        /\ Len(done') = PlanLen(job)
    BY <1>0, <1>1, <2>1, <2>3, SMT
  <2>5. ~refused /\ ~failed =>
          \A i \in 1 .. Len(done') : i <= PlanLen(job) /\ done'[i] = Plan(job)[i]
    BY <1>0, <2>1, Zenon DEF IInv, PlanInv
  <2> QED
    BY <2>1, <2>2, <2>4, <2>5, StopInv
<1>4. CASE ~DataNack /\ swaps
  <2>1. /\ bufferFree' = FALSE /\ swaps' = FALSE
        /\ IF job.read
           THEN /\ data_ptr' = "data" /\ data_length' = job.len
                /\ SendAdrRead
                /\ UNCHANGED done
           ELSE SendByte("data", job.len)
        /\ UNCHANGED <<busy, error>>
    BY <1>4, Zenon DEF DoTxEmpty
  <2>2. job.reg /\ data_ptr = "reg" /\ Len(done) = 1
    BY <1>0, <1>1, <1>4 DEF IInv, BufferInv
  <2>3. Len(done) + job.len = PlanLen(job) /\ Len(done) > 0 /\ job.len <= job.len
    BY <2>2, IsrFacts, MaxLenNat, SMT
  <2>4. CASE ~job.read
    <3>1. bufferFree' \in BOOLEAN /\ swaps' \in BOOLEAN /\ ("data" = "reg" <=> swaps')
      BY <2>1, Zenon
    <3>2. job.len \in 1 .. MaxLen /\ "data" \in {"reg", "data"} /\ (swaps' => job.reg)
      BY <2>1, IsrFacts, Zenon
    <3> QED
      BY <2>1, <2>2, <2>3, <2>4, <3>1, <3>2, SendByteInv
  <2>5. CASE job.read
    <3> USE DEF IsrFrame, SendAdrRead, callVars
    <3>1. /\ data_ptr' = "data" /\ data_length' = job.len /\ SendAdrRead
          /\ UNCHANGED done
      BY <2>1, <2>5
    <3>2. TypeOK'
      <4> /\ addressNACKCheck' \in BOOLEAN /\ swaps' \in BOOLEAN
          /\ bufferFree' \in BOOLEAN
        BY <2>1, <3>1, Zenon
      <4>1. MainType'
        BY SMT DEF IInv, TypeOK, MainType
      <4>2. job.len \in 0 .. MaxLen
        BY IsrFacts, MaxLenNat, SMT
      <4>3. StatusType'
        BY <2>1, <3>1, <4>2, SMT DEF IInv, TypeOK, StatusType, State
      <4>4. TwiType'
        BY <3>1, SMT DEF IInv, TypeOK, TwiType, Command
      <4> QED
        BY <4>1, <4>3, <4>4 DEF TypeOK
    <3>3. InBounds'
      <4>1. job.len > 0 /\ job' = job
        BY IsrFacts, MaxLenNat, SMT
      <4> QED
        BY <2>3, <3>1, <4>1, SMT DEF InBounds
    <3>4. BusInv' /\ GhostInv'
      BY <3>1, SMT DEF IInv, BusInv, GhostInv, Command
    <3>5. MainInv'
      BY <2>1, IsrFacts, SMT DEF IInv, MainInv, Idle
    <3>6. BufferInv'
      BY <2>1, <2>5, <3>1, <2>3, SMT DEF BufferInv
    <3>7. PlanInv'
      BY <1>0, <3>1, SMT DEF IInv, PlanInv
    <3> QED
      BY <3>2, <3>3, <3>4, <3>5, <3>6, <3>7 DEF IInv
  <2> QED
    BY <2>4, <2>5, IsrFacts
<1> QED
  BY <1>2, <1>3, <1>4 DEF IInv, TypeOK, StatusType

LEMMA DoRxInv ==
  ASSUME IInv, IsrFrame, failed' = failed, ~(addressNACKCheck /\ rxack), state = "RX", DoRx
  PROVE  IInv'
<1>1. /\ pc # "open" /\ data_ptr = "data" /\ job.read /\ data_length \in 1 .. MaxLen
      /\ data_length <= job.len
      /\ done \in Seq({"reg", "out", "in"}) /\ Len(done) \in Nat
  <2>1. pc # "open" /\ data_ptr = "data" /\ job.read /\ data_length <= job.len
    BY IsrFacts DEF IInv, BufferInv
  <2>2. data_length \in 1 .. MaxLen
    BY MaxLenNat, SMT DEF IInv, InBounds, TypeOK, StatusType
  <2>3. done \in Seq({"reg", "out", "in"}) /\ Len(done) \in Nat
    BY DEF IInv, TypeOK, TwiType
  <2> QED
    BY <2>1, <2>2, <2>3
<1>2. Len(done) + data_length = PlanLen(job)
  BY <1>1, SMT DEF IInv, InBounds
<1>3. /\ data_length' = data_length - 1 /\ data_length' \in 0 .. MaxLen
      /\ data_length' <= data_length
  BY <1>1, Wrap, MaxLenNat, SMT DEF DoRx
<1>4. /\ done' \in Seq({"reg", "out", "in"})
      /\ Len(done') = Len(done) + 1
      /\ done'[Len(done) + 1] = "in"
      /\ \A i \in 1 .. Len(done) : done'[i] = done[i]
  <2>1. done' = Append(done, "in") /\ "in" \in {"reg", "out", "in"}
    BY DEF DoRx
  <2>2. /\ Append(done, "in") \in Seq({"reg", "out", "in"})
        /\ Len(Append(done, "in")) = Len(done) + 1
        /\ Append(done, "in")[Len(done) + 1] = "in"
        /\ \A i \in 1 .. Len(done) : Append(done, "in")[i] = done[i]
    BY <1>1, <2>1, OneMore
  <2> QED
    BY <2>1, <2>2, Zenon
<1>5. Len(done') + data_length' = PlanLen(job)
  BY <1>1, <1>2, <1>3, <1>4, MaxLenNat, SMT
<1>6. ~refused /\ ~failed =>
        \A i \in 1 .. Len(done') : i <= PlanLen(job) /\ done'[i] = Plan(job)[i]
  <2> SUFFICES ASSUME ~refused, ~failed
               PROVE  \A i \in 1 .. Len(done') : i <= PlanLen(job) /\ done'[i] = Plan(job)[i]
    OBVIOUS
  <2>1. \A i \in 1 .. Len(done) : i <= PlanLen(job) /\ done[i] = Plan(job)[i]
    BY <1>1 DEF IInv, PlanInv
  <2>2. Len(done) + 1 \in 1 .. PlanLen(job) /\ ~(job.reg /\ Len(done) = 0)
    <3>1. /\ PlanLen(job) = IF job.reg THEN job.len + 1 ELSE job.len
          /\ job.len \in 1 .. MaxLen
      BY IsrFacts
    <3> QED
      BY <1>1, <1>2, <3>1, MaxLenNat, SMT
  <2>3. Plan(job)[Len(done) + 1] = "in"
    BY <1>1, <2>2, SMT DEF Plan
  <2> QED
    BY <1>1, <1>4, <2>1, <2>2, <2>3, SMT
<1>7. CASE data_length' # 0
  <2> USE DEF IsrFrame, callVars
  <2>1. /\ addressNACKCheck' = FALSE /\ state' = "RX" /\ Command("in")
        /\ UNCHANGED <<busy, error, bufferFree, data_ptr, swaps>>
    BY <1>7, Zenon DEF DoRx
  <2>2. TypeOK'
    <3> addressNACKCheck' \in BOOLEAN
      BY <2>1, Zenon
    <3>1. MainType'
      BY SMT DEF IInv, TypeOK, MainType
    <3>2. StatusType'
      BY <1>3, <2>1, SMT DEF IInv, TypeOK, StatusType, State
    <3>3. TwiType'
      BY <1>4, <2>1, SMT DEF IInv, TypeOK, TwiType, Command
    <3> QED
      BY <3>1, <3>2, <3>3 DEF TypeOK
  <2>3. InBounds'
    <3>1. job' = job /\ data_ptr' = "data" /\ data_length' > 0
      BY <1>1, <1>3, <1>7, <2>1, MaxLenNat, SMT
    <3> QED
      BY <1>5, <3>1, SMT DEF InBounds
  <2>4. BusInv' /\ GhostInv'
    BY <2>1, IsrFacts, SMT DEF IInv, BusInv, GhostInv, Command
  <2>5. MainInv'
    BY <2>1, IsrFacts, SMT DEF IInv, MainInv, Idle
  <2>6. BufferInv'
    <3>1. data_length' <= job.len
      BY <1>1, <1>3, IsrFacts, MaxLenNat, SMT
    <3> QED
      BY <1>1, <2>1, <3>1, SMT DEF IInv, BufferInv
  <2>7. PlanInv'
    BY <1>6, <2>1, SMT DEF PlanInv
  <2> QED
    BY <2>2, <2>3, <2>4, <2>5, <2>6, <2>7 DEF IInv
<1>8. CASE data_length' = 0
  <2>1. /\ addressNACKCheck' = FALSE /\ bufferFree' = TRUE /\ SendStop
        /\ UNCHANGED <<data_ptr, swaps>>
    BY <1>8, Zenon DEF DoRx
  <2>2. addressNACKCheck' \in BOOLEAN /\ bufferFree' \in BOOLEAN
    BY <2>1, Zenon
  <2>3. Len(done') + data_length' = IF data_ptr = "reg" THEN 1 ELSE PlanLen(job)
    BY <1>1, <1>5
  <2>4. Len(done') = PlanLen(job)
    BY <1>1, <1>4, <1>5, <1>8, SMT
  <2> QED
    BY <1>3, <1>4, <1>6, <2>1, <2>2, <2>3, <2>4, StopInv
<1> QED
  BY <1>7, <1>8

LEMMA DoAddressNackInv ==
  ASSUME IInv, IsrFrame, failed' = failed, addressNACKCheck, rxack, DoAddressNack
  PROVE  IInv'
<1>1. refused \/ failed
  BY IsrFacts
<1>2. /\ data_length \in 0 .. MaxLen /\ bufferFree \in BOOLEAN
      /\ data_length <= data_length /\ done \in Seq({"reg", "out", "in"})
  BY MaxLenNat, SMT DEF IInv, TypeOK, StatusType, TwiType
<1>3. UNCHANGED <<bufferFree, data_ptr, data_length, swaps, done>>
  BY DEF DoAddressNack, bufVars
<1>4. Len(done) + data_length = IF data_ptr = "reg" THEN 1 ELSE PlanLen(job)
  BY IsrFacts, Zenon DEF IInv, InBounds
<1>5. CASE restarts
  <2> USE DEF IsrFrame, callVars
  <2>1. /\ error' = "FAIL" /\ busy' = busy
        /\ addressNACKCheck' = TRUE /\ state' = "TX" /\ Command("addressWrite")
    BY <1>5, Zenon DEF DoAddressNack, SendAdrWrite
  <2>2. TypeOK'
    <3> addressNACKCheck' \in BOOLEAN
      BY <2>1, Zenon
    <3>1. MainType'
      BY SMT DEF IInv, TypeOK, MainType
    <3>2. StatusType'
      BY <1>3, <2>1, SMT DEF IInv, TypeOK, StatusType, State
    <3>3. TwiType'
      BY <1>3, <2>1, SMT DEF IInv, TypeOK, TwiType, Command
    <3> QED
      BY <3>1, <3>2, <3>3 DEF TypeOK
  <2>3. InBounds'
    <3>1. state # "TX_EMPTY"
      BY IsrFacts, Zenon DEF IInv, BufferInv
    <3>2. data_length > 0
      BY <3>1, IsrFacts DEF IInv, InBounds
    <3> QED
      BY <1>3, <1>4, <3>2, SMT DEF InBounds
  <2>4. BusInv' /\ GhostInv'
    BY <1>1, <2>1, IsrFacts, SMT DEF IInv, BusInv, GhostInv, Command
  <2>5. MainInv'
    BY <2>1, IsrFacts, SMT DEF IInv, MainInv, Idle
  <2>6. BufferInv'
    BY <1>3, <2>1, SMT DEF IInv, BufferInv
  <2>7. PlanInv'
    BY <1>1, SMT DEF PlanInv
  <2> QED
    BY <2>2, <2>3, <2>4, <2>5, <2>6, <2>7 DEF IInv
<1>6. CASE ~restarts
  <2>1. SendStop /\ addressNACKCheck' \in BOOLEAN
    BY <1>6, Zenon DEF DoAddressNack
  <2> QED
    BY <1>1, <1>2, <1>3, <1>4, <2>1, StopInv
<1> QED
  BY <1>5, <1>6

LEMMA DoFaultInv ==
  ASSUME IInv, IsrFrame, failed' = TRUE, NEW f \in Faults, DoFault(f)
  PROVE  IInv'
<1> USE DEF IsrFrame, DoFault, callVars, bufVars
<1>1. TypeOK'
  <2> busy' \in BOOLEAN /\ failed' \in BOOLEAN
    BY Zenon
  <2>1. MainType'
    BY SMT DEF IInv, TypeOK, MainType
  <2>2. StatusType'
    BY SMT DEF IInv, TypeOK, StatusType, State
  <2>3. TwiType'
    BY SMT DEF IInv, TypeOK, TwiType
  <2> QED
    BY <2>1, <2>2, <2>3 DEF TypeOK
<1>2. InBounds' /\ BusInv' /\ GhostInv' /\ PlanInv'
  BY SMT DEF IInv, InBounds, BusInv, GhostInv, PlanInv
<1>3. MainInv' /\ BufferInv'
  BY SMT DEF IInv, MainInv, Idle, BufferInv
<1> QED
  BY <1>1, <1>2, <1>3 DEF IInv

LEMMA IsrInv == ASSUME IInv, Isr PROVE IInv'
<1>1. IsrFrame
  BY DEF Isr, IsrFrame
<1>2. CASE (\E f \in Faults : DoFault(f)) /\ failed' = TRUE
  BY <1>1, <1>2, DoFaultInv
<1>3. CASE addressNACKCheck /\ rxack /\ DoAddressNack /\ UNCHANGED failed
  BY <1>1, <1>3, DoAddressNackInv
<1>4. CASE ~(addressNACKCheck /\ rxack) /\ state = "TX" /\ DoTx /\ UNCHANGED failed
  BY <1>1, <1>4, DoTxInv
<1>5. CASE ~(addressNACKCheck /\ rxack) /\ state = "TX_EMPTY" /\ DoTxEmpty /\ UNCHANGED failed
  BY <1>1, <1>5, DoTxEmptyInv
<1>6. CASE ~(addressNACKCheck /\ rxack) /\ state = "RX" /\ DoRx /\ UNCHANGED failed
  BY <1>1, <1>6, DoRxInv
<1> QED
  BY <1>2, <1>3, <1>4, <1>5, <1>6, Zenon DEF Isr

-----------------------------------------------------------------------------
(* The TWI module, the device and the wires                                   *)

\* What every step of theirs leaves alone and where it happens: on a bus that is
\* not quiet, never while main ends close.
WireFrame ==
    /\ ~Closing
    /\ bus # "quiet" /\ bus' # "quiet"
    /\ flags \subseteq flags' /\ flags' \subseteq flags \cup Faults \cup {"IF"}
    /\ UNCHANGED <<pc, callVars, statusVars, ien, done>>
    /\ bus' \in {"held", "lost", "in"}
    /\ rxack' \in BOOLEAN /\ refused' \in BOOLEAN /\ failed' \in BOOLEAN
    /\ (refused => refused') /\ (failed => failed')

LEMMA WireInv ==
  ASSUME IInv, WireFrame, GhostInv'
  PROVE  IInv'
<1> USE DEF WireFrame, callVars, statusVars, bufVars
<1>1. TypeOK'
  <2>1. MainType' /\ StatusType'
    BY SMT DEF IInv, TypeOK, MainType, StatusType
  <2>2. TwiType'
    BY SMT DEF IInv, TypeOK, TwiType
  <2> QED
    BY <2>1, <2>2 DEF TypeOK
<1>2. InBounds' /\ BusInv'
  BY SMT DEF IInv, InBounds, BusInv
<1>3. MainInv'
  BY SMT DEF IInv, MainInv, Idle
<1>4. BufferInv'
  BY SMT DEF IInv, BufferInv, Idle, Closing
<1>5. PlanInv'
  BY SMT DEF IInv, PlanInv
<1> QED
  BY <1>1, <1>2, <1>3, <1>4, <1>5 DEF IInv

LEMMA AddressAckedInv == ASSUME IInv, AddressAcked PROVE IInv'
<1> USE DEF AddressAcked, Interrupt, callVars, statusVars, bufVars, ghosts
<1>1. rxack' \in BOOLEAN
  BY Zenon
<1>2. WireFrame
  BY <1>1, SMT DEF WireFrame, IInv, TypeOK, TwiType
<1>3. GhostInv'
  BY SMT DEF IInv, GhostInv
<1> QED
  BY <1>2, <1>3, WireInv

LEMMA AddressNackedInv == ASSUME IInv, AddressNacked PROVE IInv'
<1> USE DEF AddressNacked, Interrupt, callVars, statusVars, bufVars
<1>1. rxack' \in BOOLEAN /\ refused' \in BOOLEAN
  BY Zenon
<1>2. WireFrame
  BY <1>1, SMT DEF WireFrame, IInv, TypeOK, TwiType
<1>3. GhostInv'
  BY SMT DEF IInv, GhostInv
<1> QED
  BY <1>2, <1>3, WireInv

LEMMA ByteOutInv == ASSUME IInv, NEW nack \in BOOLEAN, ByteOut(nack) PROVE IInv'
<1> USE DEF ByteOut, Interrupt, callVars, statusVars, bufVars
<1>1. rxack' \in BOOLEAN /\ refused' \in BOOLEAN
  BY Zenon DEF IInv, TypeOK, TwiType
<1>2. WireFrame
  BY <1>1, SMT DEF WireFrame, IInv, TypeOK, TwiType
<1>3. GhostInv'
  BY SMT DEF IInv, GhostInv
<1> QED
  BY <1>2, <1>3, WireInv

LEMMA ByteInInv == ASSUME IInv, ByteIn PROVE IInv'
<1> USE DEF ByteIn, Interrupt, callVars, statusVars, bufVars, ghosts
<1>1. WireFrame
  BY SMT DEF WireFrame, IInv, TypeOK, TwiType
<1>2. GhostInv'
  BY SMT DEF IInv, GhostInv
<1> QED
  BY <1>1, <1>2, WireInv

LEMMA BusFaultInv == ASSUME IInv, NEW f \in Faults, BusFault(f) PROVE IInv'
<1> USE DEF BusFault, callVars, statusVars, bufVars
<1>1. failed' \in BOOLEAN
  BY Zenon
<1>2. WireFrame
  BY <1>1, SMT DEF WireFrame, IInv, TypeOK, TwiType
<1>3. GhostInv'
  BY SMT DEF GhostInv
<1> QED
  BY <1>2, <1>3, WireInv

-----------------------------------------------------------------------------
(* The theorems                                                               *)

LEMMA Invariance == Spec => []IInv
<1>1. ASSUME IInv, [Next]_vars PROVE IInv'
  <2>1. ASSUME MainStep PROVE IInv'
    BY <1>1, <2>1, BeginInv, CloseReadsInv, CloseFailsInv, CloseTestsInv, CloseFreesInv,
       CloseReturnsInv DEF MainStep
  <2>2. ASSUME NEW j \in Job, Call(j) PROVE IInv'
    BY <1>1, <2>2, CallInv
  <2>3. ASSUME Isr PROVE IInv'
    BY <1>1, <2>3, IsrInv
  <2>4. ASSUME AddressAcked \/ AddressNacked \/ ByteEnds PROVE IInv'
    BY <1>1, <2>4, AddressAckedInv, AddressNackedInv, ByteOutInv, ByteInInv DEF ByteEnds
  <2>5. ASSUME NEW f \in Faults, BusFault(f) PROVE IInv'
    BY <1>1, <2>5, BusFaultInv
  <2>6. ASSUME UNCHANGED vars PROVE IInv'
    <3> USE <2>6 DEF vars, callVars, statusVars, bufVars, twiVars, ghosts
    <3>1. TypeOK'
      <4>1. MainType' /\ StatusType'
        BY <1>1, SMT DEF IInv, TypeOK, MainType, StatusType
      <4>2. TwiType'
        BY <1>1, SMT DEF IInv, TypeOK, TwiType
      <4> QED
        BY <4>1, <4>2 DEF TypeOK
    <3>2. InBounds' /\ BusInv' /\ GhostInv' /\ PlanInv'
      BY <1>1, SMT DEF IInv, InBounds, BusInv, GhostInv, PlanInv
    <3>3. MainInv' /\ BufferInv'
      BY <1>1, SMT DEF IInv, MainInv, BufferInv, Idle, Closing
    <3> QED
      BY <3>1, <3>2, <3>3 DEF IInv
  <2> QED
    BY <1>1, <2>1, <2>2, <2>3, <2>4, <2>5, <2>6, Zenon DEF Next
<1> QED
  BY <1>1, InitInv, PTL DEF Spec

\* Whatever the length of the buffers and the faults of the bus, every variable of the
\* I2C driver keeps its type: the length never wraps.
THEOREM TypeCorrect == Spec => []TypeOK
<1>1. IInv => TypeOK
  BY DEF IInv
<1> QED
  BY <1>1, Invariance, PTL

\* The interrupt routine never moves a byte outside the buffer it was given, also
\* after a restart and after close undid a bit of its status.
THEOREM BufferInBounds == Spec => []InBounds
<1>1. IInv => InBounds
  BY DEF IInv
<1> QED
  BY <1>1, Invariance, PTL

\* The routine is never called with the state machine parked, so that the handlers
\* of IDLE and RESET have nothing to do.
THEOREM NeverParked == Spec => []Parked
<1>1. IInv => Parked
  BY Zenon DEF IInv, BusInv, Parked
<1> QED
  BY <1>1, Invariance, PTL

\* A call that returns without error has released the bus.
THEOREM BusIsReleased == Spec => []BusReleased
<1>1. IInv => BusReleased
  <2>1. IInv /\ Idle /\ error = "NOERR" => bus = "quiet"
    BY SMT DEF IInv, MainInv
  <2> QED
    BY <2>1, Zenon DEF BusReleased, Idle, IInv, BusInv
<1> QED
  BY <1>1, Invariance, PTL

\* A call that meets neither a NACK nor a fault moves all its bytes, in their order
\* and direction, and returns no error.
THEOREM CallIsWhole == Spec => []Whole
<1>1. IInv => Whole
  <2> SUFFICES ASSUME IInv, pc = "idle", ~refused, ~failed
               PROVE  error = "NOERR" /\ done = Plan(job)
    BY DEF Whole
  <2>1. state \in {"IDLE", "RESET"}
    BY Zenon DEF IInv, MainInv, BusInv, Idle
  <2>2. error = "NOERR" /\ Len(done) = PlanLen(job)
    BY <2>1, SMT DEF IInv, PlanInv
  <2>3. \A i \in 1 .. Len(done) : done[i] = Plan(job)[i]
    BY SMT DEF IInv, PlanInv
  <2>4. done \in [1 .. Len(done) -> {"reg", "out", "in"}]
    BY SMT DEF IInv, TypeOK, TwiType
  <2>5. Plan(job) = [i \in 1 .. PlanLen(job) |-> Plan(job)[i]]
    BY DEF Plan
  <2> QED
    BY <2>2, <2>3, <2>4, <2>5
<1> QED
  BY <1>1, Invariance, PTL

\* No byte moves after the call that owns the buffer has returned.
THEOREM BufferOnStack == Spec => StackSafe
<1>1. ASSUME IInv, [Next]_vars
      PROVE  [Len(done') > Len(done) => pc \notin {"idle", "open"}]_vars
  <2> SUFFICES ASSUME Len(done') > Len(done) PROVE pc \notin {"idle", "open"}
    OBVIOUS
  <2>0. done \in Seq({"reg", "out", "in"}) /\ Len(done) \in Nat
    BY <1>1 DEF IInv, TypeOK, TwiType
  <2>1. done' # done
    BY <2>0, SMT
  <2>2. CASE Isr
    <3>1. IsrFrame
      BY <2>2 DEF Isr, IsrFrame
    <3> QED
      BY <1>1, <3>1, IsrFacts DEF Idle
  <2>3. CASE Begin
    BY <2>0, <2>3, SMT DEF Begin
  <2>4. CASE ~Isr /\ ~Begin
    BY <1>1, <2>1, <2>4, Zenon DEF Next, MainStep, ByteEnds, Call, CloseReads, CloseFails, CloseTests,
       CloseFrees, CloseReturns, AddressAcked, AddressNacked, ByteOut, ByteIn, BusFault,
       vars, ghosts
  <2> QED
    BY <2>2, <2>3, <2>4
<1> QED
  BY <1>1, Invariance, PTL DEF Spec, StackSafe

=============================================================================
