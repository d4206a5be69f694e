# Verification of the AVR-IoT voice-control firmware

This directory is a TLA+ development kept beside the firmware of the AVR-IoT WG
board (ATmega4808, WINC1510 Wi-Fi module, ECC608 crypto chip): modules that model
its own logic, TLC configurations that check them on small instances, and proofs
checked by TLAPS for every value of the constants. `M/` abbreviates
`src/mcc_generated_files/` throughout.

## 1. The system

The firmware is one super-loop (`src/main.c`, `M/application_manager.c`) that calls
the next expired timer callback and `CLI_task`; everything else is a timer callback,
an interrupt routine, or a callback of the WINC driver run from `m2m_wifi_handle_events`.
There is one thread and no operating system: all concurrency is between main and the
interrupt routines, and between main and the outside (access point, DNS, broker).

| Component | State it keeps | Operations | Interacts through |
|---|---|---|---|
| Timeout scheduler `M/src/rtc.c` | running list sorted by absolute time, FIFO of expired timers, time base, counter load | init, create, delete, flush_all, call_next_callback, overflow ISR | every other component's timers; the RTC overflow interrupt |
| Serial driver `M/src/usart2.c` | RX ring of 64 and TX ring of 32 bytes with head, tail, element count | read, write, RXC and DRE ISRs | CLI and debug output; the two USART interrupts |
| MQTT client `M/mqtt/mqtt_core/mqtt_core.c` | connection state, pending-packet flags, three timers, topic list | CreateConnect/Publish/Subscribe, transmission and reception handlers, Disconnect | exchange buffers, BSD adapter, scheduler, broker |
| Exchange buffer `M/mqtt/mqtt_exchange_buffer` | circular byte buffer | init, write, peek, read | MQTT client, receive callback |
| MQTT glue `M/mqtt/mqtt_comm_bsd`, `M/mqtt/mqtt_packetTransfer_interface.c`, `M/cloud/mqtt_packetPopulation` | socket number, packet templates, publish-handler table | send, close, receive; build CONNECT, PUBLISH, SUBSCRIBE | MQTT client, BSD adapter |
| Cloud service `M/cloud/cloud_service.c` | init/reset/waiting flags, two timers, DNS address | init, 500 ms task, reset and timeout callbacks, DNS and socket callbacks | Wi-Fi service, MQTT client, BSD adapter, scheduler |
| Wi-Fi service `M/cloud/wifi_service.c` | AP flags, retry and handler timers | connect, 50 ms handler, driver callback, check-back and NTP tasks | WINC driver, cloud service, scheduler |
| BSD adapter `M/cloud/bsd_adapter/bsdWINC.c` | socket table pointer, per-socket state | socket, connect, send, recv, close, event handler | MQTT glue, WINC sockets |
| Application `src/main.c`, `M/application_manager.c` | LED targets, data timer | init, data task, state-change callback, receive callback | cloud service, scheduler |
| I2C master `M/src/twi0.c`, `M/drivers/i2c_simple_master.c` | bus FSM, buffers, callbacks | open, operations, ISR step, close | crypto chip, sensors |
| CLI `M/cli/cli.c` | line buffer and index | task, command dispatch, set Wi-Fi | serial driver, credential storage |
| Credential storage `M/credentials_storage` | EEPROM cells | save, read | CLI, provisioning |
| JSON reader `src/json.c` | none | find a value | receive callback |
| LED strip, LEDs, sensors, SPI, ADC, pins, clocks | registers | drive hardware | application |
| WINC host driver `M/winc`, CryptoAuthLib `M/cryptoauthlib` | vendor code | sockets, HIF, crypto | BSD adapter, Wi-Fi service |

### What is hard in it

* **Interrupt windows.** The scheduler checks a list, then masks the interrupt, then
  works; the drivers share ring indices and counters with their ISRs.
* **Time.** A 16-bit counter stands for 32-bit times, is restarted from several places,
  and wraps; timeouts race the answers they guard.
* **Ordering across layers.** MQTT flags, the socket state and the cloud service's flags
  are changed by different callbacks in an order the network decides; a DNS answer, a
  socket event or a broker reset may come at any point of a reconnect.
* **Limits.** Rings and queues of fixed size, one pending publish, a receive length that
  is cut to eight bits.

## 2. The modules

Each component is modelled by one module over the C code's own variables, with one
action per function, handler or interrupt routine, cut where another actor can act; a
module composed of calls defines *parts of actions* for its caller. What a component
promises is a specification of its own where it is shorter than the component, and the
detailed module is shown to implement it. A module that is proved about has no RECURSIVE
operator, its parameters as CONSTANTS with a named assumption, and an invariant that is a
conjunction of named parts.

| Modules | What for | Run(s) |
|---|---|---|
| `TimeoutScheduler`, `_proofs` | every delay, retry and timeout of the program runs on it; interrupt windows, a 16-bit counter under 32-bit times | `sched` |
| `BsdSocket`, `MqttCore`, `CloudService` (composed by EXTENDS), `MqttSession` (abstract), `_proofs` | the program's purpose: come to a broker, stay there, come back | `cloud`, `cloud_session`, `cloud_one_connect`, `cloud_none_dropped` |
| `ExchangeBuffer`, `JsonReader`, `_proofs`, `Messages`, `_proofs` | what the broker sends, from the bytes of a packet to the lights | `messages`, `messages_long`, `messages_signed` |
| `WincHif`, `WincSocket` (composed by EXTENDS), `_proofs` | the driver under the BSD adapter: an interrupt, a handshake, sessions that are closed in callbacks | `winc` |
| `Usart2`, `ByteQueue` (abstract), `_proofs` | rings shared with two interrupt routines | `usart` |
| `CredentialStorage`, `CommandLine` (composed by EXTENDS), `_proofs` | what the user types, and a save that the power may cut | `cli` |
| `I2cMaster`, `_proofs` | `twi0.c` and its callers: a bus state machine, callbacks that restart, main waiting for the routine | `i2c` |

Where one component stands on another, the upper module assumes what the lower one shows:
`CloudService!TimerFair` is `TimeoutScheduler!Expires` and `CalledBack`, and with `Expires`
the condition that main does not keep restarting the counter at the head; the sessions and
the stuck receive of `BsdSocket` are those of `WincSocket` (`RecvComing`); `CommandLine`
reads what `Usart2` delivers (`RxDelivers`); `Messages` takes one packet where `MqttCore`
has several, but with its bytes.

## 3. How to read it

* A module's header says which files it models. An `MC` module instantiates it for TLC;
  the `.cfg` of a run gives the constants. A run marked *violated* shows a place where
  the program does not do what its own documents, comments or names say; the wording is
  in `PROJECT.json` under "findings".
* `_proofs` modules hold the theorems; they check with `tlapm` from nothing.
* Ghost variables are written and never read by the actions; their declarations say so.
* A definition commented *mutant of X* is a plausible bug of X, and no part of the model:
  with it in X's place TLC finds the property it is listed with violated.
* `TypeOK` of each state machine is a theorem rather than a run's invariant, where the
  module has a `_proofs` module.

**What is proved.** Every invariant and every action property of a passing run, and every
refinement, is a theorem for all values of the constants that its module's assumption
allows; a run's violated property is refuted by its counterexample.

**Out of the prover's reach.** Liveness under fairness and ENABLED are checked by TLC
only, on the bounds given below: `Recovers`, `ConnackAwaited`, `Expires`, `CalledBack`,
`FlushReturns`, `Returns`, `WriteReturns` and `Handled`. Induction over numbers is done with sets (a set of
numbers that has 0 and the successor of each of its members is all of them), as in
`CommandLine_proofs` and `JsonReader_proofs`.

**Not modelled, and why.**

* The peripheral set-up (`pin_manager.c`, `mcc.c`, `driver_isr.c`, clocks, watchdog,
  brown-out) writes registers once. The SPI, ADC, LED and LED-strip drivers poll one
  register or write pins with fixed timing.
* The crypto client and the debug output format text. The crypto client sends its requests
  to the chip through CryptoAuthLib, over the I2C functions of `I2cMaster`.
* Of the WINC driver: sending to the module (one step of `WincSocket`), UDP, TLS, ping,
  firmware update, the Wi-Fi commands (each formats one request), UART and I2C transports
  that are not built, power saving, which the program leaves off.
* The files that make up most of the tree's lines are headers of constants and pin macros
  (`m2m_wifi.h`, `m2m_types.h`, `socket.h`, `pin_manager.h`), and the parts of CryptoAuthLib
  (certificates, host-side calculations, other transports) that no function of the program
  calls. There is no behaviour of this program in them to state a property about, so the
  share of all lines that the modules map stays small although the program's own logic is
  modelled nearly everywhere.
* Provisioning through the soft access point is modelled where it saves what it was told
  (`CredentialStorage!Provisioned`); the access point itself is the module's.


## TimeoutScheduler (M/src/rtc.c)

`list` and `queue` are the two linked lists as sequences, `abs` the absolute times,
`last`, `load`, `running` the other statics, `cnt`, `flag`, `ovf` the RTC's counter,
overflow flag and overflow enable. Main's calls are cut where the interrupt is enabled
between two of its accesses: `Create`/`Delete` read the list head, `MaskForDelete`
masks, `FindInList`/`FindInQueue` unlink (restarting the counter at the head), `Unlink`
ends the delete, `Insert` is the masked rest of create. `IsrExpire` and `IsrClear` are
the overflow routine, cut before it clears the flag; `IsrNull` is its NULL dereference,
after which the model stops (`fault`). `Tick` is one period of the 1 kHz clock. Times are
`absolutetime_t` modulo `AbsMod`; `AddTime` and `SubTime` are its addition and
subtraction. The time of a node that is in no list is forgotten (`TimesOf`): nothing
reads it before create writes it again.

`due` is a ghost: ticks left until the expiry the caller asked for. So is `slow`: a tick
came while main had masked the interrupt, or before the routine was through with the last
overflow. Such a tick is hidden from the code, and the NOTE at rtc.c:340 assumes that there
are none. Ticks may fall anywhere in the model; the structural and the liveness properties
hold all the same, and those about time as long as `~slow`.

Main calls as often as it likes, and callbacks create their timers again and again. The
one bound is `MaxTime`: calls are made while no absolute time is beyond it, so that none
computes an expiry that wraps. The scheduler starts its time again at 0 whenever its list
becomes empty, so calls never come to an end for good.

| Run | Bounds | Shows |
|---|---|---|
| `sched` | 2 timers, counter of 3 values, a timeout within its range and one that needs the dummy, `MaxTime` 5 | `LinkedOnce`, `Armed`, `SpanBound` (list in order of expiry, nothing too far ahead), `ExpiredAtHead` (never early); with fairness `Expires`, `CalledBack`, `FlushReturns` |

Two timers, each with two timeouts, make every shape that the code's branches tell apart:
a list of none, one and two with and without the dummy at the head, an insert before and
behind, a timer queued while the other is deleted, or created again from its own callback.
Absolute time 5 is more than two runs of the counter behind the start.

**Fairness.** The clock ticks and a pending interrupt is taken. A call of main, once begun,
goes on. The super-loop calls call_next_callback in every round and a callback returns;
since a round may make other calls, and a queue may be emptied and filled between two
rounds, both are enabled again and again rather than for ever, and strong fairness says
that their turn comes. Nobody is obliged to call.

`Expires` is conditional: every running timer stops running *once main restarts the counter
no more* (`Restart`: it removes the timer at the head, or puts one there). It may go on for
ever to create and delete timers behind the head. Without the condition it is false, for a
real reason: a restart loads the whole distance from the last timeout to the head, whatever
part of it has elapsed (rtc.c:187), so that a timer that is created and deleted at the head
time and again keeps the timer behind it from ever expiring. Components that lean on
`Expires` lean on its condition too: `CloudService!TimerFair` takes for granted that nobody
keeps restarting the counter in less than every timeout.

**Proved** in `TimeoutScheduler_proofs` for all constants satisfying
`SchedulerAssumption`: `TypeOK`, `LinkedOnce`, `Armed`. None is inductive alone.
`IndInv` adds what main has established at each pc (`OpOK`), that the node being deleted
is out of the lists already searched (`Unlinked`), that `running`, or `tempIE`, remembers
an enable that is masked (`Enabled`), that nothing expires while flush_all has stopped the
clock (`Stopped`), and that a dummy at the head is near enough not to need a second one
(`DummyNear`); the last survives rebasing because distances of absolute times do
(`RebaseDistance`). `StartProps` states once what scheduler_start_timer_at_head guarantees.

`SpanBound` and `ExpiredAtHead`, both about the time before a tick was hidden, are proved
as well (`ListInOrder`, `NeverEarly`), from two hypotheses: every timeout is a counter run
short of the range of absolute time, and `[](~slow => ~Wraps)`, that no create computes an
expiry that wraps. `NoWrapWithin` shows when the second holds: for a longest timeout `D`,
when `MaxTime + RtcMax + D < AbsMod`, as in the run and however many calls main makes. The
invariant is `TimeInv`, which is inductive only together with `IndInv` and under `~slow`: the list is in order
of expiry behind `last` (`SortedFrom`); everything linked can be counted to without the
modulus (`Near`); the counter runs over exactly when the head's time has come, and an
overflow it has seen is the head's (`Counting`); and what is left of a timer's timeout, with
the ticks since the last load, is at most its distance from the base plus the one tick that
the routine's rounding costs (`Timely`). With it, whatever main has relinked, the routine
can only find a head whose ticks are all spent.

**Seen with TLC, without a run of its own.**

* Without its condition `Expires` fails (counter of 3 values, timeouts 1 and 3, `MaxTime`
  3): the first timer is created in front of the second and deleted before it expires, once
  in every tick, for ever, and the second never expires.
* Where absolute time wraps (a range of 9 values instead of 20), `SpanBound` fails: the
  rebasing adds the width of a 16-bit time to a 32-bit one (rtc.c:148), and the new timer
  lands a range of the counter too far ahead and out of order. The comment at rtc.c:113
  says the base is adjusted "so that we can never wrap".
* With hidden ticks counted like the others (`slow` kept FALSE) `ExpiredAtHead` fails: an
  overflow comes between main's masking and its delete of the head (rtc.c:232), stays
  pending, and is served for the next timer.
* `fault` is reachable. delete_helper enables the overflow interrupt unconditionally
  (rtc.c:245), so after create, expiry and a delete of the expired timer the routine may
  run on an empty list. So it may when call_next_callback has read `tempIE`, the routine
  moves the last timer and disables the interrupt, and `tempIE` is restored (rtc.c:297).
  The model stops there, and the liveness properties are stated up to it. `Armed` is the
  other half: with a timer in the list the interrupt is never left disabled.
* An insert or delete at the head makes timers fire late by the part of the distance that
  had elapsed (rtc.c:187). `SpanBound` says how far ahead a timer can get.

## BsdSocket, MqttCore, CloudService, MqttSession (the cloud connection)

`CloudService` EXTENDS `MqttCore` EXTENDS `BsdSocket`: the C code calls downwards, so
the lower modules define the *parts of actions* that the calls are (`BSD_connect(ok)`,
`SendPublish(ok)`, `ReceptionHandler`) and `CloudService` the actions: one per timer
callback, per message of the WINC module and per thing the user, broker and network do.
Everything runs in the super-loop, one callback at a time. `CLOUD_task` alone is cut at
the functions it calls (`pc`: "link" after the watchdogs, "transmit" between the
reception and the transmission handler, "after" before `BSD_recv` and the stand-down),
so that it reads as the code does; nothing but the broker acts between the pieces.

* **`BsdSocket`** — `socketState` is the adapter's state, `sock` the host driver's entry
  ("stuck" when `recv` set `bIsRecvPending` and the request then failed), `tcp`, `up`
  and `down` the connection and the packets on it (external). One handle at a time is
  open, and `recv` and `send` replies of an older session are dropped by socket.c, so one
  socket variable stands for the table. A stale *connect* reply, which socket.c does not
  check, cannot arrive: `SOCKET_IN_PROGRESS` is left only by the reply or by `reInit`,
  which resets the module.
* **`MqttCore`** — a packet is its type, a CONNACK or SUBACK also its outcome. `tx` and
  `rx` are the flag words, `running` the timers, `timeouts` the flags their callbacks
  set. Timers may expire at any time after their creation: the properties speak of
  order, not of durations. `SENDDISCONNECT` is the C code's use of a transmit substate
  (value 2) as a connection state, where 2 is `WAITFORCONNACK`. The keep-alive time is
  the configured 10 s, so its zero case is left out; topics and lengths are left out.
* **`CloudService`** — the flags of cloud_service.c and wifi_service.c by their names,
  `timers` for the three timers, and `wifi`, `dns`, `broker` for the outside. The broker
  keeps to MQTT 3.1.1: it ends the connection on a first packet that is no CONNECT, on a
  second CONNECT and on a DISCONNECT. `phase` is a ghost, written by `Phase` from what a
  step changed. `haveERROR` is left out: nothing reads it.
* **`MqttSession`** — the abstract specification: what a broker may expect on one TCP
  connection (CONNECT first and once, nothing more until accepted, one SUBSCRIBE, nothing
  after DISCONNECT, and a broker that never takes a packet it has no reason to expect).
  `CloudService!Sessions` instantiates it over the ghost, the packets under way and the
  broker's state.

Constants: `HifFails` lets every request to the module fail, `NetFails` the access point,
the lookup and the TCP connection, `Refuses` the broker's answers; `UserActs` adds SW0,
the CLI's reconnect and SW1. `MaxUp` and `MaxDown` bound the packets on the connection in
each direction; two are enough for packets to arrive together and for one to be sent
behind another.

| Run | Bounds | Shows |
|---|---|---|
| `cloud` | all failures and the user; 1 up, 2 down | `Watched`, `ConnectedUnwatched`, `SocketAgrees`, `NoLeak`, `KeepsAlive`, `Subscribes`, `ConnectFirst`; with fairness `Recovers`, `ConnackAwaited` |
| `cloud_session` | network failures only; 2 up, 2 down | `LinkKnown`, and `Sessions`: the refinement |
| `cloud_one_connect` | user | violated: a second CONNECT on one connection |
| `cloud_none_dropped` | no failures but the network's | violated: packets behind the one processed are thrown away |

The refinement needs its preconditions: with `UserActs` the first disconnect by SW0 breaks
it (that is `cloud_one_connect`), with `HifFails` a PUBLISH that cannot be sent does, with
`Refuses` a refused SUBSCRIBE does, all for the same reason: the MQTT state goes to
DISCONNECTED, the TCP connection stays, and `CLOUD_task` connects again on it.

Seen with TLC, without a run of its own: `PingWaits` fails. `pingrespTimeoutOccured` is
set by its timer and never cleared (mqtt_core.c:375), and the timer is not deleted with
its connection, so a later PINGREQ goes out with its 30 s already over and the PINGRESP
that answers it ends the connection.

No run checks deadlock: with the super-loop, `CloudTask` is always possible between
callbacks, and the bound on `up` may stop a send that the broker has not made room for.

**Fairness.** `WF_pc(CloudTask)` and `WF_pc(CloudSteps)`: `CLOUD_task` is a periodic
timer callback and returns. `TimerFair`: no timer stays started for ever; the scheduler
promises it (`TimeoutScheduler!Expires` and `CalledBack`) as long as main does not keep
restarting the counter for a timer at the head, within every timeout and for ever: that
it does not is assumed here. Nothing is assumed of the module, the network, the broker or
the user. `Recovers` is what is left under such weak
assumptions: the device is again and again connected or restarts the module. It does
not say that the connection carries anything: the code itself does not notice a dead
peer, for it looks at pingrespTimeoutOccured only when a PINGRESP arrives (mqtt_core.c:888).

**Proved** (`CloudService_proofs`), for every bound and every value of the failure
constants: `TypeCorrect`, `WatchdogsRun`, `NeverBitten`, `SocketMatchesMqtt`,
`NothingLeaks`, `KeepAliveRuns`, `FirstIsConnect`, and, for a device without SW1 whose
lookups can be requested, `LinkIsKnown`. One inductive invariant carries them, `IInv`:
the properties themselves, and

* `Opening` — a connect request is under way exactly in `SOCKET_IN_PROGRESS`, with no
  receive requested and `CLOUD_task` not in its handlers. Without it a received packet
  could make a socket connected whose request is still under way, and `SocketAgrees`
  would not be preserved;
* `SilentBefore` — on a connection on which nothing was sent the client is DISCONNECTED
  or CONNECTING. It follows a connection from its opening (for a DISCONNECTED client, by
  `SocketAgrees`) to its CONNECT, and gives `FirstIsConnect`;
* `CheckBackRight` — `amDisconnecting` is set exactly while `checkBackTimer` runs; it
  makes the conditional delete in the DHCP handler delete whenever there is something to
  delete, and gives `LinkIsKnown`.

`AlwaysSubscribes` needs a second invariant, `Answered`, for the same constants. A client
becomes CONNECTED when it reads a CONNACK, and the SUBSCRIBE is flagged by the cloud task
some steps before; that the one belongs to the connection of the other is what has to be
known. `Attached` ties handle, connection and what is on it; `Acks` says that a connection
has one CONNACK, on its way, in the buffer or read, never two; `Asked` follows the
subscription from `sendSubscribe` over `tx` onto the connection.

`SessionsFollow` is the refinement, step by step, under `Undisturbed` (no user, no failing
request, no refusal: the constants of `cloud_session`; the network may fail at any time).
The preconditions are those of the run, and the run `cloud_one_connect` and the examples
above show that none can be left out. `SInv` adds to the others what is on its way to the
broker for each `phase` (`Flow`), which client state goes with it (`Client`), and that
without an access point nothing is open but what it left (`Joined`). Each step on an open
connection is then `Still` or one of MqttSession's (`Moves`), each that opens or ends one
is its Open or its End.

`Recovers` and `ConnackAwaited` are liveness properties, checked by TLC only.

## Usart2, ByteQueue (M/src/usart2.c)

`Usart2` has the two rings with the driver's names, `dreie` and `dre` for the enable and
the request of the data-register interrupt, and `pc`, `tmp`, `data`, `ret` for the call
main is in. Each access of main to a volatile variable is a step: `ReadWaits`,
`ReadStoresIndex`, `ReadCounts`, `ReadReturns` are `USART_2_read`, `Write` to
`WriteEnables` are `USART_2_write`; `RxIsr(b)` and `UdreIsr` are the interrupt routines,
which the AVR does not nest. A critical section is one step, for no routine runs in it.
The read-modify-write of `CTRLA` is one step too: the only bit a routine changes is the
one main sets. Received bytes arrive at any time; a byte the ring has no room for is
dropped, as the code does.

`ByteQueue` is the abstract specification: a bounded queue that accepts and hands over.
The refinement mapping takes the slots between the indices for the queue. In the receive
direction a byte is taken when the *tail* passes it, although main reads the slot only
two steps later; `taken` is the slot until then. That the routine cannot overwrite it
depends on the one slot the receive ring keeps free, and is what the refinement shows.
In the transmit direction a byte is accepted when it is *counted*, and the ring may be
filled to its last slot.

| Run | Bounds | Shows |
|---|---|---|
| `usart` | rings of 3 slots, 2 bytes | `Counted`, `Draining`; `RxDelivers`, `TxDelivers`: the refinements; with fairness `WriteReturns` |

Rings of three slots wrap, fill and empty with every routine in every window; two
different bytes show any loss, repetition or exchange. Nothing else is bounded: the
model is finite as it stands. **Fairness**: main continues its calls and reads what there
is (`CLI_task` is periodic), a pending routine runs, the transmitter shifts.

**Proved** (`Usart2_proofs`), for rings of any size and any set of bytes: `TypeCorrect`,
`CountsAgree`, `AlwaysDraining`, and both refinements, `RxIsByteQueue` and
`TxIsByteQueue`. `IInv` adds `InCall` to the properties: what `tmp` and the written slot
hold at each place of a call, and that a call has waited before it moves an index. The
refinements rest on three lemmas about rings as sequences: `RingTake` (passing the tail is
Tail), `RingPut` (counting the slot before head is Append) and `RingOther` (a store to
that slot changes nothing between the indices). `WriteReturns` is model-checked only.

## I2cMaster (M/src/twi0.c, M/drivers/i2c_simple_master.c)

`I2cMaster` has the fields of `I2C_0_status` by their names, of the callbacks the two that
callers set (`swaps`: a `*CompleteHandler`; `restarts`: `i2c_cb_restart_write`), the
interrupt flags and enable of the TWI module, and `bus` for what the module is doing. A
`Job` is what a caller wants: the functions of `i2c_simple_master.c`, their copies in
`hal_i2c.c` and `I2C_0_wake_up` differ in it only. The data is reduced to what a byte is
for: a register's number, a byte out, a byte in; `Plan(job)` is the list of those a whole
call moves, and the ghost `done` those that have passed.

* `Begin` is `I2C_0_open`, the callbacks, `I2C_0_set_buffer`, `I2C_0_master_operation` and
  the first call of the routine. The loop around open ends because its *second* call
  returns `I2C_BUSY`: the first has taken the bus and returned `I2C_NOERR`, which is 0.
* `I2C_0_close` is five actions, with the routine between any two: `busy` and `inUse` share
  a byte with `bufferFree` and `addressNACKCheck`, which the routine writes, so main's
  load (`Load`) and store (`Store`) are apart and a store undoes what the routine changed.
  Whether the compiler loads the byte once or twice is left open.
* `Isr` is the routine with its handlers (`DoTx`, `DoTxEmpty`, `DoRx`, `DoAddressNack`,
  `DoFault`). The handlers of IDLE and RESET are left out as handlers of the routine:
  `Parked` shows that they are never called there. The data-NACK, collision and time-out
  callbacks have their defaults, since nobody sets them. RXACK and the flags are looked at
  once per run of the routine.
* `AddressAcked`, `AddressNacked`, `ByteOut`, `ByteIn`, `BusFault` are the module, the
  device and the wires. On a bus that a fault took away (`lost`), a command may work or not.

Two assumptions on time, both about a few instructions against 90 microseconds of bus: the
stores of `Begin` are over before the address is, and so is the rest of close once main
has seen that the transfer is over (`Closing`). The second one matters: with a bus as fast
as main, the stale `addressNACKCheck` of `Store` would let a NACK of the last byte restart
the transfer with no byte left, and `InBounds` fails (seen with TLC).

| Run | Bounds | Shows |
|---|---|---|
| `i2c` | up to 3 bytes of data, both bus faults | `InBounds`, `Parked`, `BusReleased`, `Whole`, `StackSafe`; with fairness `Returns` |

Three bytes give a first, a middle and a last one in each direction; the model is
otherwise finite. **Fairness**: main and the routine go on, a byte or an address that is on
the bus ends, and (strong fairness) a device that is addressed for ever answers some time:
without it, `i2c_cb_restart_write` polls and main waits for ever, and no timeout of the
driver is ever armed. A bus fault is not repaired by anybody, so `Returns` excepts it.

Seen with TLC, without a run of its own: `NoErrSent` fails. `I2C_0_do_I2C_IDLE`, called by
every stop, sets `error` to `I2C_NOERR` (twi0.c:277), so that close returns it after a NACK
that ended the transfer, although `i2c_types.h:30` says "The message was sent"; `Whole`
therefore speaks of calls that met no NACK.

Two things to know that are not properties: `MSTATUS |= RIF | WIF` writes back ones for
*every* flag that is set, so that the routine's tests for a lost arbitration and a bus
error only see what happens after that line; and the restart of a register read that a
device refuses is repeated as a *write*, which sends the caller's read buffer (`done` then
has `out` where the plan has `in`, allowed by `Whole` because the transfer met a NACK).

**Proved** (`I2cMaster_proofs`), for buffers of any length the type `size_t` has and any
set of faults: `TypeOK` and all of the run's properties but `Returns`. `IInv` adds to them `BusInv`
(the state machine is parked exactly when the bus is quiet), `MainInv` (what `busy` means
at each place of close), `BufferInv` (which buffer is in use, what it has left when it is
exchanged, and that a stale `addressNACKCheck` is no longer looked at), `GhostInv` and
`PlanInv` (what has passed is a beginning of the plan). `StopInv`, `SendByteInv` and
`WireInv` carry the argument for every handler that stops, every one that sends, and every
step of the wires.

## WincHif, WincSocket (M/winc/driver/source/m2m_hif.c, M/winc/socket/source/socket.c)

`WincHif` is the receive side of the host interface: the module has one message at a time
in the memory it shares with the host (`slot`), announces it by bit 0 of a register that
pulls the pin low (`bit0`), and says no more until the host has written RX done. The pin's
interrupt (`Isr`) increments `u8Interrupt`; main, in `hif_handle_isr`, decrements it
(`HandleLoads`, `HandleStores`: a load and a store, the routine between them) and goes
through `hif_isr` a register access at a time (`IsrSees`, `IsrClears`, `IsrDispatches`,
`Receive`, `SetRxDone`, `RxDoneWritten`, `IsrEnds`), with the pin's sense off in between.
`wifi_reinit` may come whenever main is idle: `HifDeinit`, `ChipReset`, `ChipStarts`.

`WincSocket` EXTENDS it: TCP sockets with their sessions, the requests the module has not
answered (`requests`, external), and `m2m_ip_cb` on its answers. `Receive` and `Goes` are
parts of its actions; `CalledBack` is what a callback of the adapter may do, which is to
close its socket. A message has `parts`: the reply's structure, then as many pieces of
data as the receive buffer is filled (`Socket_ReadSocketData`).

Reads fail (`Faults`): of the message's address or header, of its data, of the register
before RX done is written; and the module may not start. A register write has no answer
that could be missing (`nmspi.c` tests only the echo of the command). `failed` and `lost`
are ghosts for what the code has no way back from.

Assumed of the module: it announces only after RX done, says nothing before it is asked,
and its reset of 130 ms outlasts a pending pin interrupt. A failing first read of the
register is a stutter, for it is made again. Sending is one step that succeeds or not, and
the reply of a send, which changes nothing here, is *news*.

| Run | Bounds | Shows |
|---|---|---|
| `winc` | 1 socket, 2 sessions per start, up to 3 parts, 1 message waiting, all faults | `AnnouncedOnce`, `HeldWhileRead`, `DataForSession`, `RecvComing`; with fairness `Handled` |

Two sessions on one socket give replies that come late, for a session that is closed or
one that has been opened again in its place; three parts are a reply and two pieces, the
first of which is not the last. `MaxSession` is also what keeps `gu16SessionID` from
wrapping. **Fairness**: the pin's interrupt, `wifiHandlerTask` (a timer callback) and
`wifi_reinit` go on; the module need not say anything.

**Proved** (`WincSocket_proofs`), for any number of sockets, sessions, parts, waiting
messages and any faults: `Typed` (`TypeOK`), `AnnouncementsOnce`, `MessageHeld`,
`DataInSession`, `ReceiveComing`. The invariant of all five (`Invariant`) adds what each
place of `hif_isr` knows of the message, the pin and RX done. That `u8Interrupt` never
passes one, and therefore never wraps at 256, is a consequence of `AnnouncedOnce` and
needed for `TypeOK`: typing alone is not inductive here.

Seen with TLC, without a property: when the read of a message's header fails, bit 0 is
already cleared, and `hif_handle_isr` calls `hif_isr` for ever, which finds a false
interrupt each time (m2m_hif.c:579). `AnnouncedOnce` and `Handled` therefore speak of
announcements without a failed read. A stale CONNECT reply is not compared with the
session (socket.c:270): `ConnectReply` hands it on whatever session it is for.

## CredentialStorage, CommandLine (M/credentials_storage, M/cli/cli.c)

`CredentialStorage` has the EEPROM's bytes and the copies of the credentials in memory.
A save is the sequence of bytes it has yet to write (`Save`, `EepromWrite`: one byte per
step), up to the NUL of each string; `Stops` takes the power, or the watchdog fires,
between any two. `Starts` is the read at the start with the defaults for a blank EEPROM.
`SetWifiAuth` keeps what `strncpy` does: a name of the buffer's length less one leaves the
last byte as it was, so that the string may not end. `Provisioned` saves what a client of
the access point sent, however long, and hangs for the watchdog.

`CommandLine` EXTENDS it with the line reader: `ReadsKey` and `ReadsEnd` are the two
branches of `CLI_task`'s loop, `Runs` is `command_received` and the handlers. A command
runs inside the call that read its line's end, so nothing is read while it saves. `Behind`
says what may lie behind the array `command`, which the NUL of a full line is written to;
both choices are explored. The user types on while a save is on.

| Run | Bounds | Shows |
|---|---|---|
| `cli` | a command array of 2 characters, places of 3 characters and a NUL, a name that is longer than its place, 2 characters waiting, all three line endings | `SavedIsRead`, `LineKept`, `LinesRun` |

Two characters make lines that are empty, that fit, that fill the array and that are too
long. Saves of different lengths follow each other and leave bytes behind their NULs,
which must not be read; a cut save leaves a mixture, for which `partial` excuses
`SavedIsRead` until the next whole one. The save that follows must be read whatever the
mixture was: that is what `SavedIsRead` is about.

Preconditions, each of them real: the terminal ends all lines the same way (`test` is
compared only at line ends, so a CR line followed by an LF line loses the second); names
and passwords have fewer than 30 characters (one of 30 is left without its NUL by
`strncpy` when the byte behind was not NUL, a provisioned one of more is written over the
next place). Characters typed while the program hangs for the watchdog are lost.

**Proved** (`CommandLine_proofs`), for strings, lines, buffers and arrays of every length,
any characters and any commands: `TypeCorrect`, `SavedIsReadBack`, `LinesKept` and
`LinesAreRun`. Two invariants carry them.

* `CredentialsInv`. `SavedIsRead` speaks of a start, which reads the EEPROM: what the
  EEPROM has must be known while the program is down, and what it is going to have while
  bytes are still to be written. `Wanted(c)` gives the bytes a whole save of `c` leaves
  and their places, which are disjoint (`WantedAt`); `Pending(c)` says that each byte left
  to write is one of them and each one not there yet is left to write; a write keeps it
  (`StillPends`), and with nothing left it is `Stored(c)`, from which `Starts` reads `c`
  back (`StringsBack`: up to the NUL, whatever is behind it).
* `LineInv`. The user's input, `Entered`, is cut into the part `X` that `CLI_task` has
  read of its line and the `Rest`; reading a character moves the cut. At the end of a line
  `X` is exactly the first line entered (`FirstLine`: no line has an end in it). Between
  the CR and the LF of an end the line was run already: `Mid` takes the LF out of `Rest`,
  and `Paired` says that no other LF can be mistaken for it. `Tested` keeps `endOfLineTest`
  from skipping the end of a line of a terminal that sends only LF.

`Entered` is put together by `FlattenSeq`, a recursion over the lines from the last to the
first, while lines are read from the first. `FlatHead` turns it round. The induction is
over a *set* of numbers (`NatInd`, from the library's theorem that a well-founded order
has minimal elements).

The proof found three things that the bounded run takes from its constants, now in
`CommandAssumption`: an empty line is no command (cli.c:297 compares it with the names of
`commands`, none of which is empty), `wifi` with one parameter has no password
(cli.c:181), and the NUL that `test` starts with is no end of a line.

## ExchangeBuffer, JsonReader, Messages (M/mqtt, src/main.c, src/json.c)

`ExchangeBuffer` is the ring of bytes under the MQTT client's packets, as operators on a
record; what the code's loops do byte by byte is said at once, for any place the ring
begins at. `JsonReader` is the search in a message's text, each loop a function of the
position it starts at, over characters by their codes with zero bytes behind the text; of
words, `t` and `f` stand for true and false. It also has what the reader is for: the text
of an object (`ObjectText`) and where its values are (`ValuePlace`), written from JSON and
not from the code.

`Messages` EXTENDS both: `Arrives(m)` is the arrival of a packet in the memory of the
exchange buffer (`CLOUD_task` receives into it), with `MQTT_CLIENT_receive`'s `uint8_t`
length, and `MQTT_GetReceivedData`, which copies the buffer onto itself; it may come
before the last packet was processed. `ReceptionHandler` is `mqttProcessPublish` with its
reads, the comparison of the topic, and `receivedFromCloud`. A topic longer than
`mqttTopic` stops the model (`pc = "overrun"`): what the code overwrites then is not
modelled. What the lights should be is said by the objects and not their text (`Wanted`).

| Run | Bounds | Shows |
|---|---|---|
| `messages` | 2 packets; objects of up to 2 pairs with each kind of value and of key; spaced or not; lengths of one and two bytes | `Handed`, `Obeyed`, `KeysFound` |
| `messages_long` | the same | *violated*: `SupportedHanded`. A PUBLISH whose remaining length takes two bytes has the second one read as the topic's length |
| `messages_signed` | the same | *violated*: `EveryKeyFound`. A key behind a number with a sign is not found |

The properties of `messages` have a part for every message and one for those that the two
violations leave alone. `Obeyed`: a processed message, whatever its length, leaves each
light as it was or sets it to the boolean it has for the light's key; it does set it when
its length takes one byte and no number with a sign stands before the key (`Readable`).
`KeysFound`: what the search finds for a key is the value of the pair with that key; it
does find it when the key is `Readable`. That a supported payload is handed on whatever its
length, and that each key is found whatever stands before it, is what mqtt_config.h and the
comments of json.c say, and the two violated runs show that it is not so.

A byte has six bits there (`LengthBase` = 32 for 128), which makes the long messages short
enough to enumerate: of 31 bytes and less, of more, and of more than a `uint8_t` counts.
Two packets are enough for one to replace another in the buffer and for a state set by one
to be left by the next. The keys are "red" and "yellow" by their first letters, one more
key that begins with "r", and a string value that quotes `"r":true`.

The pair a key names is the first with that key (`Found`). The search does not find it
behind a number with a sign: the loop that goes past a value stops at such a character
(json.c:83) and then wants a comma. A decimal point or a nested object stops it as well;
those are not among the values of `ObjectType`. A key that goes on
with an escaped quote behind the one that is sought would be cut in the wrong place
(json.c:71); the inputs have none. The texts have at least two zero bytes behind them, as
`mqttPayload` has for every text that a one-byte length allows.

**Proved** (`JsonReader_proofs`), for every object, spacing and key: `KeyFound`, where
`JSON_getValue` ends, and `BoolRead`, what `JSON_getBool` returns, against `Found` and
`Wanted`, which know neither of the text nor of what the search cannot read. Behind a number
with a sign `KeyFound` says that nothing is found, and `BoolRead` only that it is nothing
but the old value or the one of the key. An object is any sequence of pairs whose keys are
of letters and digits and whose values are booleans, other words or numbers, numbers with a
sign, or strings with any escapes (`ObjectType`). The argument is in three parts.

1. Each loop of the reader is a function that says a value at some places and looks ahead
   from the others. `ChainFound` and `ChainEnds` say of all such functions that they have
   the value of the first place of the one kind that the way leads to, and end when every
   step goes forwards; `JSON_findQuote`, `next`, the end of a word and the search itself
   are instances.
2. The text of an object is a concatenation of many parts (`Pairs`), and `Part` says which
   of them stands where. `PlaceOfValue` gives every character of the pair at a place:
   spaces, quotes, key, colon, value, and the comma or brace behind it (`Chars`).
3. `PairSearched` follows one round of the search through these characters, for a key that
   is sought, one that only begins like it and one that does not, and a value of each kind;
   in a string the quotes that are escaped are not seen (`StringEnds`). `ObjectSearched`
   goes from pair to pair, by induction over those that are left.

**Proved** (`Messages_proofs`), for buffers of any size, any content and any place the ring
begins at: `WriteAppends` (a write appends what there is room for) and `ReadTakes` (a read
takes bytes from the front and leaves the rest in order), over lemmas about locations
around the ring. Over them, from `MessagesAssumption` and `WordsAssumption` alone:

* `TextHanded`, that is `Handed` for buffers, topics and texts of any size;
* `LightsObey`, that is `Obeyed` for messages of every length, and
* `KeysAreFound`, that is `KeysFound`, from `KeyFound`.

The invariant `IInv` says that the buffer is one, `Handed`, and `Packet`: while
there is something in the buffer, it is what was sent of the packet that came last
(`Sent`), as many of its bytes as a `uint8_t` says. That needs the buffer to be initialised
before it is copied onto itself. A short packet is sent whole; the lemmas follow the reads
of `mqttProcessPublish` one by one through it, four numbers, the topic, the text, and
`BoolRead` says what the two lights become. Of a longer packet `LongIgnored` shows why it
leaves the lights as they are. The second byte of its length, which is not zero, is read as
the high byte of the topic's length. Either the bytes go on to the last character of the
topic, which then stands one place behind the end of the real one, so the comparison fails
(or the program is lost in `mqttTopic`); or they end before it, and the text is empty.

The assumptions on the constants are those of the program: the topic is not empty and its
length fits in a byte, a buffer holds more than a byte can count, and the keys of the lights
are words.
