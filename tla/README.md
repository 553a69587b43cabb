# A verification project for the Windows 2000 DDK driver samples

The repository is the sample tree of the Windows 2000 Driver Development Kit:
some 150 independent drivers, libraries, tools and setup files with no common
`main`. Each driver is a program of its own that runs inside the kernel's
driver framework; the samples do not call each other except along device
stacks (a filter above a port driver, a function driver above a bus driver).
What they share is a discipline: request packets (IRPs) that are queued,
started, cancelled, timed out and completed by threads, interrupts, deferred
procedures (DPCs) and timers that run concurrently under spin locks.

This project models that discipline in three drivers: where the repository
exercises it hardest, `src/kernel/serial` (serial.sys, the PC serial port
driver); in the function driver of `src/general/toaster`, the template that
every plug-and-play driver of the tree repeats with its own names; and in
`src/wdm/acpi/ec`, the ACPI embedded controller driver, which talks to a second
processor over a byte-wide port. The rest of the tree is listed below, with what
is worth modelling next and what never will be.

## Inventory

### The parts of the repository

| part | what it is | state it keeps | why it is hard |
|---|---|---|---|
| `kernel/serial` | 16550 serial port driver | read, write, mask and purge queues; reference bits per IRP; timers; typeahead ring; flow control; PnP and power state | ISR, DPCs, timers, cancellation, purge and PnP all race for the same IRP |
| `general/toaster` | PnP bus, function and filter drivers | PnP state, outstanding-I/O count, queue held while stopped | remove and stop racing I/O, power up racing a stop |
| `kernel/parport`, `kernel/parclass` | parallel port arbiter and its client | queue of port allocations, the client's thread and queue | allocation, select and cancel; thread termination |
| `kernel/serenum` | serial bus enumerator | children list, PnP state | enumeration racing removal |
| `kernel/mca`, `kernel/agp` | adapter detection, AGP bus filter | configuration tables | pure hardware access |
| `input/kbdclass`, `input/mouclass` | class drivers | input ring per device, read queue, enabled and trusted state | service callback at DPC level racing read, cancel and close |
| `input/pnpi8042`, `input/mouser`, `input/kbfiltr`, `input/moufiltr` | PS/2 and serial mouse ports, filters | command and reset state machines | resend and time-out protocols of the controller |
| `network/ndis` (`ne2000`, `e100bex`, `ffp`, `packet`, `passthru`, `atmsmple`, `tbatm155`) | NDIS miniports, protocol, intermediate driver | descriptor rings, packet pools, bindings | loopback, reset, bind and unbind, power |
| `network/irda`, `network/config`, `network/wshsmple` | IrDA miniports, notify objects, Winsock helper | link state; none | |
| `storage/class` (`classpnp`, `disk`, `cdrom`, `tape`) | storage class library and drivers | device and lock state, retries, power | remove locks, release queue, retry |
| `storage/fdc` | floppy controller and disk | controller state machine, allocation | time-outs, shared controller |
| `storage/filters` (`diskperf`, `addfilter`, `cdaudio`, `fpfilter`) | filters | counters, PnP state | counters updated on completion |
| `storage/miniport`, `storage/miniide`, `storage/tape`, `storage/changers` | SCSI miniports, tape and changer minidrivers | adapter mailboxes | single-threaded under the port driver |
| `smartcrd` | card readers | protocol state, cancel of a card wait | |
| `wdm/usb` (`bulkusb`, `isousb`), `wdm/1394`, `wdm/hid` | bus clients | pending-I/O counts, staged transfers, PnP and power | remove during I/O, selective resubmission |
| `wdm/acpi/ec` | ACPI embedded controller | command and query queues, state machine | interrupt and service loop |
| `wdm/audio`, `wdm/videocap`, `wdm/dvd`, `wdm/wmi`, `wdm/scancam`, `wdm/general` | streaming minidrivers and samples | stream queues | |
| `video` | display drivers and miniports | device state | hardware programming |
| `vdd`, `win_me`, `mdk`, `preview` | VDD samples, Windows Me and preview material | | |
| `print`, `ime`, `audio` (codecs), `setup`, `general` (tools) | user-mode DLLs, codecs, INF files, tools | tables, documents | |

### The serial driver

Its components, what each keeps and does, and what would make it correct:

* **Request queues** (`utils.c`). Four queues (read, write, mask, purge), each a
  list behind one *current* request; `SerialStartOrQueue`, `SerialGetNextIrp`,
  `SerialTryToCompleteCurrent`, `SerialRundownIrpRefs`, `SerialCancelQueued`,
  `SerialKillAllReadsOrWrites`. The current request is held open by reference
  bits (ISR, CANCEL, TOTAL, INT, XOFF) that an interrupt, a cancel routine and
  two timer DPCs drop. *Correct*: completed exactly once, by whoever drops the
  last bit; a lurking DPC finds the request it was meant for; nobody waits
  behind a free device; order kept.
* **Read path** (`read.c`, `SerialPutChar` in `isr.c`). Typeahead ring, the
  interrupt routine writing alternately to the ring and to the buffer of the
  current read; total and interval timers; resize. *Correct*: characters in
  order, none twice, none lost but by overrun or purge; no write to a buffer
  whose request is complete; a cancelled or timed read completes.
* **Write path** (`write.c`, `immediat.c`, `flush.c`, transmit half of `isr.c`).
  Write queue with writes, flushes and xoff counters, the immediate character,
  the count of queued characters. *Correct*: a flush completes when all before
  it is written; an xoff counter completes by count, time-out, cancel or the
  next write, once; every queued request is completed.
* **Wait on mask** (`waitmask.c`). One pending wait, event history shared with
  the interrupt routine. *Correct*: no event lost between two waits; one wait
  at a time.
* **Flow control** (`modmflow.c`). RTS, DTR, Xon/Xoff and their thresholds.
  *Correct*: a sender held off is let go again.
* **PnP and power** (`pnp.c`, `power.c`, `openclos.c`, `initunlo.c`).
  `PendingIRPCnt`, `DpcCount`, the stalled queue while a stop is pending,
  removal waiting for both counts. *Correct*: counts exact, no request left
  on the stalled queue, removal only when nothing is pending.
* **Purge and errors** (`purge.c`, `error.c`). Kill a queue, empty the ring.

They interact through the device extension under three locks (cancel spin lock,
control lock, the interrupt's own lock reached by `KeSynchronizeExecution`) and
through DPCs queued by the interrupt routine and by timers.

### The toaster function driver

One file, `toaster.C`, with a queue and a count under it:

* **The count** (`ToasterIoIncrement`, `ToasterIoDecrement`). `OutstandingIO` is
  one for the device and one for each thread inside; `StopEvent` says that it is
  one, `RemoveEvent` that it is zero. *Correct*: the device object outlives every
  thread that uses it; a stop or a removal waits for whoever is inside, and for
  nobody else.
* **The gate and the queue** (`ToasterReadWrite`, `ToasterQueueRequest`,
  `ToasterProcessQueuedRequests`, `ToasterCancelQueued`, `ToasterCleanup`). Requests
  wait in `NewRequestsQueue` while `QueueState` is *HoldRequests*. *Correct*: a
  queued request has one owner and is completed once; it is completed in the end.
* **Plug and play** (`ToasterDispatchPnp`). `DevicePnPState` with one step of memory,
  set and restored by queries and their cancels.

They interact through the device extension. The queue has a spin lock; the state
and the count have none, and the events are set after the count was changed.

### The embedded controller driver

* **The service loop** (`service.c`, and `AcpiEcReadWrite` and the GPE handler that
  call it). `WorkQueue`, `CurrentIrp`, the state machine `IoState` that remembers
  between two services what was sent last, `InService` and `InServiceLoop` that
  decide who owns it. *Correct*: the controller gets what it expects, byte by byte,
  whatever times out; every byte arrives; no edge of the GPE is lost.
* **Query events** (`query.c`). Two lists of pending events, through one array and
  through the entries of another; one pre-allocated request for control methods;
  handlers that other drivers connect and disconnect. *Correct*: the lists stay
  apart, every event reaches its handler or method, the one request is in use once.
* **Start, stop, unload** (`eclowio.c`, `ecpnp.c`). Set-up in sequence, and the unload
  protocol described under Deviations.

They interact through `EcData->Lock`: the loop reports events into the lists,
dispatches them when it ends, and so does the completion of a control method.

## How a request lives

The serial modules tell parts of one story. A request enters through a dispatch
routine and the gate (`SerialIRPPrologue`, SerialPnp). It is refused, or becomes
the current request of its queue, or waits behind it (`SerialStartOrQueue`). The
starter - the thread that made it current, or the thread or procedure that
completed its predecessor - owns it until it hands it to the interrupt routine
under `KeSynchronizeExecution`, sets its timers, gives it a cancel routine, and
adds one reference bit for each. From then on five parties compete to end it: the
interrupt routine through a DPC, two timers through theirs, cancellation, and a
kill or purge. Each calls `SerialTryToCompleteCurrent`, which takes the others'
work away as far as it can and drops its own bit; whoever drops the last one
completes the request and starts the next. Nobody may touch the request after.

## Plan

Done, in this order:

1. `IrpQueue`, `SerialRing`, `SerialRead` with their proofs, since the read path has
   the most parties and shares a buffer with the interrupt routine.
2. `SerialWrite`, `SerialWait`, `SerialPnp`, model-checked: the rest of the serial
   driver that starts, ends and counts requests.
3. `ToasterFunc` and its proofs: the count, the queue and the states of a
   plug-and-play driver.
4. `EcService` with `FifoServer` and their proofs, and `EcQuery`: two processors that
   talk over a port, and lists that change while they are being emptied.
5. `SerialPnpProofs`: the count of requests, the answers to queries, the wait of a
   removal and the exclusion of opens.
6. `SerialWaitProofs`: all that the runs check of events and waits but `WaitsEnd`, and
   that the mask queue implements `IrpQueue`.
7. `SerialWriteProofs`: all that the runs check of the write path but `RequestsEnd`, and
   that the write queue implements `IrpQueue`, as long as an xoff counter is handed over
   to a free `CurrentXoffIrp`.
8. `SerialReadProofs` again: what is given back, what a read is told, and the order of
   the characters (`ResourcesAccounted`, `InfoIsExact`, `StreamIntact`).
9. `EcQueryProofs`: the lists, the one request and the calls of handlers
   (`ListsMatch`, `OneRequest`, `CallsWhatIsConnected`).

What is left:

1. `SerialDpc`: `DpcCount` as the interlocked counter it is, the shared interrupt,
   and the drain of DPCs in `SerialClose` (`utils.c:1213-1450`,
   `openclos.c:742-785`); `SerialFlow`: RTS, DTR, Xon/Xoff, the thresholds of the
   ring and the transmitter that is held and kicked again (`modmflow.c`,
   `isr.c:715-1089`), composed with `SerialRing`.
2. Power and the wait-wake request beside `SerialPnp`; power beside `ToasterFunc`; the
   unload of the embedded controller beside both of its modules.
3. Other drivers, in this order: parport (allocation queue), kbdclass (input ring
   and read queue), the packet and passthru drivers, bulkusb.
4. Proofs: every safety and action property of a run has a theorem; what the abstract
   queues promise on their own (`IrpQueue`, `FifoServer`: each request once, in which
   order) is still to be stated and carried over the refinements.

## Modules

| module | models | EXTENDS / INSTANCE |
|---|---|---|
| `IrpQueue` | what a request queue of the serial driver promises; abstract | SequencesExt |
| `SerialRing` | pointer arithmetic of the typeahead buffer, as pure operators | |
| `SerialRead` | reads, resizes, the receiving interrupt | `SerialRing`; implements `IrpQueue` |
| `SerialWrite` | writes, flushes, xoff counters, immediate characters, the transmitting interrupt | implements `IrpQueue` |
| `SerialWait` | the event mask and the wait request | implements `IrpQueue` |
| `SerialPnp` | open, close, the gate and the plug-and-play requests | |
| `ToasterFunc` | count, events, queue and plug and play of the function driver | |
| `FifoServer` | a queue served in the order of arrival; abstract | SequencesExt |
| `EcService` | the service loop and the controller it talks to | implements `FifoServer` |
| `EcQuery` | the query events, their lists and their dispatch | |
| `QueueLemmas`, `SerialReadProofs`, `SerialWriteProofs`, `SerialWaitProofs`, `SerialPnpProofs`, `ToasterFuncProofs`, `EcServiceProofs`, `EcQueryProofs` | theorems | the modules they are about, TLAPS |
| `MCSerialRead`, `MCSerialWrite`, `MCSerialWait`, `MCSerialPnp`, `MCToasterFunc`, `MCEcService`, `MCEcQuery` | instances for TLC: symmetry, sets of minor functions | one each |

`SerialRead`, `SerialWrite` and `SerialWait` share no state but the locks. Each
has its own copy of the queue helpers, written out for its slots, because the
driver passes the queue's fields by reference. The gate is `SerialPnp`'s alone:
the others begin where the prologue has admitted a request. `EcService` and
`EcQuery` meet at `ProcessQuery`: an answer that is an event is a `Report` there, the
end of the loop a `StartDispatch`.

### What one action is

The serial driver has four kinds of atomicity, and an action is one stretch of
it: a critical section of the cancel spin lock (most actions), one of the control
lock, one run of the interrupt routine or of a function called through
`KeSynchronizeExecution`, or one interlocked operation. A thread that leaves a
critical section with work to do has a program counter (`pc`), and anything may
happen before its next action. `Workers` stands for threads and processors
alike: a DPC begins on an idle worker. Where a lock is held across several
actions the model has it as a condition (`ControlLockFree`, `openMutex`,
`cancelLock`).

In the other two drivers an action is a section under the one lock (`QueueLock`,
`EcData->Lock`), an interlocked operation, the setting of an event, or one exchange
with a port of the controller.

### State and actions: SerialRead

| state | code |
|---|---|
| `queue`, `current` | `ReadQueue`, `CurrentReadIrp` |
| `refs`, `routine`, `cancelled` | `SERIAL_REFERENCE_COUNT` bits, `CancelRoutine`, `Cancel` |
| `ring`, `base` | `InterruptReadBuffer` with its pointers; `ReadBufferBase` |
| `needed`, `countOnLast`, `readByIsr` | `NumberNeededForRead`, `CountOnLastRead`, `ReadByIsr` |
| `armed`, `dpcs`, `dpcCount` | timers set, DPCs queued, `DpcCount` |
| `pc`, `inDpc`, `copied`, `mode` | the threads and the starter's locals |
| `arrived`, `delivered`, `lost`, `skewed` | history, for the properties only |

`Read`, `SetQueueSize`: the dispatch routines. `ResizeBuffer`, `CopyFromRing`,
`ReturnWhatIsPresent`, `CancelledAtStart`, `SwitchToUser`, `GetNextIrp`: the
stretches of `SerialStartRead` and `SerialGetNextIrp`. `PutChar`: a received
character. `CompleteRead`, `ReadTimeout`, `IntervalReadTimeout`, `TimerExpires`:
DPCs and the kernel's timer. `IoCancelIrp`, `StartKill`, `KillQueued`,
`KillCurrent`, `PurgeInterruptBuff`: cancellation, `SerialKillAllReadsOrWrites`
and purge. A character is its number in the order of arrival.

### SerialWrite

`queue`, `current`, `xoff`, `immediate` are `WriteQueue` and the three slots;
`writeLength`, `transmitImmediate`, `countSinceXoff` what the interrupt routine
works on; `totalChars` is `TotalCharsQueued`, `completeCurrent` the parameter
`CompleteCurrent` of `SerialGetNextWrite`. `Write`, `Flush`, `XoffCounter`,
`ImmediateChar` arrive; `StopCounter` and `GiveWriteToIsr` are `SerialStartWrite`;
`DiscountWrite`, `HandOverXoff` and `GetNextIrp` are `SerialGetNextWrite`;
`StartImmediate` and `GetNextImmediate` are `immediat.c`; `SendImmediate`,
`SendWrite` and `CountChar` are the interrupt; the six DPCs have their names.
Flow control is the freedom of `SendWrite` and `SendImmediate` not to happen.

### SerialWait

`wait` is `CurrentWaitIrp`, `irpMaskLocation` the request whose buffer the
interrupt routine may write to, `isrWaitMask` and `historyMask` the two masks,
`cancelLock` the lock when the clean-up of finding *wait_cleanup* has kept it.
`SetWaitMask`, `TestWait`, `CancelledWait` and `BeginWait` are `SerialStartMask`,
`Event` an interrupt or control DPC that raises events.

### SerialPnp

Each request has a thread (`pc`); `manager`, `minor` and `step` are the
plug-and-play manager and how far its current request has come. `accept`,
`pnpState`, `pendingIRPCnt`, `pendingIRPEvent`, `stalled`, `openMutex`,
`openCount`, `deviceIsOpened`, `ring`, `connected` are the extension's fields.
The manager's rules (`Legal`) are those of the PnP manager, not of the
repository: a query before a stop or an agreed removal, a removal after a
surprise when the files are closed. `Drain` and `DrainBase` are the two decrements
before the wait, so that an epilogue may come between them. `Verdict` leaves out the
refusal of everything by a port whose hardware was found broken at a close
(`utils.c:1025`).

### ToasterFunc

`pc` says where each request's thread is, and the plug-and-play manager's; a
request that was queued is `done` for its thread and completed by another, which
`completions` counts. `queue` is `NewRequestsQueue` as a set, `routine` the entries
that have a cancel routine, `canceller` how far `IoCancelIrp` has come with each
(flag, routine taken, over), `doomed` the list of cancelled requests that a cleanup
or the plug-and-play thread has on its stack. `Increment` and `ClearStopEvent` are
`ToasterIoIncrement`; `Decrement`, `SetStopEvent`, `SetRemoveEvent` are
`ToasterIoDecrement`; `Gate`, `Work`, `QueueRequest`, `SweepQueue`, `FlushCleanup`,
`CancelQueued`, `ProcessQueued`, `FinishPnp` the routines they are named for; one action
for each minor function. `late` (what had happened before a request was queued)
and `overtaken` (an event set after the count had risen again) are history.

### EcService

`workQueue`, `currentIrp`, `ioState`, `ioRemain`, `ioByte` (for `IoAddress` and
`IoBuffer`, which move together) are the extension's fields; `calls` are threads about
to call `AcpiEcServiceDevice`; `inService`, `inServiceLoop` and `interruptEnabled` its
ownership. `pc` and the variables after it are the locals of `AcpiEcServiceIoLoop`;
`Turn` is the head of its loop, where a stall without work times out, ends burst mode,
clears the GPE and gives up, in that order over several turns. `TakeOutput`, `Wait`,
`NextByte`, `SendAddress`, `WriteByte`, `Initiate` are the cases of its switch. The
controller is external: `EcTake`, `EcAnswer`, `EcRaiseEvent`, `EcDropBurst` do what the
driver expects of it, and nothing says when. A transfer's k-th byte stands for its
address, its place in the buffer and its value, and `moved` records both ends. Data
nobody asked for, which the driver throws away and counts (`service.c:408`), does not
come from this controller: that is part of `InStep`.

### EcQuery

`querySet`, `queryType`, `queryMap`, the three list heads and `vectorTable` are the
extension's fields, `queryState` and `request` the one control method request. `Report`
is the service loop's, `TakeVector` to `AfterMethod` are `AcpiEcDispatchQueries` on the
loop's thread or on the one a completion runs on, `CompleteEarly` and `CompleteLate`
are `AcpiEcCompleteQueryMethod` before and after the call that sent the request has
returned. `Connect`, `ConnectFails` and `Disconnect` are `AcpiEcConnectHandler` and
`AcpiEcDisconnectHandler`, called from `acpiec.c`. `damage` names the first of three steps that lose track of a list; the
model stops there, because what follows reads entries that mean something else.

## Runs

Sizes are the distinct states TLC finds.

| run | instance | states | shows |
|---|---|---|---|
| `read_safety` | 2 requests, 2 workers, lengths 0, 1, 3, ring of 2 grown to 3, 3 characters, both timers / one character / immediate | 452 000 | reference protocol, counts of timers and pool, the stream of characters, what is reported, nothing written after completion; the queue refines `IrpQueue` |
| `read_liveness` | 2 requests, 2 workers, both timers | 66 000 | a cancelled or timed read ends |
| `write_safety` | a write of 3, FIFO of 2, an xoff counter, an immediate character, 2 workers | 513 000 | reference protocol on the three slots, totals, counts; the queue refines `IrpQueue` |
| `write_liveness` | a write of 1 or 2, a flush, an xoff counter of 1, 1 worker | 92 000 | nothing lost but flushes behind counters, a flush waits for writes, cancelled and timed requests end, and all end while characters flow |
| `wait` | 2 masks, 2 waits, 1 event, 2 workers of which one may clean up | 232 000 | no event missed or lost, cancelled and overtaken waits end; the queue refines `IrpQueue` |
| `pnp_remove` | 2 files, a read, a control request, every order of removals | 314 000 | count, quiet removal, one open |
| `pnp_liveness` | 1 file, 1 read, every order of query, cancel, stop, restart, removal | 56 000 | queries, everything ends |
| `toaster` | 1 file, 1 read, every order of all minor functions | 97 000 | one owner of a read, the count and its events, everything ends |
| `ec_query` | 3 numbers, 3 reports, 3 connects, table grown by 2, pool may fail | 459 000 | the lists, the one request, the handlers, nothing forgotten |
| `ec_service` | 2 requests of 2 bytes (3 are refused), 1 event, stall limits of 1 | 279 000 | in step, whole transfers, no wake-up lost; the queue refines `FifoServer` and is served |
| `read_cancelled_start`, `wait_cleanup` | small | | the two findings below |

### Bounds, and why they are enough

* *Two requests per queue* are a predecessor and a successor: all that one
  request's lurking DPC, timer or reference can hit. The order of three and
  more in the read queue follows from `ReadQueueIsIrpQueue`, which is proved for any
  number; the write queue has up to three.
* *Two workers* give every pair of concurrent sections. A third adds a third
  party between two steps of the first, which the interrupt, the timers and
  `IoCancelIrp` (which need no worker's program counter to move) already are; the
  reference protocol of the read path is proved for any number of workers.
  `write_liveness` is on one processor, where the interrupt, the timers and
  cancellation still come between any two steps; two of them with a flush besides
  are out of reach of the liveness check, and their safety is `write_safety`'s.
* `MaxChars` (characters that arrive), `MaxPolls` (interval timer runs) bound
  counters that the driver does not bound. Three characters wrap a ring of two,
  overrun it, and fill one of three. A FIFO of two with a write of three has a
  full and a partial fill.
* Each request is sent once; its slot in the model could be reused, but nothing
  of a completed request stays in any slot (`ReferenceProtocol`).
* `toaster` has one read; with two (3.5 million states, too many to check liveness in
  a run of a few minutes) the safety properties hold as well, and they are proved for
  any number of files and reads.
* `ec_query`: numbers run from 1 to 3 (number 0, which the driver treats as none, is
  left out), the table grows by two to its full size of four, where its size wraps
  to 0. Three numbers make a list with a head, a middle and a tail.
* `ec_service`: two bytes are a first and a last one, with an address and a command
  between them; a stall limit of one is passed by a single slow answer, so that every
  wait of the loop may time out. The safety properties are proved for all lengths,
  limits and numbers of events.
* Deadlock is not checked in any run: the requests are finite, and a driver with
  nothing left to do has stopped rightly. Whether something stopped wrongly is
  what the liveness properties say.
* Symmetry is used in `read_safety` and `write_safety`, which have no liveness
  properties (`QueueSpec` constrains steps only), and only over requests of a kind
  and workers.

### Fairness

`FairSpec` in each module assumes that processors run: a thread that has begun a
kernel routine at raised IRQL goes on (weak fairness of each worker's next
step); a DPC that is queued runs when some worker is idle again and again
(strong fairness per DPC, because DPCs preempt threads and the model makes them
take a worker); a set timer expires (weak fairness). `SerialPnp` assumes that
`OpenMutex` is given to each of its waiters in the end (strong fairness of
`LockOpen` and the queries; the kernel's mutex serves its waiters in order).
Nothing is assumed of the line: no character need ever arrive or leave, and no
request need be sent, cancelled or closed. The part of `RequestsEnd` that is about
the transmitter states its fairness (`Flowing`) as an antecedent.

In `ToasterFunc` every thread that is inside the driver goes on (weak fairness of
each request's thread, of each cancellation and of the manager's thread). In `EcQuery`
the loop dispatches what it has read, the control method is completed, handlers
return. In `EcService` the loop runs, a caller enters it, a latched GPE that is
enabled is delivered, and the controller takes what it is sent and answers it, at
any time: that it answers within the loop's patience is not assumed.

## Proofs

Eight modules hold theorems, and `QueueLemmas` lemmas about what the list operations do
to places in a queue. Each theorem holds for every value of the constants that satisfies the module's assumption, of which TLC evaluates the instance's case in
every run: `BoundsAssumption` (sizes are natural numbers, `None` is no request),
`WriteAssumption` (the four kinds of requests are different, the FIFO takes a character),
`WaitAssumption` (the two kinds of requests are different, `None` is neither),
`ThreadsAssumption` and `PnpAssumption` (finitely many requests, whose number is
counted), `SizesAssumption` (the range of a UCHAR is a multiple of the chunk the vector
table grows by, and a chunk is more than the entry 0 that ends the lists; the code has
256 and 4).

| module | theorem | says |
|---|---|---|
| `SerialReadProofs` | `TypeCorrect` | `Spec => []TypeOK` |
| | `ProtocolIsKept` | `ReferenceProtocol`: one starter, exact references, one completion |
| | `CompletedIsLeftAlone` | no step writes to the buffer count, status or information of a completed request |
| | `NothingIsLeaked` | `ResourcesAccounted`: the block of a resize, and `DpcCount` |
| | `ReadsAreToldExactly` | `InfoIsExact`: as many as are in the buffer, none when cancelled |
| | `StreamIsKept` | `StreamIntact`: the order of the characters, and none twice or lost unseen |
| | `ReadQueueIsIrpQueue` | the read path implements `IrpQueue` |
| `SerialWriteProofs` | `WriteProtocolIsKept` | `ReferenceProtocol` of writes, counters and immediate characters (1) |
| | `WritesAreReachable` | `NoneLost`: an open request is in the queue or a slot (1) |
| | `CharactersAreAccounted` | `CharactersAccounted`: `TotalCharsQueued`, and what a request is told (1) |
| | `CounterEndsBeforeWrite` | `CounterEndsAtWrite` (1) |
| | `FlushesWait` | `FlushWaitsForWrites` (1) |
| | `WriteQueueIsIrpQueue` | the write queue implements `IrpQueue` (1) |
| | `OneCounterFindsSlotFree` | with one xoff counter, (1) holds of every behaviour |
| `SerialWaitProofs` | `WaitProtocolIsKept` | `ReferenceProtocol`: one starter, exact references, one completion |
| | `EventsAreDelivered` | `EventsArrive`: no event is missed, none reported as a cancellation |
| | `MaskQueueIsIrpQueue` | the mask queue implements `IrpQueue` |
| `SerialPnpProofs` | `GateIsCounted` | `GateIsKept`: `PendingIRPCnt` is exact, whatever is sent |
| | `QueriesAreKept` | `QueriedIsUnopened`: a device that agreed to go is not opened |
| | `RemovalWaitsForAll` | `RemovedIsQuiet`, for a device that is not asked to stop |
| | `OpenCountExcludes` | `OpensExclude`, for a device that is not asked to stop |
| `ToasterFuncProofs` | `ReadsHaveOneOwner` | `QueueProtocol`: one owner of a queued read, one completion |
| | `CountProtectsDevice` | `CountProtects`: the count is exact and keeps the device object |
| | `StopEventIsTrue` | `StopEventTruth`: what a signaled `StopEvent` means |
| `EcServiceProofs` | `DriverAndControllerInStep` | `InStep`: the controller gets what it expects |
| | `WakeupsAreKept` | `NoLostWakeup`: somebody will serve what there is to do |
| | `TransfersAreWhole` | `WholeTransfers`: each byte once, in order, to its place |
| | `ServiceImplementsFifo` | every step is a step of `FifoServer` or a stutter |
| `EcQueryProofs` | `QueryListsMatch` | `ListsMatch`: three lists in two arrays, exact until one is lost |
| | `QueryRequestIsOne` | `OneRequest`: sent when it is back, by one thread at a time |
| | `QueryCallsConnected` | `CallsWhatIsConnected`: a handler is called for its own number |

(1) As long as no xoff counter is handed over to a `CurrentXoffIrp` that is taken: these
theorems read `Spec /\ [][SlotFree]_vars => ...`, and the last one says when the
hypothesis is true.

None of these properties is inductive. Each module has an inductive invariant
`IInv`, one lemma per action or group of actions for `IInv /\ [Next]_vars => IInv'`,
and the properties follow from it.

*The read path.* `IInv == TypeOK /\ Bookkeeping /\ ReferenceProtocol`. That a worker at
`getnext` completes a request once needs that it is not queued as well; that a
timer's DPC finds a current read needs the references behind it. `Bookkeeping` adds
that the queue holds no request twice and not the current one, that waiting requests
are open, that only the current request has references, and what the starter's
locals mean between its steps. The five actions that end in
`SerialTryToCompleteCurrent` share `TryToCompleteStep`, and `GetNextIrpStep` is the
hand-over to the successor. `IInv` gives the action property and, with the mapping
`pending <- queue, active <- current, done <- completed`, step simulation of
`IrpQueue`.

The other three properties have parts of an invariant of their own, each inductive on
top of `IInv`. `StepKinds` first puts the step in the form they share: a step of the
starter, the loss of one reference (`DropsOne`, whoever loses it), a character, or
nothing that matters. `Pool` adds to `PoolAccounted` that a request has a status only
when it was served, and that a resize at `getnext` has been carried out. `Counts` adds that
only the worker about to complete a read still runs a procedure, which bounds the set
`DpcCount` counts. `Answers` says when the answer is ready: when the next request is
looked for, and, for a read that is held open without its buffer, as soon as the
buffer was taken back. `Stream` adds that the ring is empty while the interrupt
routine has the buffer of a read. Its proof is one equation per operation of the ring:
what was handed out followed by what waits is the same after a copy, a release, a
resize or a switch of buffers, and longer by the last character after a
`SerialPutChar`. The lemmas about the ring at the head of the module say what each
operation does to the characters in it: `SkipTakesTheFirst`, `ReleaseKeepsTheRest`,
`PutComesLast`, `ResizedHoldsTheSame`, and that each keeps pointers and count in step.

*The write path.* `IInv == TypeOK /\ Distinct /\ Places /\ Amounts /\ WriteSlot /\ Writer /\
XoffSlot /\ ImmediateSlot /\ CounterEndsAtWrite /\ Sending /\ Accounts`. There are three
slots with references of their own, and requests move between them: an xoff counter
starts as the current write and is handed over to `CurrentXoffIrp`. `Places` says where a
request of each kind may be, `Distinct` that no place has one twice; `WriteSlot`,
`XoffSlot` and `ImmediateSlot` are the reference protocol of each slot, and `Writer` and
`Amounts` say what the starter and the interrupt routine find. `Sending` ties `WriteLength`,
what the device was given and the length of the write together, without which the answer
of a write that times out is not exact. `Accounts` has `TotalCharsQueued` as the size of
the set of characters that wait, are current or immediate, and the lemmas about that set
say how it changes when a request comes, goes or moves. A counter that is handed over overwrites
the slot: SerialGetNextWrite asserts that it is free (write.c:543) and goes on if it is
not. `SlotFree` is that assertion. With two counters it can fail (see Deviations), and
then what was in the slot is lost to the protocol; with one it cannot.

*Events and waits.* The properties are nearly inductive; what they lack is where a
request is. `InPlace` says that an open request is in one place, which its cancel
routine tells - in the queue, current, or `CurrentWaitIrp` - and that only the last has
references. With it a starter that found no wait can make its request the wait
without looking again: only the starter makes one, and there is one starter. A
cancellation and the queued completion share `WaitStep`: the one that drops the last
reference ends the wait (`Ended`), the other leaves it (`LeftToDpc`). `Written` says
that a buffer with events is that of a wait whose completion is queued, so the
cancellation that could spoil its status is never the last. The refinement holds for
the queue alone: a wait is done with it in the step that hands the queue on.

*Open, close, plug and play.* `IInv == TypeOK /\ KindInv /\ MutexInv /\ QueryInv /\
ManagerInv /\ CountExact`. `InsideMoves` says how the number of requests inside changes
when one of them changes its label; with it each step of a request keeps the count
or changes it by the right amount (`MoveStep`), and each step of the plug-and-play
request accounts for what it adds (`PnpStep`). A query is answered under the mutex
that a create holds from its test of the state to its verdict (`MutexInv`), so none is
between the two. A second invariant, `RemovalsOnly`, is inductive on top of the first
when `query_stop` is not among the minor functions. Its part `RemovalInv` says that the
event of a removal is due only when the gate has been shut and nobody is inside: the
count reaches zero only for somebody who was the last in, after the base was taken
off, or after a surprise removal, when the gate is shut already (`LastInside`). Its part
`OpenInv` counts: `OpenCount` is the one create that found it at zero, for as long as its
count has not been given back, and the creates that are being denied. With a stop in
between neither holds: the stale event described under Deviations ends a wait early,
and a restart that takes the device for closed lets the next stop be agreed to while a
close is on its way, which is then stalled and gives its count back twice.

*The toaster function driver.* `KindInv` says which thread may be where; `ReadInv` and
`ListInv` that the place of a read tells whether it was completed, and that a read
waiting to be is held by exactly one of the queue, its cancel routine and the list of
one thread; `FileInv` the order in which the I/O manager sends the requests of a file,
so that a removal meets none that will still come in; `ZeroInv` that the count reaches
zero once, so that one thread sets `RemoveEvent`, once.

*The embedded controller.* `IInv == TypeOK /\ PhaseInv /\ OwnerInv /\ QueueInv /\ WakeInv`.
`PhaseInv` lists, for each `IoState`, where the command or byte that the driver sent last
may be: still to be written, in the input buffer, taken by the controller, or
answered in the output buffer. Nothing else is possible, whatever times out, because
the driver changes its state in the step that writes, and the controller's own moves
lead from each phase to the next. `WakeInv` says what whoever leaves the service may
rely on. The refinement maps `WorkQueue` with `CurrentIrp` before it to one queue.

*Query events.* `IInv == TypeOK /\ Threads /\ (damage = "none" => ListsKept) /\
(damage # "none" => ~(EntriesAreOwned /\ PendingIsListed))`. What the runs check of a list
is what a walk along it meets, which says nothing of how a push or an unlink changes
it; `ListsKept` says instead that a function tells of each element how many come after
it (`IsList`), and `PushKeepsList`, `PopKeepsList`, `UnlinkKeepsList` and `SameList` give
that function after each change. `ListIsWalked` leads back: the walk meets the elements
one after the other and, there being no more of them than numbers (pigeonhole), ends.
It is the one place that needs induction, over the length of the walk; the library's
induction theorems cannot be used, so `UpTo` takes a smallest counterexample, by the
well-foundedness of the subset order on finite sets. An entry is in one list because
`Owned` says whose it is: the entry of a connected number holds that number, so two
numbers never share one. That the table grows only when there is room, in a size that
wraps to 0 when it is full (`TableNotFull`, `RoomForChunk`), is a count: with no spare
entry and a number not yet connected there are fewer entries than numbers. The other
direction of `ListsMatch`, that each of the three steps of `damage` does lose something,
needs no induction: `LostByConnect`, `LostByDisconnect` and `LostByAllocation` name the
element that is in a list it should not be in, or the count that is off by one.

What stays model-checked: liveness everywhere (`RequestsEnd`, `PnpEnds`, `WaitsEnd`,
`EventsAreDispatched` and the like, the fairness of `FifoServer`), which needs `ENABLED`;
and the two runs that show a deviation.
## Deviations

Where the code does not do what its comments and assertions say. The first two
are shown by runs:

* `read_cancelled_start` (`read.c:507`): a read cancelled between the two looks
  of `SerialStartRead` at the ring leaves `CharsInInterruptBuffer` too high.
  `StreamIntact` excludes what follows by the history variable `skewed`.
* `wait_cleanup` (`initunlo.c:834`): a clean-up that meets a wait without a cancel
  routine keeps the cancel spin lock. `WaitsEnd` excludes it by `LockFree`.

The others were found with the same modules; the properties that pass are stated
around them. In the serial driver:

* A flush queued behind an xoff counter is taken off its queue and never completed
  (`write.c:600`): `NoneLost` and `RequestsEnd` exclude it by `dropped`.
* A close that meets a create which is being denied sees an open count above one and
  does not close the device (`openclos.c:510`, where the count is asserted to be
  one): `CloseRefused` in `OpensExclude` says that nothing else makes it fail.
* Two xoff counters in a row on two processors: the second is handed over while
  the first waits for `SerialCompleteXoff`, and overwrites `CurrentXoffIrp`
  (`write.c:606`; `write.c:543` asserts that there is none). The runs have one
  xoff counter.
* An xoff counter may be completed while it is still `CurrentWriteIrp`
  (`write.c:645`), and a kill then sets the `Cancel` flag of a completed request
  (`utils.c:128`). `HandedOver` in the write path's `ReferenceProtocol`.
* `SerialKillPendingIrps` looks at neither `CurrentImmediateIrp` nor
  `CurrentXoffIrp` (`initunlo.c:801`).
* `TotalCharsQueued` stays too high when a request is refused as cancelled by
  `SerialStartOrQueue` (`utils.c:684`) or `SerialStartImmediate`
  (`immediat.c:160`). The term `forgotten` of `CharactersAccounted`.
* A request stalled while a stop is prepared is also completed by its caller,
  because the filter's `STATUS_PENDING` is taken for a refusal (`utils.c:1082`,
  `openclos.c:133`); after the restart it is dispatched and completed again.
* Only `SERIAL_PNPACCEPT_STOPPING` stalls: a create that passed the test of
  `PNPState` earlier is admitted to a stopped device (`utils.c:1050`), though
  `pnp.c:992` says that everything will be queued.
* A request that comes and goes while a stop has the count at zero leaves
  `PendingIRPEvent` signaled (`utils.c:1207`), and a later surprise removal does
  not wait. `RemovedIsQuiet` is checked for devices that were not stopped.
* A surprise removal takes itself off the count twice (`pnp.c:1188`, and the
  epilogue of `SerialIoCallDriver` at `pnp.c:1216`): the term `Missing` of
  `GateIsKept`. The removal that follows reaches -1 and can wait for ever:
  `Indebted` in `PnpEnds`.
* A read admitted before a surprise removal and queued after the kill stays
  (`pnp.c:1178`), and the removal waits for it; so does a stop or a removal for a
  read through a file that was opened after the stop had been agreed to:
  `WaitsForRead` in `PnpEnds`.
* On two processors a wait that follows a change of the mask may be refused as
  invalid, because the previous one waits for its DPC (`waitmask.c:184`).

In the toaster function driver:

* `StopEvent` is in the device extension and is set after the count was taken down,
  by a thread that nobody waits for any more: a removal may have deleted the device
  object (`toaster.C:2145`). `CountProtects` allows this one step.
* The event may be set after the count has risen again (`toaster.C:2094`, `2135`):
  signaled with a request inside. `StopEventTruth` allows it as `overtaken`.
* `QueueState` is looked at before the request counts itself (`toaster.C:984`), so
  that one may enter the hardware path of a device that has been stopped; and a
  request may be queued after the queue was emptied, after its cancellation looked for
  it, or after its file's cleanup (`toaster.C:1546`, `1559`). It then waits for the next
  time the queue is emptied. `Excused` in `RequestsEnd` names these and no others.
* `QueueState` *FailRequests* is not tested by `ToasterReadWrite`.

In the embedded controller driver:

* A number that is pending as a query and becomes a vector is searched for behind
  the head of its list and taken for pending by the value of its link
  (`query.c:502-514`): at the head or the tail it stays in a list whose links then
  mean something else. `ListsMatch` is broken exactly then (`damage = "connect"`).
* Without memory for the table a caller is refused after `QueryType` was set
  (`query.c:462-478`; `damage = "allocate"`).
* A pending vector that heads its list is not taken out when its handler is
  disconnected (`query.c:613-622`; `damage = "disconnect"`).
* The handler is called after the lock was let go (`query.c:279`): a driver whose
  disconnect has returned may still be called.
* `AcpiEcUnload` waits for the state `EC_DEVICE_UNLOAD_COMPLETE` (`acpiec.c:176`), but the
  last state the driver sets is `EC_DEVICE_UNLOAD_CANCEL_TIMER` (`query.c:392`), and
  its event is never signaled.

## What is not modelled

* Flow control, error characters, null stripping, break, modem status: planned as
  `SerialFlow`. What it does to the modelled part is nondeterminism: the
  transmitter may be held at any time.
* `DpcCount` outside `SerialRead`, the drain in close, the events of
  `SerialProcessEmptyTransmit`, the purge queue (a purge is atomic for its one
  starter), power and wait-wake, multiport cards, resource assignment, registry,
  WMI, logging.
* Data beyond order and counts: baud rates, time values, buffer addresses.
* In the toaster function driver: `AddDevice`, power (`POWER.C`), WMI, the interface and
  capability requests, which are counted like the others; the bus and filter drivers.
* In the embedded controller driver: start and stop, the unload protocol, the
  operation region handler (a caller of `AcpiEcReadWrite`), watchdog times.
* Every other driver of the tree; the table above and the plan say which will
  follow and which hold no concurrent state of their own.
