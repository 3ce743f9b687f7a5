# tool-libs in TLA+

A verification development for *tool-libs*, the C++ library for control
experiments on STM32 microcontrollers and on Linux. It holds TLA+ models of the
parts whose correctness depends on order, interleaving, failures or limits, TLC
configurations that check them on small instances, and TLAPS proofs of what
holds for every instance. Paths in this file are relative to the repository.

Contents: 1 inventory, 2 modules, 3 runs and bounds, 4 fairness, 5 proofs,
6 disagreements found, 7 what the models reach without a property, 8 what is not
modelled.

## 1 Inventory

| part | state | operations | who calls it |
|---|---|---|---|
| Queue (`utils/queue.h`) | a `Buffer`, `head`, `tail`, `len` | push, front, pop, drop, full, empty, getAt | every other part; on STM the main loop *and* interrupts |
| Scheduler and registries (`core/schedule.h`, `timed.h`, `evented.h`) | queue of Schedulables, `next` and `time` of each | schedule, run | the kernel, and tasks that schedule registries of events |
| Kernel (`core/kern.h`, `linux/hal.cpp`, `stm/hal.cpp`) | `time_`, `go`, `exitCode`, the registry of `every(...)` | tick, run, exit, idle | Linux: `idle()` ticks in the same thread; STM: SysTick interrupts the main loop |
| Experiment (`core/experiment.h`) | state, `alive`, `time_`, heartbeat, five registries | tick (state machine), handleFrame, setHeartbeatTimeout | the kernel every ms; frames; its callbacks go through the kernel's queue |
| I2C (`stm/i2c.cpp`) | request queue, slave requests, `active`, `deadline` | push, poll, start, complete, error | devices from the main loop and from callbacks; HAL interrupts |
| SPI (`stm/spi.cpp`) | request queue, `active` request and transfer, chip selects, mode | push, poll, start, complete, error | as I2C |
| UART (`stm/uart.cpp`) | two queues, deadline of the transmission, receive buffer | push, poll, pop, transmit and receive interrupts, error | the logger, Min, devices |
| CAN (`stm/can.cpp`) | three mailboxes, `tx.active`, two queues | push, tx/rx interrupts | CANopen Dispatch |
| CANopen (`comm/canopen.h`) | per device a queue of SDO requests and a deadline; a table of PDOs | read/w8/w16/w32, enablePDO, answers, PDOs | devices (`dev/mcDSA.h`); Dispatch::process after the CAN interrupt |
| Min, frames (`comm/min.h`, `frameregistry.h`, `series.h`) | receiver's state machine, queue of frames; handlers by id; an unpacker per series | Out::push, In::empty/pop, handle, unpack | Experiment, the application |
| streams (`core/streams.h`, `comm/bufferutils.h`, `line.h`) | queues of buffers, a stash | push, pop, split, tee, lines | everything that communicates |
| Linux backends (`linux/sys/*`) | queues over file descriptors | process, empty, push | Min, logger, CANopen |
| Logger (`core/logger.h`) | a buffer | mklog, flush | everybody |
| ODrive, BNO085 (`dev/*`) | command queue, alive; transaction queues, active, length of the next read | poll, requests, callbacks | the application |
| sensors (`dev/*`), encoder | the last reading, what the driver believes of the chip | requests and callbacks | the application |
| controllers (`ctrl/*`) | supporting points; a ring and its sum | getValue, operator() | the application |

What is hard in them:

* **Two flows of control without locks.** Nothing in the library disables
  interrupts. SysTick pushes into the queue that the main loop pops; drivers
  run the same `poll()` in the main loop and in interrupts.
* **Re-entry.** The callback of a finished I2C request or of a CANopen answer
  may make the next request, inside the function that is finishing the first.
* **Time.** Deadlines are compared with a clock that wraps (2^32 ms), that
  Experiment sets back to 0, and that other tasks delay.
* **Limits.** Queues of fixed size whose overflow is an assert in one place,
  ignored in another and the end of the program in a third.
* **Unreliable partners.** Frames are damaged, answers get lost or come late,
  buses fail in the middle of a transfer.

What makes each part correct: the queue is a FIFO and its counter agrees with its
indices; the kernel calls what is scheduled, once, in order, at the period's
grid; the Experiment calls INIT, run, STOP callbacks in that order and
announces a missed heartbeat, and no other; a driver serves every request once,
in order, and reports a transfer if and only if it happened; CANopen keeps one
request under way and the rest waiting in order, and device and node agree on
what a PDO says; Min delivers frames that were sent, and loses one for a damage;
streams, lines and series deliver what was sent once and in order; an answer goes
to its question; a sensor's driver is right about its chip.

`PROJECT.json` lists the components with their modules, and under "hazards" each
place where these can go wrong, with the properties that watch it.

## 2 Modules

```
RingQueue ── Queue ──(implements)── Fifo       Experiment ──(implements)── Callbacks
    │          └─ MCData                           └─ MCExperiment, ExperimentProofs
    ├── Kernel ── MCKernel, KernelProofs      Lemmas (of all proofs)
    └── Average

MCBuses    I2C · SPI · UART · Log (BusProofs)
MCDevices  CAN ── CANOpen (CANOpenProofs) · PDO · ODrive · BNO085 (DeviceProofs)
MCData     Queue · Curves · Angles · Average · ADS1115 · MAX31865 · Streams · Posix
           and all of MCSerial: Series (DataProofs) · Min · Lines (SerialProofs)
```

MCBuses, MCDevices and MCData instantiate several independent components, each
with variables of its own; in a behaviour one of them, `part`, is used and the
others stand still. So each has all its behaviours and no product of unrelated
states is explored. The first module in each line is extended, so that TLC
evaluates its assumptions; the modules that are instantiated have none.

**RingQueue, Queue, Fifo.** `RingQueue` has the operations of `Queue<T>` as
operators on a record of the code's members: `slot`, `size` and `len` of the
Buffer, the two indices and their modulus. `Queue` makes them actions of one
thread; the asserts are guards. `Fifo` is what users believe a queue to be.

**Kernel.** The main loop is one step for each access to the shared queue:
`PopLoad`, `PopDec`, `PopHead`, `PopRead` are the statements of `pop()`,
and `EvSlot`, `EvTail`, ... those of a `push` by a task that schedules a
registry of events. `reg` is the register of a read-modify-write. `TickBody` is
`Kernel::tick` with everything it calls: it schedules the due tasks, up to the
room in the queue, and exits with 127 if there was too little. `preempt` says
where a tick may come: "idle" only in `idle()` (Linux), "calls" also between
operations of the queue, "any" anywhere (STM). Signals and crashes end the
program on Linux. The history variables `pending` (calls scheduled and not yet
popped), `owed` and `since` are what the properties compare the ring with.

**Experiment, Callbacks.** `Tick` is `Experiment::tick`: state machine,
events, registries, heartbeat, clock, in the order of the code, with the
overflow of the kernel's queue (`Scheduled`). The queue is a sequence, which is
what `Queue` implements. `isr` chooses between the two platforms. `Callbacks` is
the promise to the application, in terms of the callback called last: INIT
callbacks, then the run's, then STOP.

**I2C, SPI, UART.** A driver is a record and its functions are operators on it,
because they nest: `_complete` calls the device, whose `push` calls `poll`,
which calls `_error` or `_startMaster`. An interrupt is one step. `push` in
the main loop is a step for each statement, and interrupts may come in between if
`env.preempt`. The HAL is external: a transfer starts if none is under way and
ends by its interrupts. In SPI there is no time, as `until()` of spi.cpp
returns a deadline that is not set; what counts is which chip is selected in which
mode. In UART time runs in fractions of a millisecond, because the deadline is
made of whole ones (integer division, uart.cpp:108) and bytes are not. What is
received comes byte by byte into `rx.buf` and is handed over when this is full or
the line falls idle; `HAL_UART_Abort` ends the reception along with the
transmission and discards what `rx.buf` has, for a receive error as for a deadline
that `push` finds passed.

**Log.** Messages are sequences of pieces with lengths; the sink is drained by an
interrupt or by the main loop that logs. `Spin` is the loop of `mklog`.

**CAN, CANOpen.** `CAN` has the driver's functions as operators on a record,
`CANOpen` adds a Device with its queue and deadline in the same record and has
the actions: the statements of `pushorqueue` and of the `push` functions below
it in the main loop, and answers, PDOs and empty mailboxes as interrupts.
Requests are numbered in the order they are made. As the reference manual does
not say which mailbox is transmitted first among messages of one identifier, any
busy one may be.

**PDO.** `enablePDO` as the writes it makes, the node (external) that carries
them out one after the other, registration, packing and unpacking bit by bit.
`seen` compares what was put into a PDO with what was taken out of it.

**ODrive.** `poll()` is a step per statement; the line takes and brings
messages at any time, and the drive may be dead. An answer is named after its
command, so that a wrong match is seen.

**BNO085.** Header, message, transactions and their queues; the sensor is
external and continues a message that was cut off by a short read.

**Min, Series, Lines, Streams, Posix.** What a serial connection is made of.
`Encoded` is `Out::push` and `byte` is `In::byte`, statement for statement, over
bytes. The CRC is an ideal one, any function that tells the bodies of sent frames
apart; a behaviour keeps the one it begins with. The line damages a frame in one
place: a byte lost, added or wrong. In Lines and Series a byte or a value is named
after its message and place; the sender of a series, pywisp, and with it how a
series is cut into frames, is external. Posix has the three Linux ports over a
kernel that takes part of a buffer, all or nothing.

**Curves, Angles, Average, ADS1115, MAX31865.** The bisection, turn by turn; the
unwrapping of positions with interrupts inside of `reset()`; ring and sum; and
what two drivers believe of their chips while a full bus discards requests. In
MAX31865 every statement of `temp()` and `clearFaults()` is a step, and the line
that forgets the fault bit (line 161) is two, a load and a store, between which the
interrupt of the bus may bring another resistance.

Conventions: history variables and bounds are marked in the declarations.
Definitions named as mutants are never used by a specification; they are
plausible mistakes in the definition that follows and are used to test that a
property can fail.

## 3 Runs and bounds

States are distinct states.

| run | states | checks | bounds |
|---|---|---|---|
| Kernel | 316 thousand | ring = scheduled calls, order and time of the calls, grid, spacing, dies only when full | tasks of 1, 2 and 3 ms, one that schedules 2 events, one that exits; 3 slots, so that a tick overflows; 7 ticks, longer than the common period 6 |
| KernelLive | 38 thousand | every task runs again and again; exit ends | 2 tasks, 2 slots, a clock that wraps at 4 so that there are infinitely many ticks |
| Experiment | 731 thousand | callback order, run times, run grid, deadline, no false alarm | one idle and one run callback of 2 ms, 2 INIT and 1 STOP callbacks, a further task; 6 slots, so that one tick fits and two late ones overflow; 2 late ticks, 4 ms per run (the clock restarts, so that runs repeat) |
| Buses | 770 thousand | I2C, SPI, UART, Log | below |
| Devices | 362 thousand | CANOpen, PDO, ODrive, BNO085 | below |
| Data | 1.2 million | Queue implements Fifo, Curves, Angles, Average, the sensors, Min, Series, Lines, Streams, Posix | below |
| KernelIsrLost, KernelWrap, ExperimentHeartbeat, ExperimentIdleBurst, I2CLate, BNOTransaction | – | section 6 | as small as the counterexample allows |

**Buses.** I2C has 3 requests, 2 slots and a deadline of 2 ms, the code's least.
The run joins the environments in which the driver keeps its promises: chained
requests without late answers, as a slave or not; the same with interrupts inside
of `push`, without a slave; late answers and a slave, without chained requests.
There no assert fails and the hardware works on the front of the queue
(`Sound`), requests are handed to the hardware in order, once and before they leave
the queue, and leave it when the hardware is done with them or their time is over,
not before (`InOrder`), devices are called back for what was transferred and for
nothing else (`CalledIffTransferred`), and requests wait at a free bus only after a
bus error, and a free bus listens (`FreeBus`). Outside of them: late answers with
chained requests are run I2CLate, where `InOrder` breaks as well, as the request that
the callback has started is dropped under way; late answers with interrupts inside of
`push` make the assert of `_error` fail; a slave with interrupts inside of `push` may
be addressed between the look at `active` and the start.

SPI has 4 requests of two devices in different modes and 2 slots: `SpiServed`.

UART transmits 3 buffers of 2 or 5 bytes at three bytes per millisecond: less than a
millisecond and more than one, and neither a whole number of them. 3 bytes come, and
2 fill `rx.buf`, so that it is filled, handed over by an idle line, and cut off.
Errors come in the first five milliseconds (`UartHorizon`), enough for both lengths,
their deadlines and a second attempt; after that time goes on only while a
transmission runs. Two exposures are run: everything but interrupts inside of `push`,
and these with transmissions that hang. What an exposure allows may happen and need
not, so that they contain the lesser ones. The theorems cover the combination that is
not run, a line that carries something while interrupts come inside of `push`. Receive
errors inside of `push` are excepted (`Exposed`); otherwise `UartTransmitted` and
`UartReceived` hold, and `UartReceived` promises every byte without interrupts inside
of `push` only.

The logger writes 3 messages, of which one, two or none fit into its buffer:
`LogHeard`. `AllGetsOut` is the liveness of the last three. Their constants are those
of MCBuses, whose values are in the configuration: the proofs are about all of them.

**Devices.** CANOpen has 3 requests, 1 of them waiting, 2 mailboxes and 1 slot
behind them, 3 other messages, which fill all of these so that a request is
discarded, and 4 ms: the deadline passes twice. The run joins
calm, other traffic, lost answers (with and without chained requests), late
answers, and interrupts inside of `pushorqueue`. `Accounted` holds in all of
them. The order in `Orderly` and `EveryRequestEnds` are about calm in which no request
was discarded, one request at a time is about answers that are not late, and
`Waits` and the asserts are about everything but interrupts inside of
`pushorqueue`. PDO has two nodes, two
PDO numbers and three objects of one or two bits, with integers of two bits.
ODrive has a queue of 2, as a dead drive is one that lets the queue fill up, and
4 requests; BNO085 two transactions of up to two operations, and messages of two
lengths. The constants of these three are those of MCDevices, whose values are in
the configuration.

**Data.** The queue has 3 slots, 2 values and any number of operations: head and
tail go round completely and the model is finite by itself. Curves: all tuples of up
to 4 points at 4 places, in any order and with jumps. Angles: a circle of 8 with the
thresholds in the proportion of the code's. Average: a filter of 3 and 7 values.
Min: 3 frames out of 3 payloads (none; two header bytes; a header, a stuff byte and
three headers), all assignments of 3 checksums full of header bytes, one damage
anywhere, two chunk sizes, a queue of one frame, so that frames are dropped. Series,
Lines, Streams and Posix: 3 messages (Streams 6), queues of 1 or 2 that overflow,
and every portioning. After a partial write TTY writes the whole message again, as
what it shifts is a copy (linux/sys/comm.h:53, 60-64), so that a terminal may be
sent the beginning of a message twice; `PosixInOrder` is about whole messages, which
are sent once. The constants are those of MCData, whose values are in the
configuration.

What the small numbers leave out: the code's queues have 20, 30 or 60 slots and
there are 3 mailboxes. Everything a queue's size decides (room or no room for the
next element) happens with 1 to 6 slots, and what section 5 lists is proved for every
size.

## 4 Fairness

Fairness is weak, and stated for single actions of the hardware and of the main
loop. In MCBuses and MCDevices each of them is fair while its part is the one that
is used.

* **KernelLive**: the steps of the main loop, `IdleTick` and `SysTick`: on STM the
  main loop goes on whenever no interrupt runs, on Linux `idle()` returns after
  its sleep. No task is assumed to end the program. `ExitEnds` is stated for a
  single thread only: on STM a tick may refill the queue before the main loop
  finds it empty, and `exit` does not stop `Scheduler::run`.
* **AllGetsOut**: a transfer of SPI and a transmission of UART that do not hang end
  by their interrupt, time passes while one runs, and the main loop goes on in
  `push`. Nobody is assumed to push again: what needs another push to get moving (a
  transmission that hangs, SPI after an error) is no promise. The queue of UART is
  empty again and again, or its hardware hangs; that time stops at `UartHorizon`
  does not help it, as a transmission goes on beyond. Errors end there: each of them
  makes the transmission start again, and no fairness says that they leave it the
  time. The logger's sink is drained if an interrupt does it.
* **NothingWaits**: the main loop goes on, the bus transmits what is in a mailbox
  (retransmission is on, `stm/can.cpp:89`), the node answers; the line takes what
  `poll()` of ODrive has put out; the transfers of BNO085 end, and `poll` of
  BNO085 is called again and again by the application. `EveryRequestEnds` is
  promised in calm only. Ticks are not fair: a queue must move on without them.

## 5 Proofs

TLAPS checks them for all values of the constants that satisfy the modules'
ASSUMEs, in eight modules. "theorems" in `PROJECT.json` lists the results.

* **KernelProofs, the clock.** `OnTheGrid` and `Spacing`, for every registry,
  queue size, and preemption. The inductive invariant `ClockInv` adds the equation
  `since[i] + next[i] = time + Dt[i]`, which ties the history of a task to its
  next time; without it Spacing does not follow. Only `TickBody` changes the
  clock (`StepKinds`). The hypothesis `NoWrap` says that neither the clock nor
  `next` wraps within the behaviour; run KernelWrap shows that it is needed.
* **KernelProofs, the queue.** `RingMatches`, `CalledInOrder`,
  `DiesOnlyWhenFull`, and that the main loop goes to sleep only when every
  scheduled call was made, `EmptyMeansAllCalled`. The hypothesis `OffTheQueue`
  lets ticks come anywhere but inside of an operation of the queue; run
  KernelIsrLost refutes `EmptyMeansAllCalled` without it. An operation takes
  several steps, so that `QueueInv` describes the ring in the middle of each:
  `RingPart` which slots hold `pending` while a `pop` or a `push` is half done,
  `StepPart` what the register of a read-modify-write holds, `CallPart` that the
  calls made and the pending ones are numbered without a gap, and `ValuePart` that
  the next call returns its oldest element. What a tick does to the ring is a recursive
  function over the registry; `FirstMembers` says which tasks it schedules when the
  queue has room for some only.
* **ExperimentProofs.** `ArmedDeadline` and `NoFalseTimeout` for every registry,
  queue and timeout: the invariant adds `Relative`, the deadline is at least
  `timeout` ticks after the last heartbeat, an inequality because a start sets the
  clock back and leaves the deadline. `Counts` is the hypothesis that the bounded
  history counter reaches the timeouts. The model's deadline is a natural number;
  the code's wraps. `TypeOK` bounds the queue for any number of late ticks.
  `RunOnTheGrid` is inductive with the types alone: a start sets
  the clock and the next times to 0, and a tick that schedules a callback moves it
  on by its period (`NextMultiple`). `CallbackOrder` is the refinement of
  `Callbacks`, step by step: `OrderInv` says that the callback called last and the
  callbacks in the queue form a chain in which each may follow the one before,
  and that the end of the chain fits the state. `RunTimes` and `NothingLost` are
  about a single thread: `SingleInv` and `TimesInv` say what the queue holds of
  each callback between two ticks and which time it will be given. Their
  hypothesis `Fits` is that the queue has room for what one tick can schedule.
* **BusProofs, I2C.** `Sound`, `InOrder`, `CalledIffTransferred` and `FreeBus` have
  the hypothesis that every environment is `Careful`: late answers, interrupts inside
  of `push`, chained requests and a slave, but not the pairs of them that run I2CLate
  and section 3 speak of. As the driver's functions nest, there is a lemma for each of
  them, from `TakenOff` up to `_complete`; a step is then the lemma of its handler.
  `CareInv` ties the driver's `active` to the hardware and to the front of the queue at
  each statement of `push`, and says where a deadline may pass. For `InOrder` it adds
  what was handed to the hardware (`Handed`: what is gone and, while a request is
  active, the front) and when the request under way may leave (`Spent`: the hardware
  is done with it, or its Delta is over).
* **BusProofs, SPI and UART.** `SpiServed`: the hardware works on the front, chip
  and mode are those of its device, and between the start and `active.xfer = true`
  nobody else polls; hypothesis: no environment both chains requests and
  interrupts `push`. `UartTransmitted`: outside of the statements of a start,
  `active` is what the hardware does, and a deadline lies less than a millisecond
  before the end of its buffer (`UartDeadline`, `UartElapsed`: the integer division of
  uart.cpp:108 rounds down, for all lengths and baud rates). `UartReceived` rests on
  it, as what a deadline may cost the reader is excused only in that millisecond. The
  buffers handed over and the one that is collected have no gaps and follow each other
  (`UartHeard`), the last of them reaches up to the last byte that came, and what
  came is in one of them or excused (`UartAllOf`): a byte more, a buffer handed over
  and one discarded keep it (`UartByte`, `UartHanded`, `UartLost`). Both hold for all
  four exposures together but for receive errors inside of `push`, which no run
  combines.
* **BusProofs, Log.** `LogHeard` for any messages, colors, buffer and sink: unless
  it is excused, what was heard, the pieces in the sink and those in buf are all
  that was said, in its order (`LogWhole`), and a BufferedLogger keeps room for
  the terminating zero. The number of characters in buf and the loop over the
  pieces of a message are recursive functions; `LogLoop` and `LengthIs` say what
  they return, piece by piece.
* **CANOpenProofs.** Four layers, each resting on those before. `Accounted`: every
  request made waits, was given to the controller once, or was discarded by a full
  sink; the strengthening is that nothing in a hand (of `pushorqueue`, of a
  callback) has been discarded, as otherwise the number of discarded requests need not
  grow when one is. `Waits` adds what the mailboxes and the deadline are at each
  statement (`CalmInv`). `Orderly` adds that one request is under way (`OneInv`) and
  that the requests under way, in a hand and waiting form one rising line
  (`LineInv`). The proof corrected a property: the order and
  `EveryRequestEnds` hold only as long as no request was discarded by a full
  queue, which the former bounds of the run did not reach; they do now.
* **DeviceProofs.** `ODriveMatched` for every size of queue and sink, period and
  any loss: while the drive lives, every question under way is the GET at the front
  of the queue, with at most an old one in front of a question for the voltage;
  a dead drive has an empty queue (`OdInv`). `BnoFetched` for every number of
  slots and operations, any message lengths, and whatever requests a full bus
  drops: each queue holds transactions in the order made (`BnoOrderly`), at most
  one record is read, or its end under way, for the transaction at the front
  (`BnoReads`), and who waits is waited for (`BnoAwake`). These hold in all
  environments; that a message is fetched whole (`BnoTold`, `BnoFetches`) needs what
  `BnoFetched` says: no overlapping polls, or messages of one length.
  `PdoUnderstood` for any nodes, numbers and maps: every PDO that was enabled has one
  block of writes in the wire, of which some are carried out already; nobody else
  writes to it, and its node is as far as these writes lead (`PdoStage`). So it is
  silent from the first write to the last, and then has the device's map. Dispatch
  cannot mix up ids because of the ranges of IDs and numbers (`PdoIdsDiffer`); with
  a fifth PDO they would meet the answers to SDOs. That the bits packed by a map are
  those unpacked by it is the assumption `PdoPacked` of MCDevices, which TLC
  evaluates for the maps of the run: powers of two and folds are beyond the
  provers.
* **DataProofs, the queue.** `TypeOK`, `IndicesAgree`, `OnlyLiveElements`, and that
  `Queue` implements `Fifo` with the refinement mapping `items <- Items(q)`. The
  inductive invariant `QueueInv` adds to the three that the slots of the live
  range hold elements: without that part nothing says that the value `pop()`
  returns is an element, and without IndicesAgree a push could overwrite a
  pending one. The work is in lemmas about positions modulo the size:
  `AtDistinct` (a push hits no live slot) and `AtNext` (dropping shifts every
  position by one), then `PushAppends` and `DropRemovesHead` say that the two
  operations are Append and Tail of `Items`.
* **DataProofs, the rest.** `CurveFound`: the points at the two ends of the
  bisection enclose x, and `steps` plus their distance does not exceed the number of
  points, for any number of points in any order. `SumsFollow`: the ring of the
  moving average holds the last N values and `total` is their sum, for which a value
  that is appended is added and one that leaves at the head is subtracted
  (`SumAppend`, `SumTail`); the encoder's wrapped difference is the movement because
  it differs by whole turns and is small (`Wrapped`); for AS5048B the invariant says
  by how many movements the angle may be off, and that after a reading of 0 the
  movement that may be lost next is counted already (`MagneticInv`). What it needs
  of the code's three numbers, 16384, 10000 and 1000, is `AnglesAssumption`.
  `SensorsRead`: requests wait in an order that leads the chip to what the driver
  believes, unless the last one was discarded (`AdsInv`); a config that clears
  faults is right behind the request that reads them, unless it was pushed alone,
  and the register of `clearFaults` holds the last resistance unless another came
  since it was loaded (`RtdInv`). `PosixInOrder` and `SameForBoth`: what was read,
  what waits and what is still in the source are the numbers from 1 on (`PxInv`,
  `StrInv`); the Sink of a Tee was given nothing that is still in the source.
* **DataProofs, series.** `SeriesWhole`: for every id with a handler, some of the
  series sent are returned, the unpacker is at its start or has the values of k frames
  of the next one, and the rest of that one and all the later ones are on the wire in
  this order (`SerOnItsWay`). Which values a frame carries is `SerCut`, for any size
  of a frame and of a series, which takes multiples of LEN (`SerBounds`).
* **SerialProofs, lines.** `LinesArrive` for any messages, stash and portions. The
  bytes in the wire and in the source follow each other (`LinPath`: the next one of
  its message, its newline, one more newline, or the next message's first), and
  from one byte to the next the stash holds what `Kept` says of the message's start
  and the lines that came are those of the messages before it (`LinState`,
  `LinDone`). A path may be cut anywhere (`LinPathConcat`), so that what `recv`
  does with one byte is all there is to prove.
* **SerialProofs, Min.** `UndamagedFramesArrive`: as long as the line does no
  damage, `OnlySentFrames` and `OneFrameLost` hold for every identifier, payload and
  checksum, whatever bytes they are made of. The receiver's place in the stream is
  the frame, the byte of it, and the header bytes seen (`MnPlace`); `MnFollows` says
  which byte leads from where to where, and `MnKnows` what In has of a frame then.
  `MnEncoded` is about Out: what it makes of a frame leads from its start to the
  start of the next one, whatever countdown the last frame left. `MnByteRead` is
  about In: a byte that leads to a place leaves In knowing what belongs there. The
  invariant (`MnInv`) says that what is on the line leads from In's place to the end
  of what was sent.

  `DamagedFramesAreWhole`: whatever the line makes of the bytes, In's buffers stay in
  their bounds and what it delivers is the identifier, the length and the payload that
  a checksum was made of (`Bounded` and `WholeFrames`, two of the three parts of
  `Sound`). The invariant (`MnSafe`) says what the CRC is over while a frame is read:
  one byte whose low six bits are the identifier, one that is the length, and the
  payload so far (`MnCarries`). A body with a checksum then is a frame's
  (`MnBodyKnown`).
* **Lemmas.** Remainders, rings of any size, numbered queues, `LeastNumber`, from
  which induction over the naturals is done by the least counterexample where a
  recursive function is to be reasoned about (`UpTo`), and what flattening sequences
  does, part by part (`SeqParts`, `Firsts`).

Only model-checked:

* liveness (`EveryTaskRuns`, `ExitEnds`, `AllGetsOut`, `NothingWaits`): fairness and
  ENABLED are out of the prover's reach;
* where the line does damage: that Min delivers frames only as they were sent and in
  that order (`OnlySentFrames`), loses no more than one for a damage (`OneFrameLost`),
  and fills no payload buffer (`in.ok` of `Sound`). These depend on the payloads: one
  that holds the bytes of a whole other frame is heard as that frame when the byte
  that stuffs the header in it is lost, and a receiver that was told a wrong length
  and misses the next header fills its payload buffer, which the code asserts
  against. The run has payloads of headers and stuffing bytes, and one damage
  anywhere.

## 6 Where the code and its comments disagree

Each is a run that TLC ends with a counterexample; "findings" in `PROJECT.json`
quotes the lines.

* **KernelIsrLost.** With SysTick between the load and the store of `len--` in
  `Queue::pop`, the `len++` of the tick is lost: the queue looks empty while a
  scheduled call is in it.
* **KernelWrap.** `next += dt` wraps one period before `time` does; from then
  on the task is due on every tick until the clock wraps too.
* **ExperimentIdleBurst.** The idle registry is reset when a run starts, not
  when it ends: after STOP an idle callback is called every millisecond until it
  has caught up.
* **ExperimentHeartbeat.** A start sets the clock back and leaves the deadline, so
  that a heartbeat armed after a long idle time covers the run only much later;
  and after a TIMEOUT nothing is armed for the next run.
* **I2CLate.** A request that completes after its deadline, whose callback pushes
  the next: `poll` finds the deadline passed, `_error` pops the completed
  request, the next one is started, and the `drop()` after the callback removes
  that one. Its transfer ends without a callback.
* **BNOTransaction.** `active` of a transaction is set with its first operation and
  never reset: the sensor's answers do not get the others out, and a transaction
  whose operations still wait is taken for finished.

## 7 What the models reach without a property

No comment or test says what is meant in these cases; each is noted at its hazard
in `PROJECT.json`, and the property there says what still holds.

* Experiment: a STOP and a START between two ticks leave no event; an `alive` frame
  after a TIMEOUT and before the next tick keeps the state RUN.
* UART: the deadline is rounded down to milliseconds, so that a transmission may be
  cut off in its last one; it is set after the start, and a completion in between
  makes it that of a dropped buffer. Whatever aborts a transmission discards the
  bytes received so far (uart.cpp:123, and from line 129), although the queue has
  room and no error hit them; the comment of line 139 speaks of a loss over a full
  queue only. With interrupts inside of `push` bytes may also come while the
  receiver is off, between lines 123 and 124.
* SPI: a completion between the start and `active.xfer = true` leaves the bus
  waiting until the next error or for ever, as there is no deadline.
* Logger: over a sink that only the main loop drains, a full sink is an endless loop.
* CANOpen: with lost answers or chained requests, requests go out of order; with
  interrupts inside of `pushorqueue` a request may wait without a deadline, a message
  behind free mailboxes, and the assert of `_tx_complete` may fail.
* PDO: a node that has a map of its own at first is taken apart with the wrong map
  until the writes are carried out; a value narrower than 32 bits comes without its
  sign (canopen.h:92).
* ODrive: a voltage asked for again before the first was answered makes the second
  answer fail an assert.
* BNO085: polls that overlap while messages have different lengths cut a message; a
  full bus drops what a transaction is to write.
* SplitPull: a side that nobody reads makes the other side's reads assert.
* MAX31865: a resistance of half the reference or more is negative; after one NAN
  `temp()` returns numbers again although the fault is there. Line 161 is a load and
  a store: a resistance that comes in between is overwritten by the one before, and
  with it a fault that `temp()` then does not tell, so that "NAN if sensor fault"
  (lines 84 and 97) holds only from the next resistance on. ADS1115: a config whose
  pointer request was discarded leaves the config register to be read as a voltage.
  AS5048B: a movement may be lost at a reading of 0 or inside of `reset()`.
* SmoothTrajectory without points reads beyond its buffer; the model has a point.

## 8 What is not modelled

* Copies of buffers, Later, bit streams and slices: sequential helpers, covered by
  the tests.
* Conversions of sensor values, interpolation polynomials and PID arithmetic: floating
  point. Only what decides between two points is modelled.
* Sensor drivers with one request and a conversion (AS5145, BMI160, HMC5883L,
  QMC5883L, MAX31855), and setters that write one request: no order or interleaving
  to get wrong beyond that of their bus.
* Register set-up, bit timing, clock and pin configuration, fault handlers, opening of
  sockets, the command line of the simulation.
* Min's `Host`, which forwards frames to the FrameRegistry, and the receive queue of
  CAN, which holds the one message that is handled at once.
* In Kernel, tasks that register others while the kernel runs.
* In I2C, SPI and CANOpen the operations of the queues are atomic (Kernel takes them
  apart), an abort is final, and the deadline is a constant.
* A composition of the Experiment with the ring of Kernel, and of CANOpen with several
  devices on one controller: each is checked against the interface of the other.
