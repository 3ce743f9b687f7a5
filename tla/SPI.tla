-------------------------------- MODULE SPI --------------------------------
(***************************************************************************)
(* stm/spi.cpp: the interrupt driven SPI bus.  Requests of several devices *)
(* wait in a queue; for each of them the driver switches the bus to the    *)
(* device's mode, selects its chip, transfers, and calls the device back.  *)
(* As in I2C, poll and _startMaster run in the main loop (through push)    *)
(* and in the interrupt (through _complete), and a callback may push.      *)
(*                                                                         *)
(* until() returns a deadline that is not set (lines 9-11), so that the    *)
(* timeout of poll does not exist and time has no part in the model.  An   *)
(* error leaves its request at the front: the next push starts it again.   *)
(*                                                                         *)
(* What the bus is exposed to is chosen once, in `env`:                    *)
(*   chain    a device's callback may push                                 *)
(*   error    a transfer may end in an error                               *)
(*   preempt  interrupts may come between the statements of push           *)
(***************************************************************************)
EXTENDS Integers, Sequences

CONSTANTS
  Conf,      \* the devices' modes, a function of the devices
  QSize,     \* slots of the request queue
  Envs,      \* values of env to look at
  MaxReq     \* bound: requests pushed

VARIABLES
  env,
  bus,       \* the HW object, the chips and the history, see Init
  pc         \* where the main loop is in push(), "out" of it otherwise

vars == <<env, bus, pc>>

Dev == DOMAIN Conf
Nothing == 0
Requests == 1 .. MaxReq

Init == /\ env \in Envs
        /\ bus = [q |-> << >>, xfer |-> FALSE,
                  conf |-> 0,             \* active.conf: mode 0 when created
                  sel |-> {},             \* the devices whose chip is selected
                  hw |-> Nothing,         \* the request the hardware transfers
                  ok |-> TRUE,            \* no assert failed
                  dev |-> << >>,          \* the devices of the requests pushed
                  moved |-> << >>,        \* history: requests transferred
                  calls |-> << >>,        \* history: requests called back for
                  gone |-> << >>,         \* history: requests off the queue
                  erred |-> FALSE]        \* history: the last thing was an error
        /\ pc = "out"

-----------------------------------------------------------------------------
(* The driver                                                              *)

Front(b) == b.dev[Head(b.q)]

\* the device's chip select line, after switchmode to what it needs; front()
\* asserts
Selected(b) ==
  IF b.q = << >> THEN [b EXCEPT !.ok = FALSE]
  ELSE [b EXCEPT !.conf = Conf[Front(b)], !.sel = @ \cup {Front(b)}]

\* HAL_SPI_..._IT: HAL_BUSY while a transfer is under way, nobody looks at it
HalStart(b) == IF b.q # << >> /\ b.hw = Nothing THEN [b EXCEPT !.hw = Head(b.q)] ELSE b

Marked(b) == [b EXCEPT !.xfer = TRUE]

_startMaster(b) == Marked(HalStart(Selected(b)))

Free(b) == ~b.xfer /\ b.q # << >>

poll(b) == LET c == [b EXCEPT !.erred = FALSE] IN IF Free(c) THEN _startMaster(c) ELSE c

\* mutant: the failed request is dropped
_errorDrops(b) ==
  IF b.q = << >> THEN [b EXCEPT !.ok = FALSE]
  ELSE [b EXCEPT !.sel = @ \ {Front(b)}, !.xfer = FALSE, !.hw = Nothing,
                 !.q = Tail(@), !.gone = Append(@, Head(b.q))]

_error(b) ==
  CASE b.q = << >> -> [b EXCEPT !.ok = FALSE]
    [] b.q # << >> /\ b.xfer -> [b EXCEPT !.sel = @ \ {Front(b)}, !.xfer = FALSE, !.hw = Nothing]
    [] OTHER -> b

Enqueued(b, d) == [b EXCEPT !.q = Append(@, Len(b.dev) + 1), !.dev = Append(@, d)]

CanPush(b) == Len(b.q) < QSize /\ Len(b.dev) < MaxReq

\* a device's callback, with what it may push
Callback(b) ==
  {b} \cup (IF env.chain /\ CanPush(b) THEN {poll(Enqueued(b, d)) : d \in Dev} ELSE {})

Dropped(b) == [b EXCEPT !.q = Tail(@), !.gone = Append(@, Head(b.q)), !.xfer = FALSE]

\* mutant: the next request is not started
_completeNoPoll(b) ==
  IF b.q = << >> THEN {[b EXCEPT !.ok = FALSE]}
  ELSE {Dropped(c) : c \in Callback([b EXCEPT !.sel = @ \ {Front(b)},
                                              !.calls = Append(@, Head(b.q))])}

_complete(b) ==
  IF b.q = << >> THEN {[b EXCEPT !.ok = FALSE]}
  ELSE {poll(Dropped(c)) : c \in Callback([b EXCEPT !.sel = @ \ {Front(b)},
                                                    !.calls = Append(@, Head(b.q))])}

-----------------------------------------------------------------------------
(* The interrupts                                                          *)

Interruptible == bus.ok /\ (env.preempt \/ pc = "out")

TransferDone ==
  /\ Interruptible /\ bus.hw # Nothing
  /\ bus' \in _complete([bus EXCEPT !.hw = Nothing, !.moved = Append(@, bus.hw)])
  /\ UNCHANGED <<env, pc>>

BusError ==
  /\ Interruptible /\ env.error /\ bus.hw # Nothing
  /\ bus' = [_error([bus EXCEPT !.hw = Nothing]) EXCEPT !.erred = TRUE]
  /\ UNCHANGED <<env, pc>>

-----------------------------------------------------------------------------
(* HW::push in the main loop                                               *)

Step(here, there) == pc = here /\ bus.ok /\ pc' = there /\ UNCHANGED env

Push == /\ CanPush(bus)
        /\ \E d \in Dev : bus' = Enqueued(bus, d)
        /\ Step("out", "poll")

Poll == /\ bus' = [bus EXCEPT !.erred = FALSE]
        /\ Step("poll", IF Free(bus) THEN "select" ELSE "out")

Select == bus' = Selected(bus) /\ Step("select", "transfer")

Transfer == bus' = HalStart(bus) /\ Step("transfer", "mark")

Mark == bus' = Marked(bus) /\ Step("mark", "out")

Main == Poll \/ Select \/ Transfer \/ Mark

Next == TransferDone \/ BusError \/ Push \/ Main

\* the hardware ends what it started, and the main loop returns from push
Fairness == WF_vars(TransferDone) /\ WF_vars(Main)

Spec == Init /\ [][Next]_vars /\ Fairness

-----------------------------------------------------------------------------
(* Properties                                                              *)

TypeOK ==
  /\ env \in Envs /\ pc \in {"out", "poll", "select", "transfer", "mark"}
  /\ bus.q \in Seq(Requests) /\ Len(bus.q) <= QSize
  /\ bus.sel \subseteq Dev /\ bus.hw \in Requests \cup {Nothing}
  /\ bus.conf \in {Conf[d] : d \in Dev} \cup {0}

\* No assert of the driver or its queue fails; requests leave the queue in the
\* order pushed, and none is lost, however often an error makes the driver
\* start one again; a device is called back for each of its requests once, when
\* it has been transferred (spi.h: "is called as soon as requested data
\* arrived over wire").
Served ==
  /\ bus.ok
  /\ bus.gone \o bus.q = [k \in 1 .. Len(bus.dev) |-> k]
  /\ bus.calls = bus.gone /\ bus.moved = bus.gone

\* While a request is transferred its device's chip, and no other, is selected
\* and the bus is in that device's mode; a bus without a transfer selects
\* nobody, unless an interrupt came inside of push.
OneChip ==
  /\ bus.hw # Nothing => /\ bus.sel = {bus.dev[bus.hw]} /\ bus.hw = Head(bus.q)
                         /\ bus.conf = Conf[bus.dev[bus.hw]]
  /\ bus.hw = Nothing /\ pc = "out" /\ ~env.preempt => bus.sel = {}

\* Without interrupts inside of push the bus comes to rest again and again:
\* all requests were served, or an error has left one for the next push.
ComesToRest == ~env.preempt => []<>(bus.q = << >> \/ bus.erred)

=============================================================================
