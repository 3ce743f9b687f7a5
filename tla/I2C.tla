-------------------------------- MODULE I2C --------------------------------
(***************************************************************************)
(* stm/i2c.cpp: the interrupt driven I2C bus.  Master requests wait in a   *)
(* queue, one transfer is under way, and the same few functions, poll,     *)
(* _startMaster, _error and _complete, run in the main loop (through push) *)
(* and in the interrupts of the bus (through the HAL's callbacks), nested: *)
(* _complete calls the device, which may push its next request, which      *)
(* polls the bus, which may time out the transfer being completed.         *)
(*                                                                         *)
(* The driver's object is one record, `bus`; the functions are operators   *)
(* on it, so that they nest as the calls do.  An interrupt runs to its end; *)
(* the main loop's push is one step per statement.  Operations of the      *)
(* queue are atomic here (module Kernel takes them apart).                 *)
(*                                                                         *)
(* What the bus is exposed to is chosen once, in `env`:                    *)
(*   chain    a device's callback may push                                 *)
(*   late     a transfer may still end when its deadline has passed        *)
(*   slave    the bus has an address of its own                            *)
(*   preempt  interrupts may come between the statements of push           *)
(***************************************************************************)
EXTENDS Integers, Sequences

CONSTANTS
  QSize,     \* slots of the request queue
  Delta,     \* milliseconds until() allows for a transfer
  Envs,      \* values of env to look at
  MaxReq,    \* bound: master requests pushed
  Horizon    \* bound: no tick once uwTick is there

ASSUME I2CAssumption ==
  /\ QSize \in Nat \ {0} /\ Delta \in Nat \ {0} /\ MaxReq \in Nat /\ Horizon \in Nat
  /\ Envs \subseteq [chain : BOOLEAN, late : BOOLEAN, slave : BOOLEAN, preempt : BOOLEAN]

VARIABLES
  env,
  uwTick,
  bus,       \* the HW object, the HAL's state and the history, see Init
  pc         \* where the main loop is in push(), "out" of it otherwise

vars == <<env, uwTick, bus, pc>>

\* what the hardware is busy with: nothing, a slave transfer or a request
Nothing == 0
SlaveIn == -1
SlaveOut == -2
Requests == 1 .. MaxReq

Init == /\ env \in Envs
        /\ uwTick = 1
        /\ bus = [q |-> << >>, active |-> "NONE", when |-> 0,
                  armed |-> {},           \* slave requests: in, out
                  hw |-> Nothing, listen |-> env.slave,
                  ok |-> TRUE,            \* no assert failed
                  pushed |-> 0,           \* history: requests pushed
                  moved |-> {},           \* history: requests the hardware transferred
                  calls |-> << >>,        \* history: requests the device was called back for
                  gone |-> << >>,         \* history: requests taken off the queue
                  started |-> << >>,      \* history: requests the hardware took on,
                  since |-> 0,            \*   and when, for the one under way
                  failed |-> {},          \* history: requests that ended in a bus error
                  early |-> {},           \* history: requests gone before their time was over
                  erred |-> FALSE,        \* history: the last thing was a bus error
                  deaf |-> FALSE]         \* history: addressed with nothing to send or receive
        /\ pc = "out"

-----------------------------------------------------------------------------
(* The HAL; what the driver does not look at the result of may fail        *)

\* HAL_I2C_..._IT: HAL_BUSY while a transfer is under way
HalStart(b, x) ==
  IF b.hw # Nothing THEN b
  ELSE IF x \in Requests THEN [b EXCEPT !.hw = x, !.started = Append(@, x), !.since = uwTick]
  ELSE [b EXCEPT !.hw = x]

\* HAL_I2C_Master_Abort_IT, __HAL_I2C_DISABLE
HalAbort(b) == [b EXCEPT !.hw = Nothing]

-----------------------------------------------------------------------------
(* The driver                                                              *)

\* the request at the front leaves the queue; pop() and drop() assert
TakenOff(b) ==
  IF b.q = << >> THEN [b EXCEPT !.ok = FALSE]
  ELSE [b EXCEPT !.q = Tail(@), !.gone = Append(@, Head(b.q)),
                 !.since = 0,
                 !.early = IF uwTick < b.since + Delta THEN @ \cup {Head(b.q)} ELSE @]

\* mutant: still active
ReleasedActive(b) == [b EXCEPT !.when = 0, !.listen = env.slave]

\* active = NONE, deadline = {}, listen again
Released(b) == [b EXCEPT !.active = "NONE", !.when = 0, !.listen = env.slave]

\* mutant: the timed out request is left at the front, aborted by nobody
_errorNoAbort(b) ==
  IF b.active = "NONE" THEN [b EXCEPT !.ok = FALSE]
  ELSE Released(IF b.active = "Q" THEN TakenOff(b) ELSE HalAbort(b))

\* mutant: whatever it was that failed, a request leaves the queue
_errorAnyway(b) ==
  IF b.active = "NONE" THEN [b EXCEPT !.ok = FALSE]
  ELSE Released(IF b.q # << >> THEN TakenOff(HalAbort(b)) ELSE HalAbort(b))

_error(b) ==
  IF b.active = "NONE" THEN [b EXCEPT !.ok = FALSE]
  ELSE Released(IF b.active = "Q" THEN TakenOff(HalAbort(b)) ELSE HalAbort(b))

until(now) == now + Delta

\* front() asserts
_startMaster(b) ==
  IF b.q = << >> THEN [b EXCEPT !.ok = FALSE]
  ELSE HalStart([b EXCEPT !.listen = FALSE, !.active = "Q", !.when = until(uwTick)], Head(b.q))

\* deadline(uwTick) of a transfer that is under way
Expired(b) == b.active # "NONE" /\ b.when # 0 /\ ~(uwTick < b.when)

Free(b) == b.active = "NONE" /\ b.q # << >>

poll(b) ==
  LET c == [IF Expired(b) THEN _error([b EXCEPT !.when = 0]) ELSE b EXCEPT !.erred = FALSE]
  IN  IF Free(c) THEN _startMaster(c) ELSE c

Enqueued(b) == [b EXCEPT !.q = Append(@, b.pushed + 1), !.pushed = @ + 1]

CanPush(b) == Len(b.q) < QSize /\ b.pushed < MaxReq

\* a device's callback, with what it may push; front() asserts
Callback(b) ==
  {b} \cup (IF env.chain /\ CanPush(b) THEN {poll(Enqueued(b))} ELSE {})

Called(b) == IF b.q = << >> THEN {[b EXCEPT !.ok = FALSE]}
             ELSE Callback([b EXCEPT !.calls = Append(@, Head(b.q))])

\* mutant: the next request is not started
_completeNoPoll(b) ==
  CASE b.active = "NONE" -> {b}
    [] b.active = "Q"    -> {Released(TakenOff(c)) : c \in Called(b)}
    [] OTHER             -> {Released(c) : c \in Callback(b)}

_complete(b) ==
  CASE b.active = "NONE" -> {b}
    [] b.active = "Q"    -> {poll(Released(TakenOff(c))) : c \in Called(b)}
    [] OTHER             -> {poll(Released(c)) : c \in Callback(b)}

\* nothing to send or receive: not listening, and no transfer
_startSlave(b, side) ==
  LET c == [b EXCEPT !.listen = FALSE, !.ok = @ /\ b.active = "NONE"]
  IN  IF side \notin b.armed THEN [c EXCEPT !.deaf = TRUE]
      ELSE HalStart([c EXCEPT !.active = side, !.when = until(uwTick)],
                    IF side = "IN" THEN SlaveIn ELSE SlaveOut)

-----------------------------------------------------------------------------
(* The interrupts                                                          *)

Interruptible == bus.ok /\ (env.preempt \/ pc = "out")

\* an answer that may still come: in time, unless it may be late
InTime == env.late \/ uwTick < bus.when

\* the request the hardware works on, which then is over
Ended == Requests \cap {bus.hw}

TransferDone ==
  /\ Interruptible /\ bus.hw # Nothing /\ InTime
  /\ bus' \in _complete([bus EXCEPT !.hw = Nothing, !.moved = @ \cup Ended])
  /\ UNCHANGED <<env, uwTick, pc>>

BusError ==
  /\ Interruptible /\ bus.hw # Nothing /\ InTime
  /\ bus' = [_error([bus EXCEPT !.hw = Nothing, !.failed = @ \cup Ended]) EXCEPT !.erred = TRUE]
  /\ UNCHANGED <<env, uwTick, pc>>

\* another master addresses us
Addressed(side) ==
  /\ Interruptible /\ bus.listen /\ bus.hw = Nothing
  /\ bus' = _startSlave(bus, side)
  /\ UNCHANGED <<env, uwTick, pc>>

SysTick == /\ bus.ok /\ uwTick < Horizon
           /\ uwTick' = uwTick + 1
           /\ UNCHANGED <<env, bus, pc>>

-----------------------------------------------------------------------------
(* HW::push in the main loop                                               *)

Push == /\ pc = "out" /\ bus.ok /\ CanPush(bus)
        /\ bus' = Enqueued(bus)
        /\ pc' = "check"
        /\ UNCHANGED <<env, uwTick>>

PushSlave(side) == /\ pc = "out" /\ bus.ok /\ env.slave /\ side \notin bus.armed
                   /\ bus' = [bus EXCEPT !.armed = @ \cup {side}]
                   /\ pc' = "check"
                   /\ UNCHANGED <<env, uwTick>>

Check == /\ pc = "check" /\ bus.ok
         /\ bus' = [bus EXCEPT !.when = IF Expired(bus) THEN 0 ELSE @]
         /\ pc' = IF Expired(bus) THEN "error" ELSE "free"
         /\ UNCHANGED <<env, uwTick>>

TimedOut == /\ pc = "error" /\ bus.ok
            /\ bus' = _error(bus)
            /\ pc' = "free"
            /\ UNCHANGED <<env, uwTick>>

CheckFree == /\ pc = "free" /\ bus.ok
             /\ bus' = [bus EXCEPT !.erred = FALSE]
             /\ pc' = IF Free(bus) THEN "start" ELSE "out"
             /\ UNCHANGED <<env, uwTick>>

Start == /\ pc = "start" /\ bus.ok
         /\ bus' = _startMaster(bus)
         /\ pc' = "out"
         /\ UNCHANGED <<env, uwTick>>

Next == \/ TransferDone \/ BusError \/ SysTick
        \/ Push \/ Check \/ TimedOut \/ CheckFree \/ Start
        \/ \E side \in {"IN", "OUT"} : Addressed(side) \/ PushSlave(side)

Spec == Init /\ [][Next]_vars

-----------------------------------------------------------------------------
(* Properties                                                              *)

\* The state has its type, no assert of the driver or of its queue fails, as
\* nothing is completed, timed out or addressed that is not under way, and the
\* hardware works on the request at the front, whose buffer the driver lets it
\* write to, or on the slave transfer that is active.
Sound ==
  /\ env \in Envs /\ uwTick \in Nat /\ pc \in {"out", "check", "error", "free", "start"}
  /\ bus.q \in Seq(Requests) /\ Len(bus.q) <= QSize
  /\ bus.active \in {"NONE", "IN", "OUT", "Q"} /\ bus.when \in Nat
  /\ bus.armed \subseteq {"IN", "OUT"} /\ bus.hw \in Requests \cup {Nothing, SlaveIn, SlaveOut}
  /\ bus.listen \in BOOLEAN /\ bus.ok
  /\ CASE bus.hw \in Requests -> bus.active = "Q" /\ Head(bus.q) = bus.hw
       [] bus.hw = SlaveIn    -> bus.active = "IN"
       [] bus.hw = SlaveOut   -> bus.active = "OUT"
       [] OTHER               -> TRUE

\* Every request that has left the queue was handed to the hardware before, once
\* and in the order pushed, and so was the one under way, and none was that still
\* waits; and none left while the hardware still worked on it in its time: it was
\* transferred, ended in a bus error, or had been under way for all of its Delta.
InOrder ==
  /\ bus.gone \o bus.q = [k \in 1 .. bus.pushed |-> k]
  /\ bus.started = bus.gone \o (IF bus.active = "Q" THEN <<Head(bus.q)>> ELSE << >>)
  /\ bus.early \subseteq bus.moved \cup bus.failed

\* A device is called back once for every request that was transferred, in
\* order, and for no other (i2c.h: "is called as soon as transmission
\* completed successfully").
CalledIffTransferred ==
  /\ {bus.calls[k] : k \in DOMAIN bus.calls} = bus.moved
  /\ \A j, k \in DOMAIN bus.calls : j < k => bus.calls[j] < bus.calls[k]

\* Requests never wait at a bus that is free, but after a bus error, until the
\* next push polls; and a free bus listens to its address, unless it was
\* addressed before a slave request was there.
FreeBus == pc = "out" /\ bus.active = "NONE" =>
             /\ bus.q # << >> => bus.erred
             /\ env.slave => bus.listen \/ bus.deaf

=============================================================================
