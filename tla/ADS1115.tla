------------------------------ MODULE ADS1115 ------------------------------
(***************************************************************************)
(* dev/ADS1115.h: an analog digital converter on the I2C bus, whose chip   *)
(* keeps a pointer to the register it is read from.  Requests wait in the  *)
(* bus, that takes them with trypush and discards them when it is full;    *)
(* interrupts transfer the first one at any time.                          *)
(***************************************************************************)
EXTENDS Sequences, Naturals

CONSTANTS Ranges,    \* full scale ranges
          QSize,     \* room of the bus
          MaxReq     \* bound: requests

VARIABLES eFullScale,   \* public member of the driver
          adc,          \* the last measured voltage: its register, range and scale
          bus,          \* requests that wait
          chip,         \* the device's pointer and range
          pc,           \* updateConfig() has yet to set the pointer
          taken,        \* history: the last config was taken by the bus,
          pointed,      \*   and the last pointer to set was
          reqs

vars == <<eFullScale, adc, bus, chip, pc, taken, pointed, reqs>>

\* The constructor's updateConfig() had its requests taken and transferred
Init == /\ eFullScale \in Ranges
        /\ adc = [reg |-> "CONVERSION", range |-> eFullScale, scale |-> eFullScale]
        /\ bus = << >>
        /\ chip = [ptr |-> "CONVERSION", range |-> eFullScale]
        /\ pc = "idle" /\ taken = TRUE /\ pointed = TRUE /\ reqs = 0

Fits == Len(bus) < QSize
trypush(r) == bus' = IF Fits THEN Append(bus, r) ELSE bus
Count == reqs < MaxReq /\ reqs' = reqs + 1

\* The program sets eFullScale and calls updateConfig(): write(CONFIG, ...), then
\* setPointer(CONVERSION).  In between an interrupt may make room
updateConfig(range) ==
  /\ pc = "idle" /\ Count
  /\ eFullScale' = range
  /\ trypush([op |-> "write", range |-> range])
  /\ taken' = Fits
  /\ pc' = "setPointer"
  /\ UNCHANGED <<adc, chip, pointed>>

setPointer ==
  /\ pc = "setPointer" /\ pc' = "idle"
  /\ trypush([op |-> "pointer"])
  /\ pointed' = Fits
  /\ UNCHANGED <<eFullScale, adc, chip, taken, reqs>>

measure ==
  /\ pc = "idle" /\ Count
  /\ trypush([op |-> "read"])
  /\ UNCHANGED <<eFullScale, adc, chip, pc, taken, pointed>>

\* external: the device takes the first request; a config leaves its pointer there
Written ==
  /\ bus # << >> /\ Head(bus).op = "write"
  /\ chip' = [ptr |-> "CONFIG", range |-> Head(bus).range]
  /\ bus' = Tail(bus)
  /\ UNCHANGED <<eFullScale, adc, pc, taken, pointed, reqs>>
Pointed ==
  /\ bus # << >> /\ Head(bus).op = "pointer"
  /\ chip' = [chip EXCEPT !.ptr = "CONVERSION"]
  /\ bus' = Tail(bus)
  /\ UNCHANGED <<eFullScale, adc, pc, taken, pointed, reqs>>

\* A read is answered: callback() scales it with the range that is set by now
callback ==
  /\ bus # << >> /\ Head(bus).op = "read"
  /\ adc' = [reg |-> chip.ptr, range |-> chip.range, scale |-> eFullScale]
  /\ bus' = Tail(bus)
  /\ UNCHANGED <<eFullScale, chip, pc, taken, pointed, reqs>>

Next == \/ \E r \in Ranges : updateConfig(r)
        \/ setPointer \/ measure \/ Written \/ Pointed \/ callback

Spec == Init /\ [][Next]_vars

-----------------------------------------------------------------------------
(* Properties                                                              *)

Waits(op) == \E k \in DOMAIN bus : bus[k].op = op

\* With no config on its way, the chip measures in the range that callback() scales
\* with, and answers with what it measured: the driver's idea of the chip is right.
\* It is not after a request that the full bus discarded, of which the driver does
\* not know: a config without its pointer has every later read return the config.
Agree == pc = "idle" =>
  /\ taken /\ ~Waits("write") => chip.range = eFullScale
  /\ pointed /\ ~Waits("pointer") => chip.ptr = "CONVERSION"

=============================================================================
