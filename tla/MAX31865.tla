------------------------------ MODULE MAX31865 ------------------------------
(***************************************************************************)
(* dev/MAX31865.h: a temperature sensor on the SPI bus.  The chip latches  *)
(* faults until they are cleared, and says in the lowest bit of the        *)
(* resistance that there is one.  temp() asks for the faults before it     *)
(* clears them; requests are discarded by a full bus, and transferred in   *)
(* order by interrupts at any time: between the statements of temp() and   *)
(* clearFaults(), and between the load and the store of the line in which  *)
(* the latter forgets the fault bit.                                       *)
(***************************************************************************)
EXTENDS Integers, Sequences

CONSTANTS Faults,    \* what may be wrong, a bit each of the fault byte
          Half,      \* half of what a resistance counts to; 2^14
          QSize,     \* room of the bus
          MaxReq     \* bound: requests

VARIABLES data,      \* what the driver knows: resistance, its fault bit, faults
          bus,       \* requests that wait
          latch,     \* the chip: faults that are latched
          pc,        \* where the program is in temp() or clearFaults(), else "idle"
          reg,       \* what clearFaults() loaded and shifted
          ret,       \* what temp() returned last
          word,      \* history: the last resistance the chip sent, with its faults
          told,      \* history: the fault of that word was told, or cleared
          torn,      \* history: that word was overwritten by clearFaults()
          alone,     \* history: a config was taken and the read before it was not
          owed,      \* history: faults of that word that were not read yet,
          lost,      \*   and those that were cleared unread
          reqs

vars == <<data, bus, latch, pc, reg, ret, word, told, torn, alone, owed, lost, reqs>>

NAN == [nan |-> TRUE, value |-> 0]
Value(v) == [nan |-> FALSE, value |-> v]

\* int16_t rtd, less its lowest bit: from half of the reference resistor on it is
\* negative
Signed(v) == IF v < Half THEN v ELSE v - 2 * Half

\* What the chip may send, with the faults f
Words(f) == [value : {0, Half - 1, Half}, faults : {f}]

\* The constructor's config is written, and all data of the chip was read
Init == /\ latch \in {{}} \cup {{f} : f \in Faults}
        /\ word \in Words(latch)
        /\ data = [rtd |-> Signed(word.value), bit |-> latch # {}, fault |-> latch]
        /\ bus = << >> /\ pc = "idle" /\ reg = 0 /\ ret = NAN
        /\ told = FALSE /\ torn = FALSE /\ alone = FALSE /\ owed = {} /\ lost = {} /\ reqs = 0

Count == reqs < MaxReq /\ reqs' = reqs + 1
Fits == Len(bus) < QSize
trypush(r) == bus' = IF Fits THEN Append(bus, r) ELSE bus

\* sense(), readFault(), readAllData(), setLThr() and setHThr()
Ask(r) ==
  /\ pc = "idle" /\ Count /\ trypush(r)
  /\ UNCHANGED <<data, latch, pc, reg, ret, word, told, torn, alone, owed, lost>>

\* temp() and tempLin(), if the reading has no fault; the value may be that of
\* another reading by then
temp ==
  /\ pc = "idle" /\ ~data.bit /\ pc' = "value"
  /\ UNCHANGED <<data, bus, latch, reg, ret, word, told, torn, alone, owed, lost, reqs>>
nonlin ==
  /\ pc = "value" /\ pc' = "idle"
  /\ ret' = Value(data.rtd)
  /\ UNCHANGED <<data, bus, latch, reg, word, told, torn, alone, owed, lost, reqs>>

\* clearFaults(): forgets the fault bit, asks for the faults, and then has the
\* chip clear them.  temp() calls it for a fault, the program may at any time
clearFaults ==
  /\ pc = "idle" /\ Count /\ pc' = "loaded"
  /\ ret' = IF data.bit THEN NAN ELSE ret
  /\ reg' = data.rtd /\ told' = TRUE
  /\ UNCHANGED <<data, bus, latch, word, torn, alone, owed, lost>>
clearBit ==
  /\ pc = "loaded" /\ pc' = "stored"
  /\ data' = [data EXCEPT !.rtd = reg, !.bit = FALSE]
  /\ UNCHANGED <<bus, latch, reg, ret, word, told, torn, alone, owed, lost, reqs>>
\* mutant: the faults are cleared first
readStatusLast ==
  /\ pc = "stored" /\ pc' = "idle"
  /\ bus' = IF Len(bus) < QSize - 1 THEN bus \o <<"config", "status">> ELSE bus
  /\ UNCHANGED <<data, latch, reg, ret, word, told, torn, alone, owed, lost, reqs>>
readStatus ==
  /\ pc = "stored" /\ pc' = IF Fits THEN "config" ELSE "discarded"
  /\ trypush("status")
  /\ UNCHANGED <<data, latch, reg, ret, word, told, torn, alone, owed, lost, reqs>>
setConfig ==
  /\ pc \in {"config", "discarded"} /\ pc' = "idle"
  /\ trypush("config")
  /\ alone' = (alone \/ (pc = "discarded" /\ Fits))
  /\ UNCHANGED <<data, latch, reg, ret, word, told, torn, owed, lost, reqs>>

\* external: something goes wrong at the sensor
Fault(f) ==
  /\ f \notin latch /\ latch' = latch \cup {f}
  /\ UNCHANGED <<data, bus, pc, reg, ret, word, told, torn, alone, owed, lost, reqs>>

\* The first request is transferred, and callback(); the length of an answer tells
\* which one it is to
Transferred(r) == bus # << >> /\ Head(bus) = r /\ bus' = Tail(bus)

gotRtd(w) ==
  /\ Transferred("rtd")
  /\ word' = w /\ told' = FALSE /\ torn' = (pc = "loaded") /\ owed' = w.faults
  /\ data' = [data EXCEPT !.rtd = Signed(w.value), !.bit = w.faults # {}]
  /\ UNCHANGED <<latch, pc, reg, ret, alone, lost, reqs>>
gotAll(w) ==
  /\ Transferred("all")
  /\ word' = w /\ told' = FALSE /\ torn' = (pc = "loaded") /\ owed' = {}
  /\ data' = [rtd |-> Signed(w.value), bit |-> w.faults # {}, fault |-> latch]
  /\ UNCHANGED <<latch, pc, reg, ret, alone, lost, reqs>>
gotStatus ==
  /\ Transferred("status")
  /\ data' = [data EXCEPT !.fault = latch]
  /\ owed' = owed \ latch
  /\ UNCHANGED <<latch, pc, reg, ret, word, told, torn, alone, lost, reqs>>
wroteThr ==
  /\ Transferred("thr")
  /\ UNCHANGED <<data, latch, pc, reg, ret, word, told, torn, alone, owed, lost, reqs>>
wroteConfig ==
  /\ Transferred("config")
  /\ latch' = {}
  /\ lost' = lost \cup owed
  /\ UNCHANGED <<data, pc, reg, ret, word, told, torn, alone, owed, reqs>>

Next == \/ \E r \in {"rtd", "all", "status", "thr"} : Ask(r)
        \/ temp \/ nonlin \/ clearFaults \/ clearBit \/ readStatus \/ setConfig
        \/ gotStatus \/ wroteThr \/ wroteConfig
        \/ \E f \in Faults : Fault(f)
        \/ \E w \in Words(latch) : gotRtd(w) \/ gotAll(w)

Spec == Init /\ [][Next]_vars

-----------------------------------------------------------------------------
(* Properties                                                              *)

\* A fault of the last resistance was told by temp(), or will be, and a resistance
\* below half of the reference is the chip's; but a resistance that comes between
\* the load and the store of clearFaults() is overwritten by the one before, without
\* its fault, until the next comes.  And the chip's faults that made it one are
\* known by the time they are cleared, fault() returns them: only a full bus that
\* gets room between the two requests of clearFaults() loses them.
Reported ==
  /\ torn \/ /\ word.faults # {} => told \/ data.bit
             /\ word.value < Half => data.rtd = word.value
  /\ alone \/ lost = {}

=============================================================================
