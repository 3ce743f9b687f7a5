------------------------------- MODULE Angles -------------------------------
(***************************************************************************)
(* Positions that are added up from readings that wrap: the magnetic       *)
(* sensor AS5048B (dev/AS5048b.h) and the quadrature encoder               *)
(* (stm/sys/encoder.h).  The shaft turns by less than the code can tell    *)
(* from the opposite direction between two readings.                       *)
(*                                                                         *)
(* A reading of the AS5048B arrives in an interrupt, that may come between *)
(* two assignments of reset().  The encoder is read by the main loop.      *)
(***************************************************************************)
EXTENDS Integers

CONSTANTS Circle,      \* readings per turn: 2^14 of the AS5048B, 2^16 of a timer
          Jump,      \* what AS5048B takes for a turn: 10000
          Glitch,    \* what AS5048B takes for a movement after a 0: 1000
          Bound,     \* bound: counts the shaft moves either way
          MaxOps     \* bound: readings and resets

VARIABLES kind,      \* the class
          turned,    \* counts the shaft has turned
          base,      \* where the encoder's counter was set to 0
          bInit, last, angle,
          pc,        \* assignment of reset() that comes next
          origin,    \* history: where the angle should be counted from,
          upto,      \*   and what it should count to
          zeros,     \* history: readings where AS5048B may lose a movement
          ops

vars == <<kind, turned, base, bInit, last, angle, pc, origin, upto, zeros, ops>>

\* The fastest that can be told from a movement the other way
Limit == IF kind = "AS5048B" THEN Circle - Jump - 1 ELSE Circle \div 2 - 1

\* int16_t
Signed(n) == LET m == n % Circle IN IF m < Circle \div 2 THEN m ELSE m - Circle

Init == /\ kind \in {"AS5048B", "Encoder"}
        /\ turned \in 0 .. Circle - 1 /\ base = turned
        /\ bInit = FALSE /\ last = 0 /\ angle = 0 /\ pc = "idle"
        /\ origin = turned /\ upto = turned /\ zeros = 0 /\ ops = 0

\* external: the shaft turns, by all that it does until the next reading
Turn(d) == /\ turned = upto
           /\ turned + d \in -Bound .. Circle + Bound
           /\ turned' = turned + d
           /\ UNCHANGED <<kind, base, bInit, last, angle, pc, origin, upto, zeros, ops>>

Count == ops < MaxOps /\ ops' = ops + 1

\* callback() of AS5048B: what to add for a movement from last to cur
Diff(cur) ==
  LET d == last - cur
  IN  IF last = -1 \/ (last = 0 /\ (d > Glitch \/ d < -Glitch)) THEN 0
      ELSE IF d < -Jump THEN d + Circle
      ELSE IF d > Jump THEN d - Circle ELSE d

\* a read of measure() has been answered
callback ==
  /\ kind = "AS5048B" /\ Count
  /\ LET cur == turned % Circle
     IN  /\ angle' = IF bInit THEN angle + Diff(cur) ELSE angle
         /\ last' = cur
         /\ origin' = IF bInit THEN origin ELSE turned
         /\ zeros' = IF cur = 0 \/ pc # "idle" THEN zeros + 1 ELSE zeros
  /\ bInit' = TRUE /\ upto' = turned
  /\ UNCHANGED <<kind, turned, base, pc>>

\* AS5048B::reset(): three assignments
reset ==
  /\ kind = "AS5048B" /\ pc = "idle" /\ Count
  /\ angle' = 0 /\ origin' = upto /\ zeros' = 0 /\ pc' = "last"
  /\ UNCHANGED <<kind, turned, base, bInit, last, upto>>
resetLast ==
  /\ pc = "last" /\ last' = 0 /\ pc' = "bInit"
  /\ UNCHANGED <<kind, turned, base, bInit, angle, origin, upto, zeros, ops>>
resetInit ==
  /\ pc = "bInit" /\ bInit' = FALSE /\ pc' = "idle"
  /\ UNCHANGED <<kind, turned, base, last, angle, origin, upto, zeros, ops>>

\* Encoder::measure()
\* mutant: the difference keeps its width
measureWide ==
  /\ kind = "Encoder" /\ Count
  /\ last' = Signed(turned - base)
  /\ angle' = angle + (last' - last)
  /\ upto' = turned
  /\ UNCHANGED <<kind, turned, base, bInit, pc, origin, zeros>>
measure ==
  /\ kind = "Encoder" /\ Count
  /\ last' = Signed(turned - base)
  /\ angle' = angle + Signed(last' - last)
  /\ upto' = turned
  /\ UNCHANGED <<kind, turned, base, bInit, pc, origin, zeros>>

\* Encoder::zero(): the counter of the timer is set as well
zero ==
  /\ kind = "Encoder" /\ Count
  /\ base' = turned /\ last' = 0 /\ angle' = 0
  /\ origin' = turned /\ upto' = turned
  /\ UNCHANGED <<kind, turned, bInit, pc, zeros>>

Next == \/ \E d \in -Limit .. Limit : Turn(d)
        \/ callback \/ reset \/ resetLast \/ resetInit \/ measure \/ zero

Spec == Init /\ [][Next]_vars

-----------------------------------------------------------------------------
(* Properties                                                              *)

\* What the angle counts: AS5048B counts against the turning direction.  It
\* starts to count at the first reading.
True == IF kind = "AS5048B" THEN IF bInit THEN origin - upto ELSE 0
        ELSE upto - origin

\* The sum of the wrapped differences is the movement since the last reset, over
\* any number of turns and whatever the order of readings and resets.  A movement
\* is lost only after a reading of 0 (AS5048b.h:50 looks for a reset there) or
\* when a reading comes inside reset(), and no more than one for each of these.
Follows == pc = "idle" => angle - True \in -(zeros * Limit) .. zeros * Limit

=============================================================================
