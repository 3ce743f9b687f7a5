------------------------------ MODULE Average ------------------------------
(***************************************************************************)
(* ctrl/movingaverage.h: the average over the last N values, from a total  *)
(* that is kept up to date and a Queue of the values that are in it.       *)
(***************************************************************************)
EXTENDS RingQueue

CONSTANTS N,         \* size of the filter
          MaxIn      \* bound: values

VARIABLES samples, total,
          seen       \* history: all values

vars == <<samples, total, seen>>

Init == samples = Fresh(N) /\ total = 0 /\ seen = << >>

\* operator()(T), with an empty place or without one
addFull(v) ==
  /\ Full(samples)
  /\ total' = total + v - Front(samples)
  /\ samples' = Pushed(Popped(samples), v)
  /\ seen' = Append(seen, v)
add(v) ==
  /\ ~Full(samples)
  /\ total' = total + v
  /\ samples' = Pushed(samples, v)
  /\ seen' = Append(seen, v)

Next == Len(seen) < MaxIn /\ \E v \in Elem : add(v) \/ addFull(v)

Spec == Init /\ [][Next]_vars

-----------------------------------------------------------------------------
(* Properties                                                              *)

Latest == IF Len(seen) <= N THEN seen ELSE SubSeq(seen, Len(seen) - N + 1, Len(seen))

SumOf(s) ==
  LET upto[n \in 0 .. Len(s)] == IF n = 0 THEN 0 ELSE upto[n - 1] + s[n]
  IN  upto[Len(s)]

\* operator()() divides the sum of the last N values, or of all of them, by how
\* many these are: what leaves the ring is what leaves the total.
Averages == /\ total = SumOf(Latest)
            /\ samples.len = Len(Latest)

=============================================================================
