------------------------------- MODULE Curves -------------------------------
(***************************************************************************)
(* ctrl/trajectory.h: LinearTrajectory and SmoothTrajectory interpolate    *)
(* between supporting points.  getValue looks for the two points around an *)
(* x by bisection, a step for every turn of its loop.  Nothing says that   *)
(* they are in order, and two of them may have one x, for a jump.          *)
(*                                                                         *)
(* Points are counted from 0, as in the code.  What is computed between    *)
(* two points is not modelled, only between which.                         *)
(***************************************************************************)
EXTENDS Integers

CONSTANTS MaxSize,   \* bound: points of a curve
          X          \* where a point or an x may be

VARIABLES kind,      \* which class
          size, P,   \* number of points, and their x
          x,         \* the argument of getValue
          i, left, right,
          steps,     \* history: turns of the loop
          pc, res    \* the result: a segment and its left point, see below

vars == <<kind, size, P, x, i, left, right, steps, pc, res>>

\* between point res.k and the next; as the point; or 0, for want of points
Between(k) == [seg |-> "between", k |-> k]
At(k) == [seg |-> "at", k |-> k]
Zero == [seg |-> "zero", k |-> 0]

\* SmoothTrajectory does not look for an empty curve: what it reads then is
\* not memory of its own, and the model does not call it
Init == /\ kind \in {"linear", "smooth"}
        /\ size \in 0 .. MaxSize
        /\ kind = "smooth" => size > 0
        /\ P \in [0 .. size - 1 -> X]
        /\ x \in X
        /\ i = 0 /\ left = 0 /\ right = 0 /\ steps = 0
        /\ pc = "call" /\ res = Zero

Fixed == UNCHANGED <<kind, size, P, x>>

Found(r) == res' = r /\ pc' = "done" /\ UNCHANGED <<i, left, right, steps>>

Empty == pc = "call" /\ size = 0 /\ Found(Zero) /\ Fixed

Begin == /\ pc = "call" /\ size > 0
         /\ left' = 0 /\ right' = size - 1 /\ i' = (size - 1) \div 2
         /\ pc' = "loop"
         /\ UNCHANGED <<steps, res>> /\ Fixed

\* mutant: the middle is rounded up
NarrowUp(l, r) == /\ left' = l /\ right' = r /\ i' = (l + r + 1) \div 2
                  /\ steps' = steps + 1
                  /\ UNCHANGED <<pc, res>>

Narrow(l, r) == /\ left'  = l /\ right' = r /\ i' = (l + r) \div 2
                /\ steps' = steps + 1
                /\ UNCHANGED <<pc, res>>

One == pc = "loop" /\ left = right /\ Found(At(right)) /\ Fixed

Lower == pc = "loop" /\ left # right /\ x < P[i] /\ Narrow(left, i) /\ Fixed

Higher ==
  pc = "loop" /\ left # right /\ x >= P[i] /\ x >= P[i + 1] /\ Narrow(i + 1, right) /\ Fixed

Inside ==
  pc = "loop" /\ left # right /\ x >= P[i] /\ x < P[i + 1] /\ Found(Between(i)) /\ Fixed

Next == Empty \/ Begin \/ One \/ Lower \/ Higher \/ Inside

Spec == Init /\ [][Next]_vars

-----------------------------------------------------------------------------
(* Properties                                                              *)

\* Type invariant; the loop reads points of the curve only.
TypeOK ==
  /\ kind \in {"linear", "smooth"} /\ size \in Nat
  /\ P \in [0 .. size - 1 -> X] /\ x \in X
  /\ i \in Nat /\ left \in Nat /\ right \in Nat /\ steps \in Nat
  /\ pc \in {"call", "loop", "done"}
  /\ res \in [seg : {"between", "at", "zero"}, k : Nat]

\* Every turn makes the interval smaller, and reads points of the curve: the loop
\* ends after less turns than there are points.
Bounded ==
  pc = "loop" => /\ left <= right /\ right < size
                 /\ steps + (right - left) <= size - 1
                 /\ left # right => left <= i /\ i < right

\* The result is a segment that x is in, and it is not empty: for points in order
\* the one that follows a jump.  It is the first point for an x before the curve
\* and the last one for an x after it.
Right ==
  pc = "done" =>
    /\ res.seg = "zero" <=> size = 0
    /\ res.seg = "between" => /\ res.k + 1 < size
                              /\ P[res.k] <= x /\ x < P[res.k + 1]
    /\ res.seg = "at" => \/ res.k = 0 /\ x < P[0]
                         \/ res.k = size - 1 /\ P[size - 1] <= x

=============================================================================
