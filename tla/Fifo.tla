------------------------------- MODULE Fifo --------------------------------
(***************************************************************************)
(* What Queue<T> promises (README.md: "fifo queue template that is used    *)
(* throughout these libraries"): a bounded sequence, elements leave in the *)
(* order they came, pop() returns the oldest one.  `out` is the value the  *)
(* last pop() returned.                                                    *)
(***************************************************************************)
EXTENDS Naturals, Sequences

CONSTANTS Elem, Capacity, Nothing

VARIABLES items, out

vars == <<items, out>>

\* a queue is created empty, or from a Buffer that is completely filled
Init == /\ \/ items = <<>>
           \/ items \in [1 .. Capacity -> Elem]
        /\ out = Nothing

Push(v) == /\ Len(items) < Capacity
           /\ items' = Append(items, v)
           /\ UNCHANGED out

Pop == /\ items # <<>>
       /\ out' = Head(items)
       /\ items' = Tail(items)

Drop == /\ items # <<>>
        /\ items' = Tail(items)
        /\ UNCHANGED out

Next == Pop \/ Drop \/ \E v \in Elem : Push(v)

Spec == Init /\ [][Next]_vars

=============================================================================
