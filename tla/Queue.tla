------------------------------- MODULE Queue -------------------------------
(***************************************************************************)
(* One Queue<T> object used by a single thread of control: every public    *)
(* operation that changes it is an action.  The asserts of the code are    *)
(* the guards; a caller that violates one stops the program.               *)
(***************************************************************************)
EXTENDS RingQueue

CONSTANT Size      \* the allocated size; 30 by default

ASSUME SizeAssumption == Size \in Nat \ {0}
ASSUME GarbageAssumption == Garbage \notin Elem

VARIABLES q,       \* the queue
          out      \* value returned by the last pop()

vars == <<q, out>>

Init == /\ \/ q = Fresh(Size)
           \/ \E s \in [1 .. Size -> Elem] : q = FromBuffer(s)
        /\ out = Garbage

\* push(): assert(q.len < q.size)
Push(v) == /\ q.len < q.size
           /\ q' = Pushed(q, v)
           /\ UNCHANGED out

\* pop(): assert(q.len != 0)
Pop == /\ q.len # 0
       /\ out' = Front(q)
       /\ q' = Popped(q)

\* drop(): assert(q.len != 0)
Drop == /\ q.len # 0
        /\ q' = Dropped(q)
        /\ UNCHANGED out

Next == Pop \/ Drop \/ \E v \in Elem : Push(v)

Spec == Init /\ [][Next]_vars

-----------------------------------------------------------------------------

\* Type invariant: indices stay inside the allocation, the counter within it.
TypeOK == /\ q \in [slot : [Slots(Size) -> Elem \cup {Garbage}], len : 0 .. Size,
                    size : {Size}, head : Slots(Size), tail : Slots(Size),
                    wrap : {Size}]
          /\ out \in Elem \cup {Garbage}

\* The two indices and the counter, updated separately by push, pop and drop,
\* never disagree: tail is len slots after head, modulo the size.
IndicesAgree == q.tail = (q.head + q.len) % Size

\* No slot between head and tail was left unwritten or was already moved out:
\* every element a reader reaches through front(), pop() or getAt() is live.
OnlyLiveElements == \A i \in 1 .. q.len : Items(q)[i] \in Elem

\* The ring implements the bounded FIFO: whatever the sequence of calls, and
\* wherever the indices wrap, pop() returns the elements in the order pushed.
Abstract == INSTANCE Fifo WITH items <- Items(q), Capacity <- Size,
                               Nothing <- Garbage
Implements == Abstract!Spec

=============================================================================
