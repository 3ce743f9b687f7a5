----------------------------- MODULE RingQueue -----------------------------
(***************************************************************************)
(* utils/queue.h: the data structure behind Queue<T>, as operators on a    *)
(* record.  A Queue is a Buffer used as a ring: `slot` is the allocated    *)
(* array, `len` and `size` are the Buffer's counters, `head` and `tail`    *)
(* are the two WrappingIndex values and `wrap` is the modulus they carry   *)
(* of their own (it survives a move of the Buffer, which zeroes `size`).   *)
(*                                                                         *)
(* Garbage stands for the content of a slot that holds no element: freshly *)
(* allocated memory, or an element that was moved out.                     *)
(***************************************************************************)
EXTENDS Integers, Sequences

CONSTANTS Elem, Garbage

Slots(n) == 0 .. n - 1

\* Queue(size_t size)
Fresh(n) == [slot |-> [i \in Slots(n) |-> Garbage], len |-> 0, size |-> n,
             head |-> 0, tail |-> 0, wrap |-> n]

\* Queue(const Buffer<T> &) and Queue(Buffer<T> &&), from a filled Buffer
FromBuffer(s) == [slot |-> [i \in Slots(Len(s)) |-> s[i + 1]], len |-> Len(s),
                  size |-> Len(s), head |-> 0, tail |-> 0, wrap |-> Len(s)]

Full(q)  == q.len = q.size
Empty(q) == q.len = 0

\* WrappingIndex::operator++: the index after ix
After(q, ix) == (ix + 1) % q.wrap

\* mutant: q[++head]
FrontPreIncrement(q) == q.slot[After(q, q.head)]

Front(q)    == q.slot[q.head]
GetAt(q, i) == q.slot[(q.head + i) % q.wrap]

\* the elements in the order pop() will return them
Items(q) == [i \in 1 .. q.len |-> GetAt(q, i - 1)]

Pushed(q, v) == [q EXCEPT !.slot = [@ EXCEPT ![q.tail] = v],
                          !.tail = After(q, q.tail),
                          !.len = @ + 1]

\* mutant: drop() forgets to advance head
DroppedInPlace(q) == [q EXCEPT !.len = @ - 1]

\* drop() leaves the element in its slot, pop() moves it out of there
Dropped(q) == [q EXCEPT !.len = @ - 1, !.head = After(q, q.head)]
Popped(q)  == [Dropped(q) EXCEPT !.slot = [@ EXCEPT ![q.head] = Garbage]]

=============================================================================
