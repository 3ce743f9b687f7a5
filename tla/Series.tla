------------------------------- MODULE Series -------------------------------
(***************************************************************************)
(* comm/frameregistry.h, comm/series.h: frames are handled by whoever is   *)
(* registered for their id, and a SeriesUnpacker makes one buffer of a     *)
(* series of values that was cut into frames: the first of them holds the  *)
(* number of values, too.  Series of different ids may be under way at     *)
(* once; the frames of one id come in order, and none is lost.             *)
(***************************************************************************)
EXTENDS Integers, Sequences, SequencesExt

CONSTANTS
  LEN,       \* SeriesUnpacker::LEN, values that fit into a frame
  Ids,       \* ids of frames
  Handled,   \* the ids a handler is registered for
  Sizes,     \* numbers of values in a series
  MaxSeries  \* bound: series sent

VARIABLES
  wire,      \* of every id: frames on their way
  sent,      \* history: of every id, the sizes of the series sent
  unpacker,  \* of every handled id: start, buf and its size
  result     \* history: of every handled id, the buffers unpack() returned

vars == <<wire, sent, unpacker, result>>

Init == /\ wire = [id \in Ids |-> << >>] /\ sent = [id \in Ids |-> << >>]
        /\ unpacker = [id \in Handled |-> [start |-> TRUE, size |-> 0, buf |-> << >>]]
        /\ result = [id \in Handled |-> << >>]

\* the values of series s
Values(s, n) == [i \in 1 .. n |-> <<s, i>>]

\* what pywisp makes of a series of n values: n and LEN - 1 values in the
\* first frame, LEN in the others; a frame is the sequence of its words
Cut(s, n) ==
  LET part(k) == SubSeq(Values(s, n), IF k = 1 THEN 1 ELSE (k - 1) * LEN, Min({n, k * LEN - 1}))
  IN  [k \in 1 .. n \div LEN + 1 |-> (IF k = 1 THEN <<n>> ELSE << >>) \o part(k)]

Send(id, n) ==
  /\ FoldSet(LAMBDA i, k : Len(sent[i]) + k, 0, Ids) < MaxSeries
  /\ sent' = [sent EXCEPT ![id] = Append(@, n)]
  /\ wire' = [wire EXCEPT ![id] = @ \o Cut(Len(sent[id]) + 1, n)]
  /\ UNCHANGED <<unpacker, result>>

\* mutant: after the last value the next frame still belongs to the series
unpackOn(u, f) ==
  LET size == IF u.start THEN f[1] ELSE u.size
      read == SubSeq(f, IF u.start THEN 2 ELSE 1, Len(f))
  IN  [start |-> FALSE, size |-> size,
       buf |-> (IF u.start THEN << >> ELSE u.buf) \o read]

unpack(u, f) ==
  LET size == IF u.start THEN f[1] ELSE u.size
      old == IF u.start THEN << >> ELSE u.buf
      read == SubSeq(f, IF u.start THEN 2 ELSE 1, Len(f))
      buf == old \o SubSeq(read, 1, Min({size - Len(old), Len(read)}))
  IN  [start |-> Len(buf) = size, size |-> size, buf |-> buf]

\* FrameRegistry::handle; frames nobody is registered for are dropped
handle(id) ==
  /\ wire[id] # << >>
  /\ wire' = [wire EXCEPT ![id] = Tail(@)]
  /\ IF id \notin Handled THEN UNCHANGED <<unpacker, result>>
     ELSE LET u == unpack(unpacker[id], Head(wire[id])) IN
          /\ unpacker' = [unpacker EXCEPT ![id] = u]
          /\ result' = IF u.start /\ u.size > 0
                       THEN [result EXCEPT ![id] = Append(@, u.buf)] ELSE result
  /\ UNCHANGED sent

Next == \E id \in Ids : handle(id) \/ \E n \in Sizes : Send(id, n)

Spec == Init /\ [][Next]_vars

-----------------------------------------------------------------------------
(* Properties                                                              *)

\* The series sent to an id, those without values left out
Filled(id) ==
  FlattenSeq([s \in DOMAIN sent[id] |->
                IF sent[id][s] = 0 THEN << >> ELSE <<Values(s, sent[id][s])>>])

\* Every series is returned once, when its last value has come, with exactly
\* its values, whether it ends inside of a frame or at its end, and whatever is
\* under way to other ids; no values of one series get into the next.
SeriesWhole ==
  \A id \in Handled :
    /\ IsPrefix(result[id], Filled(id))
    /\ wire[id] = << >> => result[id] = Filled(id) /\ unpacker[id].start

=============================================================================
