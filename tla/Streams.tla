------------------------------- MODULE Streams -------------------------------
(***************************************************************************)
(* comm/bufferutils.h: SplitPull gives the data of one Source to two       *)
(* readers, Tee to one reader and a Sink, SplitPush pushes into two Sinks. *)
(* A reader looks at empty(), which fetches, and pops when it is not.      *)
(*                                                                         *)
(* env is the helper; a and b are its two ends: the queues of the readers  *)
(* or of the Sinks, whose own readers pop when they like.  Buffers are     *)
(* numbered as they come.                                                  *)
(***************************************************************************)
EXTENDS Integers, Sequences, SequencesExt

CONSTANTS
  QSize,     \* buffers either end holds
  MaxIn      \* bound: buffers that come

VARIABLES
  env,       \* "SplitPull", "Tee" or "SplitPush"
  from,      \* what the Source holds
  came,      \* buffers that came
  end,       \* the queues of the ends
  got,       \* history: what was popped at the ends
  ok         \* no assert failed

vars == <<env, from, came, end, got, ok>>

Ends == {"a", "b"}
Other(x) == IF x = "a" THEN "b" ELSE "a"

Init == /\ env \in {"SplitPull", "Tee", "SplitPush"}
        /\ from = << >> /\ came = 0 /\ ok = TRUE
        /\ end = [x \in Ends |-> << >>] /\ got = [x \in Ends |-> << >>]

Full(x) == Len(end[x]) = QSize

Arrive == /\ ok /\ env # "SplitPush" /\ came < MaxIn
          /\ came' = came + 1 /\ from' = Append(from, came')
          /\ UNCHANGED <<env, end, got, ok>>

\* SplitPush::push, behind a look at its full()
SplitPush ==
  /\ ok /\ env = "SplitPush" /\ came < MaxIn /\ \A x \in Ends : ~Full(x)
  /\ came' = came + 1
  /\ end' = [x \in Ends |-> Append(end[x], came')]
  /\ UNCHANGED <<env, from, got, ok>>

\* SplitPull: empty() of end x fetches as long as x has room; the push into
\* the other end asserts
\* mutant: the other end is asked for room, and skipped
FetchedPolite(x) ==
  LET n == Min({QSize - Len(end[x]), Len(from)})
      m == Min({QSize - Len(end[Other(x)]), n})
  IN  [from |-> SubSeq(from, n + 1, Len(from)), ok |-> TRUE,
       end |-> [y \in Ends |-> end[y] \o SubSeq(from, 1, IF y = x THEN n ELSE m)]]

Fetched(x) ==
  LET n == Min({QSize - Len(end[x]), Len(from)})
      m == Min({QSize - Len(end[Other(x)]), n})
  IN  [from |-> SubSeq(from, (IF m < n THEN m + 1 ELSE n) + 1, Len(from)), ok |-> m = n,
       end |-> [y \in Ends |-> end[y] \o SubSeq(from, 1, m)]]

\* the same of a Tee, whose Sink takes what it has room for
Teed ==
  LET n == Min({QSize - Len(end["a"]), Len(from)})
      m == Min({QSize - Len(end["b"]), n})
  IN  [from |-> SubSeq(from, n + 1, Len(from)), ok |-> TRUE,
       end |-> [y \in Ends |-> end[y] \o SubSeq(from, 1, IF y = "a" THEN n ELSE m)]]

\* a reader's look at empty()
Look(x) ==
  LET s == IF env = "Tee" THEN Teed ELSE Fetched(x)
  IN  /\ ok /\ from # << >> /\ \/ env = "SplitPull"
                               \/ env = "Tee" /\ x = "a"
      /\ from' = s.from /\ end' = s.end /\ ok' = s.ok
      /\ UNCHANGED <<env, came, got>>

Pop(x) == /\ ok /\ end[x] # << >>
          /\ got' = [got EXCEPT ![x] = Append(@, Head(end[x]))]
          /\ end' = [end EXCEPT ![x] = Tail(@)]
          /\ UNCHANGED <<env, from, came, ok>>

Next == Arrive \/ SplitPush \/ \E x \in Ends : Look(x) \/ Pop(x)

Spec == Init /\ [][Next]_vars

-----------------------------------------------------------------------------
(* Properties                                                              *)

Had(x) == got[x] \o end[x]
Upto(n) == [k \in 1 .. n |-> k]

\* Both readers of a SplitPull and both Sinks of a SplitPush are given all
\* that was taken from the Source, in order and once; so is the reader of a
\* Tee, whose Sink misses only what came while it was full.  SplitPull asserts
\* when a reader has left QSize buffers unread, and nothing else does.
SameForBoth ==
  /\ ok => /\ Had("a") \o from = Upto(came)
           /\ env # "Tee" => Had("b") = Had("a")
  /\ env = "Tee" => /\ \A i, j \in DOMAIN Had("b") : i < j => Had("b")[i] < Had("b")[j]
                    /\ Len(Had("a")) > Len(Had("b")) => Len(Had("b")) >= QSize
  /\ ~ok => env = "SplitPull" /\ \E x \in Ends : Full(x)

=============================================================================
