-------------------------------- MODULE Lines --------------------------------
(***************************************************************************)
(* comm/line.h: LineDelimiter ends every buffer with a newline, LineFilter *)
(* at the other end of the line makes buffers of the bytes that come, in   *)
(* whatever portions.                                                      *)
(*                                                                         *)
(* A byte is <<message, position>>, so that it is known where it belongs;  *)
(* position 0 is a newline, of either kind.                                *)
(***************************************************************************)
EXTENDS Integers, Sequences, SequencesExt

CONSTANTS
  linelen,   \* length of the stash
  QSize,     \* lines the filter's queue holds
  Lens,      \* lengths of messages
  MaxMsg,    \* bound: messages
  MaxWire    \* bound: bytes and portions under way

VARIABLES
  sent,      \* history: the lengths of the messages sent
  wire,      \* bytes on their way
  source,    \* the portions that have come
  q, l,      \* the filter's queue and stash
  got,       \* history: lines popped
  lost       \* history: lines trypush found no room for

vars == <<sent, wire, source, q, l, got, lost>>

Init == /\ sent = << >> /\ wire = << >> /\ source = << >>
        /\ q = << >> /\ l = << >> /\ got = << >> /\ lost = 0

NL(b) == b[2] = 0

\* LineDelimiter::push; other peers end a line by CR LF
Push == /\ Len(sent) < MaxMsg /\ Len(wire) < MaxWire
        /\ \E n \in Lens, ends \in 1 .. 2 :
             /\ sent' = Append(sent, n)
             /\ wire' = wire \o [i \in 1 .. n + ends |-> <<Len(sent'), IF i <= n THEN i ELSE 0>>]
        /\ UNCHANGED <<source, q, l, got, lost>>

\* the line hands over what it has so far
Portion == \E n \in 1 .. Len(wire) :
             /\ Len(source) < MaxWire
             /\ source' = Append(source, SubSeq(wire, 1, n))
             /\ wire' = SubSeq(wire, n + 1, Len(wire))
             /\ UNCHANGED <<sent, q, l, got, lost>>

\* the stash is handed over; trypush discards it when q is full
HandedOver(s) ==
  IF Len(s.q) < QSize THEN [s EXCEPT !.q = Append(@, s.l), !.l = << >>]
  ELSE [s EXCEPT !.l = << >>, !.lost = @ + 1]

\* mutant: a newline ends a line, whatever is in the stash
recvEmpty(s, b) ==
  CASE NL(b)                         -> HandedOver(s)
    [] ~NL(b) /\ Len(s.l) = linelen  -> [s EXCEPT !.l = <<b>>]
    [] OTHER                         -> [s EXCEPT !.l = Append(@, b)]

recv(s, b) ==
  CASE NL(b) /\ s.l = << >>          -> s
    [] NL(b) /\ s.l # << >>          -> HandedOver(s)
    [] ~NL(b) /\ Len(s.l) = linelen  -> [s EXCEPT !.l = <<b>>]
    [] OTHER                         -> [s EXCEPT !.l = Append(@, b)]

\* a portion is taken to its end; none is when q is full
PortionTaken(s) ==
  IF Len(s.q) = QSize \/ s.source = << >> THEN s
  ELSE LET bytes == Head(s.source)
           after[n \in 0 .. Len(bytes)] ==
             IF n = 0 THEN [s EXCEPT !.source = Tail(@)] ELSE recv(after[n - 1], bytes[n])
       IN  after[Len(bytes)]

\* every portion has its turn
Taken(s) ==
  LET after[n \in 0 .. Len(s.source)] == IF n = 0 THEN s ELSE PortionTaken(after[n - 1])
  IN  after[Len(s.source)]

empty == /\ source # << >> /\ Len(q) < QSize
         /\ LET s == Taken([source |-> source, q |-> q, l |-> l, lost |-> lost])
            IN  source' = s.source /\ q' = s.q /\ l' = s.l /\ lost' = s.lost
         /\ UNCHANGED <<sent, wire, got>>

pop == /\ q # << >>
       /\ got' = Append(got, Head(q)) /\ q' = Tail(q)
       /\ UNCHANGED <<sent, wire, source, l, lost>>

Next == Push \/ Portion \/ empty \/ pop

Spec == Init /\ [][Next]_vars

-----------------------------------------------------------------------------
(* Properties                                                              *)

\* what the first n bytes of message k leave in the stash: the start of a
\* message that is longer than it gets lost
Kept(k, n) == LET first == ((n - 1) \div linelen) * linelen + 1
              IN  [i \in 1 .. n - first + 1 |-> <<k, first + i - 1>>]

Expected ==
  FlattenSeq([k \in DOMAIN sent |-> IF sent[k] = 0 THEN << >> ELSE <<Kept(k, sent[k])>>])

\* However the bytes are portioned, the lines that come are the messages that
\* were sent, in order, whole and unmixed, but for empty ones, for the start of
\* those longer than the stash, and for those that came in one portion with
\* more lines than the queue had room for.
LinesArrive ==
  LET lines == got \o q
  IN  /\ lost = 0 => /\ IsPrefix(lines, Expected)
                     /\ wire = << >> /\ source = << >> => lines = Expected
      /\ Range(lines) \subseteq Range(Expected)
      /\ \A i, j \in DOMAIN lines : i < j => lines[i][1][1] < lines[j][1][1]
      /\ Len(lines) + lost <= Len(Expected)

=============================================================================
