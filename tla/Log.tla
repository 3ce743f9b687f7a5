-------------------------------- MODULE Log --------------------------------
(***************************************************************************)
(* core/logger.h: a Logger makes one buffer of every message and waits for *)
(* room in its sink; a BufferedLogger collects messages in buf and hands   *)
(* buf over when the next piece does not fit.                              *)
(*                                                                         *)
(* A message is a text between two colors.  What is written is a sequence  *)
(* of pieces, each with its length; the sink is a queue of such sequences. *)
(*                                                                         *)
(* env.buffered is the kind of logger, env.drained who takes buffers out   *)
(* of the sink: an interrupt, as in UART, or the main loop that logs.      *)
(***************************************************************************)
EXTENDS Integers, Sequences, SequencesExt

CONSTANTS
  QSize,     \* buffers the sink holds
  MAXLEN,    \* length of buf, and of the buffer pre() returns
  Color,     \* length of a color
  Texts,     \* lengths of messages
  MaxMsg     \* bound: messages

VARIABLES
  env,
  out,       \* the sink: a sequence of buffers
  buf,       \* the pieces in buf, or in the buffer that waits for room
  state,     \* "idle"; "spin" in the loop of mklog; "failed"
  said,      \* history: the pieces logged
  heard      \* history: the pieces taken out of the sink

vars == <<env, out, buf, state, said, heard>>

Init == /\ env \in [buffered : BOOLEAN, drained : {"interrupt", "main"}]
        /\ out = << >> /\ buf = << >> /\ state = "idle"
        /\ said = << >> /\ heard = << >>

Length(pieces) ==
  LET upto[n \in 0 .. Len(pieces)] == IF n = 0 THEN 0 ELSE upto[n - 1] + pieces[n].len
  IN  upto[Len(pieces)]
messages == Cardinality({k \in DOMAIN said : said[k].what # "color"})
full == Len(out) = QSize

\* Message k: a level other than NONE has a color, and BufferedLogger writes
\* that of NONE, too.
Pieces(k, n, colored) ==
  LET color == IF colored \/ env.buffered THEN <<[what |-> "color", len |-> Color]>> ELSE << >>
  IN  color \o <<[what |-> "text", msg |-> k, len |-> n]>> \o color

-----------------------------------------------------------------------------
(* BufferedLogger                                                          *)

\* buf is handed over; push asserts, as nobody looked at full()
Flushed(s) ==
  CASE s.buf = << >> -> s
    [] s.buf # << >> /\ Len(s.out) = QSize -> [s EXCEPT !.ok = FALSE]
    [] OTHER -> [s EXCEPT !.out = Append(@, s.buf), !.buf = << >>]

\* mutant: no room is kept for the terminating zero
WrittenTight(s, p) ==
  LET t == IF p.len > MAXLEN - Length(s.buf) THEN Flushed(s) ELSE s
  IN  [t EXCEPT !.buf = Append(@, p)]

\* piece p is written to buf, which is flushed first if p does not fit
Written(s, p) ==
  LET t == IF p.len >= MAXLEN - Length(s.buf) THEN Flushed(s) ELSE s
  IN  [t EXCEPT !.buf = Append(@, p)]

\* vsnprintf cuts off what does not fit and returns what would have been
\* there: from then on ix is beyond buf
mklogBuffered(pieces) ==
  LET after[n \in 0 .. Len(pieces)] ==
        IF n = 0 THEN [out |-> out, buf |-> buf, ok |-> TRUE] ELSE Written(after[n - 1], pieces[n])
      s == after[Len(pieces)]
  IN  /\ out' = s.out /\ buf' = s.buf
      /\ state' = IF s.ok /\ Length(s.buf) < MAXLEN THEN "idle" ELSE "failed"

flush == /\ state = "idle" /\ env.buffered /\ buf # << >>
         /\ LET s == Flushed([out |-> out, buf |-> buf, ok |-> TRUE])
            IN  out' = s.out /\ buf' = s.buf /\ state' = IF s.ok THEN "idle" ELSE "failed"
         /\ UNCHANGED <<env, said, heard>>

-----------------------------------------------------------------------------
(* Logger                                                                  *)

\* the buffer is made, then the loop waits for room
mklogPlain(pieces) ==
  /\ buf' = pieces
  /\ state' = IF Length(pieces) < MAXLEN THEN "spin" ELSE "failed"
  /\ UNCHANGED out

log == /\ state = "idle" /\ messages < MaxMsg
       /\ \E n \in Texts, colored \in BOOLEAN :
            LET pieces == Pieces(messages + 1, n, colored)
            IN  /\ said' = said \o pieces
                /\ IF env.buffered THEN mklogBuffered(pieces) ELSE mklogPlain(pieces)
       /\ UNCHANGED <<env, heard>>

\* a buffer that somebody has filled goes to the sink at once, past what
\* BufferedLogger holds in buf, whose full() looks at buf and not at the sink
push == /\ state = "idle" /\ messages < MaxMsg
        /\ env.buffered \/ ~full
        /\ \E n \in Texts :
             LET piece == [what |-> "filled", len |-> n]
             IN  /\ said' = Append(said, piece)
                 /\ IF full \/ n > MAXLEN THEN state' = "failed" /\ UNCHANGED out
                    ELSE out' = Append(out, <<piece>>) /\ UNCHANGED state
        /\ UNCHANGED <<env, buf, heard>>

\* while (out.full()); out.trypush(b)
Spin == /\ state = "spin" /\ ~full
        /\ out' = Append(out, buf) /\ buf' = << >> /\ state' = "idle"
        /\ UNCHANGED <<env, said, heard>>

-----------------------------------------------------------------------------

Drain == /\ out # << >> /\ state \in {"idle"} \cup IF env.drained = "interrupt" THEN {"spin"} ELSE {}
         /\ heard' = heard \o Head(out) /\ out' = Tail(out)
         /\ UNCHANGED <<env, buf, state, said>>

Next == log \/ push \/ flush \/ Spin \/ Drain

Fairness == WF_vars(Spin) /\ WF_vars(Drain)

Spec == Init /\ [][Next]_vars /\ Fairness

-----------------------------------------------------------------------------
(* Properties                                                              *)

\* a message that does not fit into buf with its colors
TooLong == \E k \in DOMAIN said :
             said[k].len + (IF env.buffered THEN 0 ELSE 2 * Color) >= MAXLEN

\* a filled buffer was pushed through a BufferedLogger
PastBuf == env.buffered /\ \E k \in DOMAIN said : said[k].what = "filled"

\* Whatever is logged is heard once, in order and completely, and no write
\* leaves buf: unless a message was too long for the buffer, or a
\* BufferedLogger had to hand over buf while its sink was full, or handed over
\* a filled buffer before its own.
Heard ==
  \/ TooLong \/ PastBuf \/ (state = "failed" /\ env.buffered /\ full)
  \/ state # "failed" /\ heard \o FlattenSeq(out) \o buf = said

\* A Logger waits for its sink as long as an interrupt empties it; with a sink
\* that only the logging loop empties it would wait for ever.
SpinEnds == env.drained = "interrupt" => (state = "spin" ~> state = "idle")

=============================================================================
