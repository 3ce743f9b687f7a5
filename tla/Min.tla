-------------------------------- MODULE Min --------------------------------
(***************************************************************************)
(* comm/min.h: frames over a byte stream.  Out::push turns a frame into    *)
(* bytes, a header that the stuffing keeps unique, id, length, payload and *)
(* checksum; In::byte takes the stream apart again, whatever its chunks    *)
(* are and from wherever it starts to listen.                              *)
(*                                                                         *)
(* The bytes that matter to the protocol keep their values.  The CRC is an *)
(* ideal one: a function, any that tells the bodies (id, length, payload)  *)
(* of the frames that may be sent apart; no other body has a checksum.     *)
(* The line between the two sides may damage a frame in one place.         *)
(***************************************************************************)
EXTENDS Integers, Sequences

CONSTANTS
  Ids,        \* Frame::id, in 0 .. 63
  Payloads,   \* payloads that are sent
  Sums,       \* checksums, as four bytes
  FrameSize,  \* size of a Frame's payload buffer: 128
  ReqSize,    \* size of Out's buffer: 128
  QSize,      \* In's queue: 20
  Chunks,     \* sizes of the buffers the source hands out
  MaxFrames,  \* bound: frames sent
  MaxFaults   \* bound: damages

HEADER_BYTE == 170
STUFF_BYTE == 85
EOF_BYTE == 85

VARIABLES
  countdown,  \* Out::header_countdown, kept from one frame to the next
  sums,       \* the CRC, which never changes
  line,       \* bytes on their way
  in,         \* the In object: state, header_seen, frame, queue ...
  sent,       \* history: the frames pushed into Out
  received,   \* history: the frames popped from In
  dropped,    \* history: frames In had no room for
  faults      \* history: damages so far

vars == <<countdown, sums, line, in, sent, received, dropped, faults>>

Frames == [id : Ids, b : Payloads]

Body(f) == <<f.id, Len(f.b)>> \o f.b

Injective(f) == \A x, y \in DOMAIN f : f[x] = f[y] => x = y

Checksums == {c \in [{Body(f) : f \in Frames} -> Sums] : Injective(c)}

Init == /\ countdown = 2
        /\ sums \in Checksums
        /\ line = << >>
        /\ in = [state |-> "SOF", header_seen |-> 0, ok |-> TRUE,
                 id |-> 0, b |-> << >>, frame_length |-> 0,
                 crc |-> << >>, sum |-> << >>, queue |-> << >>, lost |-> 0]
        /\ sent = << >> /\ received = << >> /\ dropped = 0 /\ faults = 0

-----------------------------------------------------------------------------
(* Out                                                                     *)

stuff(s, b) ==
  [req |-> IF b = HEADER_BYTE /\ s.countdown = 1 THEN s.req \o <<b, STUFF_BYTE>>
                                                 ELSE Append(s.req, b),
   countdown |-> IF b = HEADER_BYTE /\ s.countdown = 2 THEN 1 ELSE 2]

\* push(): the request and the countdown that is left
Encoded(f) ==
  LET bytes == Body(f) \o sums[Body(f)]
      after[n \in 0 .. Len(bytes)] ==
        IF n = 0 THEN [req |-> <<HEADER_BYTE, HEADER_BYTE, HEADER_BYTE>>, countdown |-> countdown]
                 ELSE stuff(after[n - 1], bytes[n])
      s == after[Len(bytes)]
  IN  [req |-> Append(s.req, EOF_BYTE), countdown |-> s.countdown]

-----------------------------------------------------------------------------
(* In: byte(b), on the object s                                            *)

\* mutant: the checksum is not looked at
CrcIgnored(s, sum) == TRUE

\* frame_crc == crc.finalize()
CrcMatches(s, sum) == s.crc \in DOMAIN sums /\ sums[s.crc] = sum

\* queue.trypush(std::move(frame))
Delivered(s, f) == IF Len(s.queue) < QSize THEN [s EXCEPT !.queue = Append(@, f)]
                                           ELSE [s EXCEPT !.lost = @ + 1]

\* the byte after two header bytes
ThirdByte(s, b) == [s EXCEPT !.header_seen = 0,
                             !.state = CASE b = HEADER_BYTE -> "ID"
                                         [] b = STUFF_BYTE  -> @
                                         [] OTHER           -> "SOF"]

Stepped(s, b) == [s EXCEPT !.crc = Append(@, b)]

Field(s, b) ==
  CASE s.state = "SOF" -> s
    [] s.state = "ID" ->
         [s EXCEPT !.id = b % 64, !.b = << >>, !.crc = <<b>>, !.state = "LENGTH"]
    [] s.state = "LENGTH" ->
         [Stepped(s, b) EXCEPT !.frame_length = b, !.sum = << >>,
                               !.state = IF b > 0 THEN "PAYLOAD" ELSE "CHECKSUM"]
    [] s.state = "PAYLOAD" ->
         IF Len(s.b) = FrameSize THEN [s EXCEPT !.ok = FALSE]
         ELSE [Stepped(s, b) EXCEPT !.b = Append(@, b), !.frame_length = @ - 1,
                                    !.state = IF s.frame_length = 1 THEN "CHECKSUM" ELSE @]
    [] s.state = "CHECKSUM" ->
         LET sum == Append(s.sum, b)
         IN  IF Len(sum) < 4 THEN [s EXCEPT !.sum = sum]
             ELSE [IF CrcMatches(s, sum) THEN Delivered(s, [id |-> s.id, b |-> s.b]) ELSE s
                     EXCEPT !.sum = << >>, !.state = "SOF"]

\* mutant: a header inside of a frame does not start a new one
byteNoRestart(s, b) ==
  IF s.header_seen = 2 /\ s.state = "SOF" THEN ThirdByte(s, b)
  ELSE Field([s EXCEPT !.header_seen = IF b = HEADER_BYTE /\ @ < 2 THEN @ + 1 ELSE 0], b)

byte(s, b) ==
  IF s.header_seen = 2 THEN ThirdByte(s, b)
  ELSE Field([s EXCEPT !.header_seen = IF b = HEADER_BYTE THEN @ + 1 ELSE 0], b)

Consumed(s, buf) ==
  LET after[n \in 0 .. Len(buf)] == IF n = 0 THEN s ELSE byte(after[n - 1], buf[n])
  IN  after[Len(buf)]

-----------------------------------------------------------------------------
(* The line: a frame arrives as it was sent, or with one byte missing, one *)
(* too many or one wrong                                                   *)

Noise == {0, STUFF_BYTE, HEADER_BYTE}

Missing(buf)  == {SubSeq(buf, 1, i - 1) \o SubSeq(buf, i + 1, Len(buf)) : i \in 1 .. Len(buf)}
Extra(buf, x) == {SubSeq(buf, 1, i) \o <<x>> \o SubSeq(buf, i + 1, Len(buf)) : i \in 0 .. Len(buf)}
Wrong(buf, x) == {[buf EXCEPT ![i] = x] : i \in 1 .. Len(buf)}

Damaged(buf) == Missing(buf) \cup UNION {Extra(buf, x) \cup Wrong(buf, x) : x \in Noise}

-----------------------------------------------------------------------------

\* Out::push: the assert of req.append is the guard
Push(f) ==
  LET e == Encoded(f)
  IN  /\ Len(sent) < MaxFrames /\ Len(e.req) <= ReqSize
      /\ countdown' = e.countdown
      /\ sent' = Append(sent, f)
      /\ \/ line' = line \o e.req /\ UNCHANGED faults
         \/ /\ faults < MaxFaults /\ faults' = faults + 1
            /\ \E d \in Damaged(e.req) : line' = line \o d
      /\ UNCHANGED <<sums, in, received, dropped>>

\* In::empty: one more buffer of the source, unless the queue is full
Receive(n) ==
  LET size == IF n < Len(line) THEN n ELSE Len(line)
      next == Consumed(in, SubSeq(line, 1, size))
  IN  /\ line # << >> /\ in.ok /\ Len(in.queue) < QSize
      /\ line' = SubSeq(line, size + 1, Len(line))
      /\ in' = [next EXCEPT !.lost = 0]
      /\ dropped' = dropped + next.lost
      /\ UNCHANGED <<countdown, sums, sent, received, faults>>

\* In::pop
Pop == /\ in.queue # << >>
       /\ received' = Append(received, Head(in.queue))
       /\ in' = [in EXCEPT !.queue = Tail(@)]
       /\ UNCHANGED <<countdown, sums, line, sent, dropped, faults>>

Next == \/ Pop
        \/ \E f \in Frames : Push(f)
        \/ \E n \in Chunks : Receive(n)

Spec == Init /\ [][Next]_vars

-----------------------------------------------------------------------------
(* Properties                                                              *)

Arrived == received \o in.queue

\* In's buffers stay in their bounds, and the state has its type, whatever the
\* line makes of the frames.
Bounded == /\ countdown \in {1, 2} /\ line \in Seq(0 .. 255)
           /\ in.state \in {"SOF", "ID", "LENGTH", "PAYLOAD", "CHECKSUM"}
           /\ in.header_seen \in 0 .. 2 /\ in.frame_length \in 0 .. 255
           /\ in.id \in 0 .. 63 /\ Len(in.queue) <= QSize
           /\ Len(in.sum) < 4 /\ Len(in.b) <= FrameSize
           /\ dropped \in Nat /\ faults \in 0 .. MaxFaults

\* No frame is delivered that is put together from parts of others, has lost a
\* byte or has one too many: identifier, length and payload are those that the
\* checksum was made of, whatever the line does.
WholeFrames == \A i \in DOMAIN Arrived : Arrived[i] \in Frames

\* However a byte of the stream is damaged, a wrong length included, the next
\* header comes before the payload buffer of a frame overflows.
Sound == Bounded /\ WholeFrames /\ in.ok

\* What arrives was sent, in this order and nothing of it twice, however the
\* line damages the stream, as long as no payload holds the bytes of a whole
\* other frame: without the byte that stuffs its header, that frame is heard.
OnlySentFrames ==
  \E at \in [DOMAIN Arrived -> DOMAIN sent] :
    /\ \A i, j \in DOMAIN Arrived : i < j => at[i] < at[j]
    /\ \A i \in DOMAIN Arrived : Arrived[i] = sent[at[i]]

\* Over an undamaged line every frame arrives that In has room for, whatever
\* bytes it is made of, wherever the stream is cut into buffers; and a damage
\* costs at most one frame, as the receiver finds the header of the next.
OneFrameLost ==
  line = << >> => Len(sent) <= Len(Arrived) + dropped + faults

=============================================================================
