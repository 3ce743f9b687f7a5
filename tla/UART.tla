-------------------------------- MODULE UART --------------------------------
(***************************************************************************)
(* stm/uart.cpp: a serial port.  Buffers wait in tx.q; the one at the      *)
(* front is transmitted, and dropped when its last byte is out.  push is   *)
(* the only one that looks at the deadline of a transmission: one that     *)
(* takes too long, or a receive error, aborts the transmission and starts  *)
(* the front again.  The receiver collects bytes in rx.buf until it is     *)
(* full or the line is idle, and hands it over in rx.q; whatever aborts    *)
(* the transmission aborts the reception too, and what it had collected.   *)
(*                                                                         *)
(* Time runs in quanta, Ms of them a millisecond, as the deadline is made  *)
(* of whole milliseconds and bytes are not.  k.time and uwTick are one     *)
(* clock: SysTick counts both.  A buffer to transmit is its number, lens   *)
(* the lengths; one that is received is the set of its bytes, numbered as  *)
(* they come.                                                              *)
(*                                                                         *)
(* What the port is exposed to is chosen once, in `env`:                   *)
(*   hang     the hardware may stop in a transmission                      *)
(*   receive  the line carries something                                   *)
(*   error    receive errors                                               *)
(*   preempt  interrupts may come between the statements of push           *)
(***************************************************************************)
EXTENDS Integers, Sequences, FiniteSets

CONSTANTS
  QSize,     \* slots of either queue
  Ms,        \* quanta per millisecond
  ByteTime,  \* quanta per byte: 1000 * (8+2) * Ms / BaudRate
  Lens,      \* lengths of buffers to push
  RxSize,    \* bytes that fill rx.buf; 512
  Envs,      \* values of env to look at
  MaxTx,     \* bound: buffers pushed
  MaxRx,     \* bound: bytes that come
  Horizon    \* bound: after this only transmissions take time, and no errors come

VARIABLES
  env,
  now,       \* quanta since the start
  tx,        \* the transmitter, see Init
  rx,        \* the receiver
  pc         \* where the main loop is in push(), "out" of it otherwise

vars == <<env, now, tx, rx, pc>>

Nothing == 0
uwTick == now \div Ms

Init == /\ env \in Envs
        /\ now = Ms                \* uwTick = 0 is a deadline that is not set
        /\ tx = [q |-> << >>, active |-> FALSE, deadline |-> 0,
                 hw |-> Nothing,   \* the buffer the hardware transmits
                 left |-> 0,       \* quanta until it is out
                 hung |-> FALSE,
                 b |-> Nothing,    \* the buffer startTransmit refers to
                 ok |-> TRUE,      \* no assert failed, no bkpt reached
                 lens |-> << >>,   \* the lengths of the buffers pushed
                 gone |-> << >>,   \* history: buffers dropped
                 out |-> << >>,    \* history: buffers transmitted wholly
                 spare |-> 0]      \* history: the largest rest a deadline cut off
        /\ rx = [q |-> << >>, buf |-> {},
                 on |-> TRUE,      \* the hardware receives into buf
                 ok |-> TRUE,      \* no bkpt reached
                 came |-> 0,       \* history: bytes that came
                 read |-> << >>,   \* history: buffers that were read
                 excused |-> {}]   \* history: bytes that may be lost, see below
        /\ pc = "out"

-----------------------------------------------------------------------------
(* The driver                                                              *)

Duration(t, x) == t.lens[x] * ByteTime

\* HAL_UART_Transmit_IT: HAL_BUSY, and the bkpt, while one is under way
HalStart(t, hangs) ==
  IF t.hw # Nothing THEN [t EXCEPT !.ok = FALSE]
  ELSE [t EXCEPT !.hw = t.b, !.left = Duration(t, t.b), !.hung = hangs]

\* mutant: no millisecond is added for what the division cuts off
NeedExactly(t, x) == Duration(t, x) \div Ms

Need(t, x) == Duration(t, x) \div Ms + 1

Hangs == IF env.hang THEN BOOLEAN ELSE {FALSE}

Marked(t) == [t EXCEPT !.active = TRUE, !.b = Head(t.q)]
Timed(t) == [t EXCEPT !.deadline = uwTick + Need(t, t.b)]

startTransmit(t) ==
  IF t.q = << >> THEN {t} ELSE {Timed(HalStart(Marked(t), h)) : h \in Hangs}

Expired(t) == t.active /\ t.deadline # 0 /\ ~(uwTick < t.deadline)

\* HAL_UART_Abort ends both directions
Aborted(t) == [t EXCEPT !.hw = Nothing, !.left = 0, !.hung = FALSE]
AbortedRx(r) == [r EXCEPT !.on = FALSE, !.buf = {}]

\* HAL_UARTEx_ReceiveToIdle_IT: HAL_BUSY, and the bkpt, while it receives
startReceive(r) == IF r.on THEN [r EXCEPT !.ok = FALSE] ELSE [r EXCEPT !.on = TRUE, !.buf = {}]

_errcallback(t) == startTransmit(Aborted(t))

\* mutant: another buffer is dropped, too
_txcallbackTwice(t) ==
  startTransmit([t EXCEPT !.q = IF Len(@) > 1 THEN SubSeq(@, 3, Len(@)) ELSE << >>,
                          !.gone = Append(@, Head(t.q)), !.active = FALSE, !.deadline = 0])

\* mutant: the next is not started
_txcallbackNoPoll(t) ==
  {[t EXCEPT !.q = Tail(@), !.gone = Append(@, Head(t.q)), !.active = FALSE, !.deadline = 0]}

\* drop() asserts; poll() finds nothing active
_txcallback(t) ==
  IF t.q = << >> THEN {[t EXCEPT !.ok = FALSE]}
  ELSE startTransmit([t EXCEPT !.q = Tail(@), !.gone = Append(@, Head(t.q)),
                               !.active = FALSE, !.deadline = 0])

\* the reception is over; a buffer too many is dropped
_rxevent(r) ==
  startReceive([r EXCEPT !.on = FALSE, !.q = IF Len(@) < QSize THEN Append(@, r.buf) ELSE @])

-----------------------------------------------------------------------------
(* The interrupts; one that is pending is served before the main loop goes *)
(* on, and before time does                                                *)

Running == tx.ok /\ rx.ok
Interruptible == Running /\ (env.preempt \/ pc = "out")
Pending == tx.hw # Nothing /\ tx.left = 0

TxDone ==
  /\ Interruptible /\ Pending
  /\ tx' \in _txcallback([tx EXCEPT !.hw = Nothing, !.out = Append(@, tx.hw)])
  /\ UNCHANGED <<env, now, rx, pc>>

\* history: what is lost with buf now may be
Excused(r) == [r EXCEPT !.excused = @ \cup r.buf]

\* an error of the receiver; it may cost what was being received
RxError ==
  /\ Interruptible /\ env.error /\ ~Pending /\ now < Horizon
  /\ tx' \in _errcallback(tx)
  /\ rx' = startReceive(AbortedRx(Excused(rx)))
  /\ UNCHANGED <<env, now, pc>>

\* "dropping Buffer, reader should call more often..."
Collected(r) == _rxevent(IF Len(r.q) < QSize THEN r ELSE Excused(r))

\* a byte comes, and may be the last that rx.buf has room for; or it meets a
\* receiver that push is about to start again
RxByte ==
  /\ Interruptible /\ env.receive /\ rx.came < MaxRx
  /\ LET n == rx.came + 1
         r == [rx EXCEPT !.came = n, !.buf = @ \cup {n}]
     IN  rx' = IF ~rx.on THEN [rx EXCEPT !.came = n]
               ELSE IF Cardinality(r.buf) = RxSize THEN Collected(r) ELSE r
  /\ UNCHANGED <<env, now, tx, pc>>

\* the line falls idle after some bytes
RxIdle ==
  /\ Interruptible /\ rx.on /\ rx.buf # {}
  /\ rx' = Collected(rx)
  /\ UNCHANGED <<env, now, tx, pc>>

Quantum ==
  /\ Interruptible /\ ~Pending
  /\ now < Horizon \/ (tx.left > 0 /\ ~tx.hung)
  /\ now' = now + 1
  /\ tx' = [tx EXCEPT !.left = IF @ > 0 /\ ~tx.hung THEN @ - 1 ELSE @]
  /\ UNCHANGED <<env, rx, pc>>

-----------------------------------------------------------------------------
(* push and pop in the main loop                                           *)

Step(here, there) == pc = here /\ Running /\ ~Pending /\ pc' = there /\ UNCHANGED <<env, now>>

Push == /\ Step("out", "poll") /\ Len(tx.q) < QSize /\ Len(tx.lens) < MaxTx
        /\ \E n \in Lens :
             tx' = [tx EXCEPT !.q = Append(@, Len(tx.lens) + 1), !.lens = Append(@, n)]
        /\ UNCHANGED rx

Poll == /\ Step("poll", IF Expired(tx) THEN "error" ELSE "free")
        /\ tx' = [tx EXCEPT !.deadline = IF Expired(tx) THEN 0 ELSE @]
        /\ UNCHANGED rx

Busy == Step("free", "out") /\ tx.active /\ UNCHANGED <<tx, rx>>

Free == Step("free", "begin") /\ ~tx.active /\ UNCHANGED <<tx, rx>>

\* _errcallback: transmission and reception are aborted and started again; a
\* transmission that hangs or is in its last millisecond may cost what was being
\* received
TimedOut == /\ Step("error", "listen")
            /\ tx' = Aborted([tx EXCEPT !.spare = IF tx.hung \/ tx.left < @ THEN @ ELSE tx.left])
            /\ rx' = AbortedRx(IF tx.hung \/ tx.left < Ms THEN Excused(rx) ELSE rx)

Listen == Step("listen", "begin") /\ rx' = startReceive(rx) /\ UNCHANGED tx

Begin == /\ Step("begin", IF tx.q = << >> THEN "out" ELSE "start")
         /\ tx' = IF tx.q = << >> THEN tx ELSE Marked(tx)
         /\ UNCHANGED rx

Start == /\ Step("start", "deadline")
         /\ \E h \in Hangs : tx' = HalStart(tx, h)
         /\ UNCHANGED rx

\* by now b may have been transmitted and dropped, and the next be under way
Deadline == Step("deadline", "out") /\ tx' = Timed(tx) /\ UNCHANGED rx

Main == Poll \/ Busy \/ Free \/ TimedOut \/ Listen \/ Begin \/ Start \/ Deadline

Pop == /\ Step("out", "out") /\ rx.q # << >>
       /\ rx' = [rx EXCEPT !.q = Tail(@), !.read = Append(@, Head(rx.q))]
       /\ UNCHANGED tx

Next == TxDone \/ RxError \/ RxByte \/ RxIdle \/ Quantum \/ Push \/ Main \/ Pop

\* time passes, the hardware's interrupts are served, the main loop returns
\* from push
Fairness == WF_vars(Quantum) /\ WF_vars(TxDone) /\ WF_vars(Main)

Spec == Init /\ [][Next]_vars /\ Fairness

-----------------------------------------------------------------------------
(* Properties                                                              *)

TypeOK ==
  /\ env \in Envs /\ now \in Nat
  /\ pc \in {"out", "poll", "error", "listen", "free", "begin", "start", "deadline"}
  /\ Len(tx.q) <= QSize /\ Len(rx.q) <= QSize
  /\ tx.left >= 0 /\ tx.deadline \in Nat /\ (tx.b = Nothing \/ tx.b \in DOMAIN tx.lens)

\* a receive error inside of push starts a transmission that push starts again
Exposed == env.preempt /\ env.error

\* Buffers are transmitted in the order pushed, each of them to its end once,
\* however often an error or a deadline cuts one off: none is lost, and no
\* assert and no bkpt is reached.  The exception is Exposed.
Transmitted ==
  Exposed \/ /\ TypeOK /\ tx.ok
             /\ tx.gone \o tx.q = [k \in 1 .. Len(tx.lens) |-> k]
             /\ tx.out = tx.gone

\* A deadline cuts off less than a millisecond of a transmission that runs.
HardlyCut == ~env.preempt => tx.spare < Ms

\* The receiver listens but while push starts it again.  Its reader gets every
\* byte at most once, in order and in buffers without gaps.  Without interrupts
\* inside of push it gets each byte that came, or will, but for those a receive
\* error, a transmission that hangs or the last millisecond of one that runs cut
\* off, and buffers that were complete while QSize of them waited.
Received ==
  Exposed \/
  LET got == rx.read \o rx.q \o <<rx.buf>>
      all == UNION {got[i] : i \in DOMAIN got}
  IN  /\ rx.ok /\ (rx.on \/ pc = "listen")
      /\ \A i, j \in DOMAIN got : i < j => \A m \in got[i], n \in got[j] : m < n
      /\ \A i \in DOMAIN got : \A m, n \in got[i] : m .. n \subseteq got[i]
      /\ ~env.preempt => 1 .. rx.came \subseteq all \cup rx.excused

\* All that is pushed is transmitted, once errors end; a transmission that hangs
\* has to wait for the next push.  The exception is Exposed.
ComesToRest == Exposed \/ []<>(tx.q = << >> \/ tx.hung)

=============================================================================
