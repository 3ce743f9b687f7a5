------------------------------- MODULE BNO085 -------------------------------
(***************************************************************************)
(* dev/BNO085.h: the driver of a BNO085 on an I2C bus.  What the sensor    *)
(* has to say is fetched in two steps: a read of a header tells the length *)
(* of the message, a read of that length brings it.  Its records (FRS) are *)
(* written and read in transactions of one or more operations, that wait   *)
(* for each other in a queue.                                              *)
(*                                                                         *)
(* A length is counted in headers (4 bytes).  The sensor is external: when *)
(* less than a message was read, the rest of it comes with the next read,  *)
(* under a header of its own (line 621, "continuation").  The numbers of   *)
(* messages in `seq` are only logged, and left out.                        *)
(*                                                                         *)
(* What it is exposed to is chosen once, in `env`:                         *)
(*   overlap  poll() may be called while a message is being fetched        *)
(*   equal    all messages have one length                                 *)
(*   ready    the sensor answers "write mode ready", status 4, to a write  *)
(*            request; it answers with status 0 otherwise                  *)
(***************************************************************************)
EXTENDS Integers, Sequences, FiniteSets

CONSTANTS
  BusSize,   \* requests the bus has room for
  QSize,     \* slots of qs.write and qs.read
  Ops,       \* operations of a configuration: 5
  Lens,      \* lengths of messages, without the header
  Envs,      \* values of env to look at
  MaxReq,    \* bound: transactions and commands
  MaxMsg     \* bound: messages of the sensor on its own

VARIABLES env,
          drv,    \* the driver, its bus and the history, see Init
          node    \* the sensor, see Init

vars == <<env, drv, node>>

Init == /\ env \in Envs
        /\ drv = [bus |-> << >>,          \* requests
                  write |-> << >>,        \* qs.write: transactions [id, active, q]
                  read |-> << >>,         \* qs.read
                  ok |-> TRUE,            \* pop() found something
                  made |-> 0,             \* history: transactions and commands
                  sent |-> << >>,         \* history: operations on the bus, in order
                  dropped |-> FALSE,      \* history: a full bus or queue dropped one
                  ended |-> {},           \* history: ids of transactions that were done
                  handled |-> << >>]      \* history: messages handled [n, whole]
        /\ node = [out |-> << >>,         \* messages it has to send
                   got |-> 0,             \* how much of the first one was read
                   said |-> 0]            \* history: number of messages

-----------------------------------------------------------------------------
(* Messages and transactions                                               *)

Full(d) == Len(d.bus) = BusSize

trypush(d, rq) == IF Full(d) THEN [d EXCEPT !.dropped = TRUE] ELSE [d EXCEPT !.bus = Append(@, rq)]

Read(len) == [read |-> TRUE, len |-> len]

sendMessage(d, op) ==
  LET e == trypush(d, [read |-> FALSE, op |-> op])
  IN  IF Full(d) THEN e ELSE [e EXCEPT !.sent = Append(@, op)]

\* mutant: the transaction is not marked
sendQueuedUnmarked(d, qs) ==
  IF d[qs] = << >> \/ d[qs][1].active \/ d[qs][1].q = << >> THEN d
  ELSE sendMessage(d, d[qs][1].q[1])

\* sends the first operation of a transaction, and of no transaction twice
sendQueued(d, qs) ==
  IF d[qs] = << >> \/ d[qs][1].active THEN d
  ELSE LET e == [d EXCEPT ![qs][1].active = TRUE]
       IN  IF e[qs][1].q = << >> THEN e ELSE sendMessage(e, e[qs][1].q[1])

sendTransaction(d, qs, t) ==
  IF Len(d[qs]) = QSize THEN [d EXCEPT !.dropped = TRUE]
  ELSE sendQueued([d EXCEPT ![qs] = Append(@, t)], qs)

\* the operations of transaction n
Operations(n, type, len) == [k \in 1 .. len |-> [type |-> type, n |-> n, k |-> k]]

Made(d) == [d EXCEPT !.made = @ + 1]

configure(d) ==
  LET n == d.made + 1
  IN  sendTransaction(Made(d), "write", [id |-> n, active |-> FALSE, q |-> Operations(n, "write", Ops)])

readFRS(d) ==
  LET n == d.made + 1
  IN  sendTransaction(Made(d), "read", [id |-> n, active |-> FALSE, q |-> Operations(n, "read", 1)])

\* setFeature, getAdvertisement, getErrors, restart
Command(d) == sendMessage(Made(d), [type |-> "command", n |-> d.made + 1, k |-> 1])

-----------------------------------------------------------------------------
(* The handlers of messages                                                *)

EndOperation(d) == sendQueued([d EXCEPT !.write[1].q = Tail(@)], "write")

EndTransaction(d, qs) ==
  sendQueued([d EXCEPT ![qs] = Tail(@), !.ended = @ \cup {d[qs][1].id}], qs)

Progress == 8

\* status 0 ends an operation, 8 is progress, and all others end the transaction
handleFRSWriteResponse(d, status) ==
  CASE d.write = << >> \/ (d.write # << >> /\ d.write[1].q = << >>) -> d
    [] OTHER -> CASE status = 0 -> EndOperation(d)
                  [] status = Progress -> d
                  [] OTHER -> EndTransaction(d, "write")

handleFRSReadResponse(d, status) ==
  CASE status = 0 -> d
    [] status # 0 /\ d.read = << >> -> [d EXCEPT !.ok = FALSE]
    [] OTHER -> EndTransaction(d, "read")

\* the channels, and the kinds of messages on them; reports, features and the
\* rest change no state of the driver but the values measured
handle(d, m) ==
  CASE m.kind = "write" -> handleFRSWriteResponse(d, m.status)
    [] m.kind = "read" -> handleFRSReadResponse(d, m.status)
    [] OTHER -> d

Handled(d, m, whole) ==
  LET e == [d EXCEPT !.handled = Append(@, [n |-> m.n, whole |-> whole])]
  IN  IF whole THEN handle(e, m) ELSE e

-----------------------------------------------------------------------------
(* The main loop, and the interrupt of the bus                             *)

Idle == drv.ok /\ UNCHANGED env

Fetching == \E k \in DOMAIN drv.bus : drv.bus[k].read

poll == /\ Idle /\ (env.overlap \/ ~Fetching)
        /\ drv' = trypush(drv, Read(1))
        /\ UNCHANGED node

Request == /\ Idle /\ drv.made < MaxReq
           /\ drv' \in {configure(drv), readFRS(drv), Command(drv)}
           /\ UNCHANGED node

Sizes == IF env.equal THEN {CHOOSE l \in Lens : TRUE} ELSE Lens

\* what the sensor has to say about an operation, in order
Answers(op) ==
  CASE op.type = "write" /\ env.ready /\ op.k = 1 -> << <<"write", 4>> >>
    [] op.type = "write" /\ ~(env.ready /\ op.k = 1) /\ op.k < Ops -> << <<"write", 0>> >>
    [] op.type = "write" /\ ~(env.ready /\ op.k = 1) /\ op.k = Ops ->
         << <<"write", 0>>, <<"write", Progress>>, <<"write", 3>> >>
    [] op.type = "read" -> << <<"read", 0>>, <<"read", 3>> >>
    [] OTHER -> << <<"other", 0>> >>

Say(as, len) ==
  node' = [node EXCEPT !.said = @ + Len(as),
                       !.out = @ \o [k \in DOMAIN as |->
                         [n |-> node.said + k, kind |-> as[k][1], status |-> as[k][2], len |-> len]]]

\* a write was transferred: callback ignores it, the sensor does not
Wrote ==
  /\ Idle /\ drv.bus # << >> /\ ~drv.bus[1].read
  /\ drv' = [drv EXCEPT !.bus = Tail(@)]
  /\ \E len \in Sizes : Say(Answers(drv.bus[1].op), len)

Left == node.out[1].len - node.got

\* n is the length of the read, and Left + 1 that of the message
callback(d, n) ==
  CASE node.out = << >> -> d
    [] node.out # << >> /\ Left + 1 > n -> trypush(d, Read(Left + 1))
    [] OTHER -> Handled(d, node.out[1], node.got = 0)

\* a read was transferred: the request leaves the bus's queue after the callback
Fetched ==
  /\ Idle /\ drv.bus # << >> /\ drv.bus[1].read
  /\ LET n == drv.bus[1].len IN
       /\ drv' = LET d == callback(drv, n) IN [d EXCEPT !.bus = Tail(@)]
       /\ node' = CASE node.out = << >> -> node
                    [] node.out # << >> /\ Left + 1 > n -> [node EXCEPT !.got = @ + n - 1]
                    [] OTHER -> [node EXCEPT !.out = Tail(@), !.got = 0]

\* a report, an advertisement, ...
Report == /\ Idle /\ node.said < MaxMsg
          /\ \E len \in Sizes : Say(<< <<"other", 0>> >>, len)
          /\ UNCHANGED drv

Next == poll \/ Request \/ Wrote \/ Fetched \/ Report

\* poll() is scheduled, and the bus transfers
Fairness == WF_vars(poll) /\ WF_vars(Wrote) /\ WF_vars(Fetched)

Spec == Init /\ [][Next]_vars /\ Fairness

-----------------------------------------------------------------------------
(* Properties                                                              *)

TypeOK ==
  /\ env \in Envs /\ drv.ok \in BOOLEAN /\ drv.made \in 0 .. MaxReq
  /\ Len(drv.bus) <= BusSize /\ Len(drv.write) <= QSize /\ Len(drv.read) <= QSize
  /\ node.got >= 0 /\ node.out # << >> => Left > 0

\* Each message of the sensor is handled once, whole and in order, whatever the
\* bus drops: unless poll() is called while a message is fetched and the next
\* one is longer.
Whole ==
  ~env.overlap \/ env.equal =>
    \A k \in DOMAIN drv.handled : drv.handled[k] = [n |-> k, whole |-> TRUE]

\* One operation is sent of each transaction, those of a kind in the order made
\* and the next when the one before was done; an answer to a read finds the
\* transaction that it belongs to.
OneByOne ==
  /\ drv.ok
  /\ \A j, k \in DOMAIN drv.sent :
       LET first == drv.sent[j]  next == drv.sent[k] IN
       next.type # "command" =>
         /\ next.k = 1
         /\ j < k /\ first.type = next.type => first.n < next.n /\ first.n \in drv.ended

\* Lines 429 and 437, "operation finished" and "error or transaction done": a
\* transaction that no error ended was sent to its last operation, here as the
\* sensor answers with "write mode ready" (line 455), or with status 0.
TransactionSent ==
  \A n \in drv.ended : \A k \in 1 .. Ops :
    (\E j \in DOMAIN drv.sent : drv.sent[j] = [type |-> "write", n |-> n, k |-> 1]) =>
      \E j \in DOMAIN drv.sent : drv.sent[j] = [type |-> "write", n |-> n, k |-> k]

\* As long as the bus drops nothing, all records asked for are read, and the
\* sensor's messages are fetched.
AllRead == ~env.overlap => []<>(drv.dropped \/ (drv.read = << >> /\ node.out = << >>))

=============================================================================
