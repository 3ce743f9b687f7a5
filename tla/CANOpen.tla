------------------------------ MODULE CANOpen ------------------------------
(***************************************************************************)
(* comm/canopen.h over stm/can.cpp: a CANopen Device that reads and writes *)
(* the data objects of a node.  One request is to be under way at a time:  *)
(* the next waits in a queue until an answer comes or 2 ms have passed.    *)
(*                                                                         *)
(* pushorqueue runs in the main loop, one statement a step; an answer, a   *)
(* PDO or an empty mailbox is handled in the interrupt of the controller,  *)
(* to its end (Dispatch: "call this class' `process` directly after the    *)
(* CAN irqHandler").  rx holds the one message it is handled for.          *)
(*                                                                         *)
(* What the device is exposed to is chosen once, in `env`:                 *)
(*   loss     an answer may be lost                                        *)
(*   late     an answer may come after the 2 ms                            *)
(*   chain    the device's callback may make a request                     *)
(*   other    the main loop also sends messages of other kinds, PDOs come  *)
(*   preempt  interrupts may come between the statements of pushorqueue    *)
(***************************************************************************)
EXTENDS CAN

CONSTANTS
  QSize,     \* slots of state.q: 60
  Envs,      \* values of env to look at
  MaxReq,    \* bound: requests made
  MaxOther,  \* bound: other messages sent
  Horizon    \* bound: no tick once k.time is there

ASSUME CANOpenAssumption ==
  /\ QSize \in Nat \ {0} /\ MaxReq \in Nat /\ MaxOther \in Nat /\ Horizon \in Nat
  /\ Envs \subseteq [loss : BOOLEAN, late : BOOLEAN, chain : BOOLEAN,
                     other : BOOLEAN, preempt : BOOLEAN]

VARIABLES
  env,
  time,  \* k.time
  dev,   \* the Device, the controller and the history, see Init
  pc,    \* where the main loop is: "out" of pushorqueue, or in it
  msg,   \* the message it is about: a request or Other
  mbox   \* the mailbox it has got

vars == <<env, time, dev, pc, msg, mbox>>

Other == 0
Requests == 1 .. MaxReq

Init == /\ env \in Envs
        /\ time = 0
        /\ dev = [box |-> Mailboxes.box, active |-> {}, tx |-> << >>, ok |-> TRUE,
                  q |-> << >>,         \* state.q
                  when |-> 0,          \* state.next.when
                  node |-> << >>,      \* requests the node has not answered yet
                  made |-> 0,          \* history: requests made
                  others |-> 0,        \* history: other messages sent
                  out |-> << >>,       \* history: requests given to the controller, in order
                  at |-> << >>,        \* history: and when
                  refused |-> {},      \* history: requests discarded by a full sink
                  ended |-> {}]        \* history: requests answered or lost
        /\ pc = "out" /\ msg = None /\ mbox = None

-----------------------------------------------------------------------------
(* The Device, as the interrupts run it                                    *)

Armed(s) == s.when # 0 /\ time < s.when

Refused(s, n) == [s EXCEPT !.refused = @ \cup {n}]

Out(s, n) == [s EXCEPT !.out = Append(@, n), !.at = Append(@, time)]

Arm(s) == [s EXCEPT !.when = time + 2]

Queued(s, n) == IF Len(s.q) < QSize THEN [s EXCEPT !.q = Append(@, n)] ELSE Refused(s, n)

pushorqueue(s, n) ==
  IF Armed(s) THEN Queued(s, n)
  ELSE Arm(IF Full(s) THEN Refused(s, n) ELSE push(Out(s, n), n))

\* mutants: nothing is sent on an answer; the request stays in the queue; no
\* deadline is set
processNot(s) == s
processFront(s) ==
  IF s.q = << >> \/ Armed(s) THEN s ELSE Arm(push(Out(s, Head(s.q)), Head(s.q)))
processUnarmed(s) ==
  IF s.q = << >> \/ Armed(s) THEN s
  ELSE LET n == Head(s.q) IN push(Out([s EXCEPT !.q = Tail(@)], n), n)

\* without a look at full()
process(s) ==
  IF s.q = << >> \/ Armed(s) THEN s
  ELSE LET n == Head(s.q) IN Arm(push(Out([s EXCEPT !.q = Tail(@)], n), n))

Callback(s) ==
  {s} \cup (IF env.chain /\ s.made < MaxReq
            THEN {pushorqueue([s EXCEPT !.made = @ + 1], s.made + 1)} ELSE {})

-----------------------------------------------------------------------------
(* The interrupts                                                          *)

Interruptible == dev.ok /\ (env.preempt \/ pc = "out")

\* a mailbox is on the bus: the node has the request
Transmitted(b) ==
  /\ Interruptible /\ dev.box[b] # None
  /\ dev' = _tx_complete([dev EXCEPT !.box[b] = None,
                                     !.node = IF dev.box[b] = Other THEN @ ELSE Append(@, dev.box[b])], b)
  /\ UNCHANGED <<env, time, pc, msg, mbox>>

\* Device::push(SDO)
Answered ==
  /\ Interruptible /\ dev.node # << >>
  /\ dev' \in {process(s) : s \in Callback([dev EXCEPT !.node = Tail(@), !.when = 0,
                                                       !.ended = @ \cup {Head(dev.node)}])}
  /\ UNCHANGED <<env, time, pc, msg, mbox>>

Lost ==
  /\ dev.ok /\ env.loss /\ dev.node # << >>
  /\ dev' = [dev EXCEPT !.node = Tail(@), !.ended = @ \cup {Head(dev.node)}]
  /\ UNCHANGED <<env, time, pc, msg, mbox>>

\* Device::push(TPDO)
PDO ==
  /\ Interruptible /\ env.other
  /\ dev' \in {process(s) : s \in Callback(dev)}
  /\ UNCHANGED <<env, time, pc, msg, mbox>>

\* requests neither answered nor lost
Pending == {n \in Requests : \E k \in DOMAIN dev.out : dev.out[k] = n} \ dev.ended

\* unless it may be late an answer comes before the deadline
Tick ==
  /\ dev.ok /\ time < Horizon
  /\ env.late \/ Pending = {} \/ time + 1 < dev.when
  /\ time' = time + 1
  /\ UNCHANGED <<env, dev, pc, msg, mbox>>

-----------------------------------------------------------------------------
(* The main loop                                                           *)

Go(label) == pc' = label /\ UNCHANGED <<env, time>>

Here(label) == pc = label /\ dev.ok

\* read, w8, w16, w32, one by one or out of enablePDO
Request == /\ Here("out") /\ dev.made < MaxReq
           /\ dev' = [dev EXCEPT !.made = @ + 1]
           /\ msg' = dev.made + 1 /\ UNCHANGED mbox
           /\ Go("decide")

\* nmt, sync, wPDO, ...: can.trypush
SendOther == /\ Here("out") /\ env.other /\ dev.others < MaxOther
             /\ dev' = [dev EXCEPT !.others = @ + 1]
             /\ msg' = Other /\ UNCHANGED mbox
             /\ Go("trypush")

Decide == /\ Here("decide")
          /\ dev' = IF Armed(dev) THEN dev ELSE [dev EXCEPT !.when = 0]
          /\ UNCHANGED <<msg, mbox>>
          /\ Go(IF Armed(dev) THEN "queue" ELSE "trypush")

QueueIt == /\ Here("queue")
           /\ dev' = Queued(dev, msg)
           /\ msg' = None /\ UNCHANGED mbox
           /\ Go("out")

\* pushorqueue goes on to arm the deadline, the others are done
After == /\ msg' = None /\ mbox' = None
         /\ Go(IF msg = Other THEN "out" ELSE "arm")

Discarded(s, m) == IF m = Other THEN s ELSE Refused(s, m)
Given(s, m) == IF m = Other THEN s ELSE Out(s, m)

TryPush == /\ Here("trypush")
           /\ \/ /\ Full(dev) /\ dev' = Discarded(dev, msg)
                 /\ After
              \/ /\ ~Full(dev) /\ UNCHANGED <<dev, msg, mbox>>
                 /\ Go(IF FreeBoxes(dev) = {} THEN "enqueue" ELSE "add")

EnqueueIt == /\ Here("enqueue")
             /\ dev' = Enqueue(Given(dev, msg), msg)
             /\ After

\* an interrupt may have taken the last mailbox: the message is gone, and mbox
\* is what was on the stack
AddIt == /\ Here("add")
         /\ \/ /\ FreeBoxes(dev) # {}
               /\ dev' = Add(Given(dev, msg), LowestFree(dev), msg)
               /\ mbox' = LowestFree(dev)
               /\ UNCHANGED msg
               /\ Go("mark")
            \/ /\ FreeBoxes(dev) = {}
               /\ \E stack \in SUBSET Boxes :
                    dev' = [Discarded(dev, msg) EXCEPT !.active = @ \cup stack]
               /\ After

MarkIt == /\ Here("mark")
          /\ dev' = Mark(dev, mbox)
          /\ After

ArmIt == /\ Here("arm")
         /\ dev' = Arm(dev)
         /\ UNCHANGED <<msg, mbox>>
         /\ Go("out")

Main == Decide \/ QueueIt \/ TryPush \/ EnqueueIt \/ AddIt \/ MarkIt \/ ArmIt

Next == \/ Answered \/ Lost \/ PDO \/ Tick
        \/ \E b \in Boxes : Transmitted(b)
        \/ Request \/ SendOther \/ Main

Spec == Init /\ [][Next]_vars

\* The main loop goes on, the bus transmits and the node answers.
Fairness == /\ WF_vars(Main) /\ WF_vars(Answered)
            /\ WF_vars(\E b \in Boxes : Transmitted(b))

FairSpec == Spec /\ Fairness

-----------------------------------------------------------------------------
(* Properties                                                              *)

Calm == ~env.loss /\ ~env.late /\ ~env.chain /\ ~env.preempt

\* Type invariant.
TypeOK ==
  /\ env \in Envs /\ time \in 0 .. Horizon
  /\ pc \in {"out", "decide", "queue", "trypush", "enqueue", "add", "mark", "arm"}
  /\ dev.q \in Seq(Requests) /\ Len(dev.q) <= QSize /\ dev.when \in 0 .. Horizon + 2
  /\ dev.tx \in Seq(Requests \cup {Other}) /\ Len(dev.tx) <= TxSize
  /\ dev.box \in [Boxes -> Requests \cup {Other, None}] /\ dev.active \subseteq Boxes
  /\ dev.ok \in BOOLEAN

\* No request vanishes or goes out twice, whatever interrupts pushorqueue: it
\* waits, was given to the controller or was discarded by a full sink.
Accounted ==
  LET mine == IF pc \in {"decide", "queue", "trypush", "enqueue", "add"} /\ msg # Other
              THEN {msg} ELSE {}
      given == {dev.out[k] : k \in DOMAIN dev.out}
      waiting == {dev.q[k] : k \in DOMAIN dev.q}
  IN  /\ mine \cup given \cup waiting \cup dev.refused = 1 .. dev.made
      /\ Cardinality(mine) + Len(dev.out) + Len(dev.q) + Cardinality(dev.refused) = dev.made

\* As long as answers are in time, no callback makes requests and the sink has
\* discarded none, they go out in the order made: an enablePDO clears before it
\* maps before it enables.  A discarded one arms the deadline with nothing
\* under way: what is queued meanwhile is then passed by the next.
InOrder ==
  Calm /\ dev.refused = {} =>
    \A j, k \in DOMAIN (dev.out \o dev.q) :
      j < k => (dev.out \o dev.q)[j] < (dev.out \o dev.q)[k]

\* A node has one request to answer at a time, but for those it left
\* unanswered for 2 ms.
OneAtATime ==
  ~env.preempt /\ ~env.late =>
    Cardinality({k \in DOMAIN dev.out : dev.out[k] \notin dev.ended /\ time < dev.at[k] + 2}) <= 1

\* Requests wait for a deadline: with the next answer or PDO that comes after
\* it, if not before, the queue moves on.
WaitsArmed == ~env.preempt /\ pc = "out" /\ dev.q # << >> => dev.when # 0

\* Messages wait behind busy mailboxes only, and the driver knows which these
\* are: an interrupt is to come that takes them on.
WaitsBusy == ~env.preempt /\ pc = "out" /\ dev.ok =>
               /\ dev.active = Boxes \ FreeBoxes(dev)
               /\ dev.tx # << >> => FreeBoxes(dev) = {}

\* An assert fails only for want of space in tx.q.
AssertsOnlyWhenFull == ~env.preempt /\ ~dev.ok => Full(dev)

\* Requests go out in order, one at a time, and no assert fails unless tx is full.
Orderly == InOrder /\ OneAtATime /\ AssertsOnlyWhenFull

\* What waits is waited for.
Waits == WaitsArmed /\ WaitsBusy

\* If the node answers in time no request waits for ever: again and again all
\* of those made were answered, unless a full sink has discarded one, whose
\* answer the queue would wait for.
EveryRequestEnds ==
  Calm => []<>(1 .. dev.made \subseteq dev.ended \/ dev.refused # {} \/ ~dev.ok)

=============================================================================
