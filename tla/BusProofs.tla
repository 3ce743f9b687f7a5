----------------------------- MODULE BusProofs -----------------------------
(***************************************************************************)
(* What is proved of the interrupt driven buses.                           *)
(*                                                                         *)
(* I2C, for every queue size and deadline, in the environments that are    *)
(* Careful: with chained requests, bus errors, slave transfers and         *)
(* interrupts inside of push, and with late answers for devices that do    *)
(* not chain.  The hardware works on the front of the queue, no assert     *)
(* fails, requests are handed to it and leave in order, none before it was *)
(* transferred, failed or had its time, devices are called back for what   *)
(* was transferred, and a free bus has nothing to do.                      *)
(*                                                                         *)
(* SPI, for all devices, modes and queue sizes: what it serves, and with   *)
(* which chip selected.  UART, for all queue sizes, baud rates, lengths of *)
(* buffers and portions of a millisecond: what it transmits and receives.  *)
(*                                                                         *)
(* Log, for all sizes of the buffer, the sink, texts and colors: what is   *)
(* logged is heard.                                                        *)
(***************************************************************************)
EXTENDS MCBuses, Lemmas

(***************************************************************************)
(* I2C                                                                     *)
(***************************************************************************)

Actives == {"NONE", "IN", "OUT", "Q"}

\* The HW object, as far as the proof looks at it.
HW == [q : Seq(Nat), active : Actives, when : Int, armed : SUBSET Actives,
       hw : Int, listen : BOOLEAN, ok : BOOLEAN, pushed : Nat, moved : SUBSET Int,
       calls : Seq(Nat), gone : Seq(Nat), started : Seq(Nat), since : Int,
       failed : SUBSET Int, early : SUBSET Int, erred : BOOLEAN, deaf : BOOLEAN]

Ordered(b) == b \in HW /\ b.gone \o b.q = [k \in 1 .. b.pushed |-> k]

OrderInv == env \in Envs /\ uwTick \in Nat /\ Ordered(bus)

-----------------------------------------------------------------------------
(* The operations of the driver                                            *)

LEMMA TakenOffOrdered ==
  ASSUME NEW b, Ordered(b)
  PROVE  Ordered(TakenOff(b))
<1>1. CASE b.q = << >>
  BY <1>1 DEF Ordered, HW, TakenOff
<1>2. CASE b.q # << >>
  <2> DEFINE c == TakenOff(b)
             e == IF uwTick < b.since + Delta THEN b.early \cup {Head(b.q)} ELSE b.early
             z == 0
  <2>1. c = [b EXCEPT !.q = Tail(b.q), !.gone = Append(b.gone, Head(b.q)), !.since = z, !.early = e]
    BY <1>2 DEF TakenOff
  <2>2. b.q \in Seq(Nat) /\ b.gone \in Seq(Nat) /\ Head(b.q) \in Nat /\ Tail(b.q) \in Seq(Nat)
    BY <1>2 DEF Ordered, HW
  <2>3. Append(b.gone, Head(b.q)) \in Seq(Nat)
    BY <2>2
  <2>6. z \in Int /\ e \in SUBSET Int
    BY <2>2 DEF Ordered, HW
  <2> HIDE DEF e, z
  <2>4. c \in HW /\ c.q = Tail(b.q) /\ c.gone = Append(b.gone, Head(b.q)) /\ c.pushed = b.pushed
    BY <2>1, <2>2, <2>3, <2>6, ZenonT(60) DEF Ordered, HW
  <2>5. c.gone \o c.q = b.gone \o b.q
    BY <1>2, <2>2, <2>4, MovedHead
  <2> QED BY <2>4, <2>5 DEF Ordered
<1> QED BY <1>1, <1>2

LEMMA EnqueuedOrdered ==
  ASSUME NEW b, Ordered(b)
  PROVE  Ordered(Enqueued(b))
<1> DEFINE c == Enqueued(b)
           n == b.pushed + 1
<1>1. b.q \in Seq(Nat) /\ b.gone \in Seq(Nat) /\ b.pushed \in Nat /\ n \in Nat
  BY DEF Ordered, HW
<1>2. Append(b.q, n) \in Seq(Nat)
  BY <1>1
<1>3. c \in HW /\ c.q = Append(b.q, n) /\ c.gone = b.gone /\ c.pushed = n
  BY <1>1, <1>2 DEF Enqueued, Ordered, HW
<1>4. c.gone \o c.q = Append(b.gone \o b.q, n)
  BY <1>1, <1>3, AppendedTail
<1>5. Append(b.gone \o b.q, n) = [k \in 1 .. n |-> k]
  BY <1>1, CountedOn DEF Ordered
<1> QED BY <1>3, <1>4, <1>5 DEF Ordered

LEMMA HalOrdered ==
  ASSUME NEW b, Ordered(b), OrderInv, NEW x \in Int
  PROVE  Ordered(HalStart(b, x)) /\ Ordered(HalAbort(b))
<1> DEFINE z == Nothing
           l == Append(b.started, x)
<1>1. Ordered([b EXCEPT !.hw = x])
  BY DEF Ordered, HW
<1>2. z \in Int
  BY DEF Nothing
<1> HIDE DEF z
<1>3. Ordered([b EXCEPT !.hw = z])
  BY <1>2 DEF Ordered, HW
<1> USE DEF z
<1>4. Ordered([b EXCEPT !.hw = Nothing])
  BY <1>3
<1>5. CASE x \in Requests
  <2>1. x \in Nat /\ uwTick \in Int /\ b.started \in Seq(Nat)
    BY <1>5, I2CAssumption DEF Requests, OrderInv, Ordered, HW
  <2>2. l \in Seq(Nat)
    BY <2>1
  <2> HIDE DEF l
  <2>3. Ordered([b EXCEPT !.hw = x, !.started = l, !.since = uwTick])
    BY <2>1, <2>2 DEF Ordered, HW
  <2>4. CASE b.hw # Nothing
    <3>1. HalStart(b, x) = b
      BY <2>4 DEF HalStart
    <3> QED BY <1>4, <3>1 DEF HalAbort
  <2>5. CASE b.hw = Nothing
    <3>1. HalStart(b, x) = [b EXCEPT !.hw = x, !.started = l, !.since = uwTick]
      BY <1>5, <2>5 DEF HalStart, l
    <3> QED BY <1>4, <2>3, <3>1 DEF HalAbort
  <2> QED BY <2>4, <2>5
<1>6. CASE x \notin Requests
  <2>1. HalStart(b, x) = IF b.hw # Nothing THEN b ELSE [b EXCEPT !.hw = x]
    BY <1>6 DEF HalStart
  <2> QED BY <1>1, <1>4, <2>1 DEF HalAbort
<1> QED BY <1>5, <1>6

LEMMA ReleasedOrdered ==
  ASSUME NEW b, Ordered(b), OrderInv
  PROVE  Ordered(Released(b))
<1> DEFINE a == "NONE"
           w == 0
<1>1. env.slave \in BOOLEAN
  BY I2CAssumption DEF OrderInv
<1>2. Released(b) = [b EXCEPT !.active = a, !.when = w, !.listen = env.slave]
  BY DEF Released
<1>3. a \in Actives /\ w \in Int
  BY DEF Actives
<1> HIDE DEF a, w
<1>4. Ordered([b EXCEPT !.active = a, !.when = w, !.listen = env.slave])
  BY <1>1, <1>3 DEF Ordered, HW
<1> QED BY <1>2, <1>4

LEMMA ErrorOrdered ==
  ASSUME NEW b, Ordered(b), OrderInv
  PROVE  Ordered(_error(b))
<1>1. Ordered([b EXCEPT !.ok = FALSE])
  BY DEF Ordered, HW
<1>2. Ordered(HalAbort(b))
  BY HalOrdered
<1>3. Ordered(TakenOff(HalAbort(b)))
  BY <1>2, TakenOffOrdered
<1>4. Ordered(Released(HalAbort(b))) /\ Ordered(Released(TakenOff(HalAbort(b))))
  BY <1>2, <1>3, ReleasedOrdered
<1> QED BY <1>1, <1>4 DEF _error

LEMMA StartMasterOrdered ==
  ASSUME NEW b, Ordered(b), OrderInv
  PROVE  Ordered(_startMaster(b))
<1> DEFINE a == "Q"
           c == [b EXCEPT !.listen = FALSE, !.active = a, !.when = until(uwTick)]
<1>1. CASE b.q = << >>
  BY <1>1 DEF _startMaster, Ordered, HW
<1>2. CASE b.q # << >>
  <2>1. until(uwTick) \in Int
    BY I2CAssumption DEF until, OrderInv
  <2>2. a \in Actives
    BY DEF Actives
  <2>3. Head(b.q) \in Int
    BY <1>2 DEF Ordered, HW
  <2>4. _startMaster(b) = HalStart(c, Head(b.q))
    BY <1>2 DEF _startMaster
  <2> HIDE DEF a
  <2>5. Ordered(c)
    BY <2>1, <2>2 DEF Ordered, HW
  <2> HIDE DEF c
  <2> QED BY <2>3, <2>4, <2>5, HalOrdered
<1> QED BY <1>1, <1>2

LEMMA PollOrdered ==
  ASSUME NEW b, Ordered(b), OrderInv
  PROVE  Ordered(poll(b))
<1> DEFINE w == 0
           d == IF Expired(b) THEN _error([b EXCEPT !.when = w]) ELSE b
           c == [d EXCEPT !.erred = FALSE]
<1>4. poll(b) = IF Free(c) THEN _startMaster(c) ELSE c
  BY DEF poll
<1>5. w \in Int
  OBVIOUS
<1> HIDE DEF w
<1>1. Ordered([b EXCEPT !.when = w])
  BY <1>5 DEF Ordered, HW
<1>2. Ordered(d)
  BY <1>1, ErrorOrdered
<1> HIDE DEF d
<1>3. Ordered(c)
  BY <1>2 DEF Ordered, HW
<1> HIDE DEF c
<1> QED BY <1>3, <1>4, StartMasterOrdered

\* A callback, and all that it may push and start.
LEMMA CallbackOrdered ==
  ASSUME NEW b, Ordered(b), OrderInv, NEW c \in Callback(b)
  PROVE  Ordered(c)
<1>1. c = b \/ c = poll(Enqueued(b))
  BY DEF Callback
<1> QED BY <1>1, EnqueuedOrdered, PollOrdered

LEMMA CalledOrdered ==
  ASSUME NEW b, Ordered(b), OrderInv, NEW c \in Called(b)
  PROVE  Ordered(c)
<1>1. CASE b.q = << >>
  <2>1. Ordered([b EXCEPT !.ok = FALSE])
    BY DEF Ordered, HW
  <2> QED BY <1>1, <2>1 DEF Called
<1>2. CASE b.q # << >>
  <2> DEFINE d == [b EXCEPT !.calls = Append(@, Head(b.q))]
  <2>1. Head(b.q) \in Nat /\ b.calls \in Seq(Nat)
    BY <1>2 DEF Ordered, HW
  <2>2. Append(b.calls, Head(b.q)) \in Seq(Nat)
    BY <2>1
  <2>3. Ordered(d)
    BY <2>2 DEF Ordered, HW
  <2>4. c \in Callback(d)
    BY <1>2 DEF Called
  <2> HIDE DEF d
  <2> QED BY <2>3, <2>4, CallbackOrdered
<1> QED BY <1>1, <1>2

LEMMA CompleteOrdered ==
  ASSUME NEW b, Ordered(b), OrderInv, NEW d \in _complete(b)
  PROVE  Ordered(d)
<1>1. \/ d = b
      \/ \E c \in Called(b) : d = poll(Released(TakenOff(c)))
      \/ \E c \in Callback(b) : d = poll(Released(c))
  BY DEF _complete
<1>2. ASSUME NEW c \in Called(b)
      PROVE  Ordered(poll(Released(TakenOff(c))))
  BY CalledOrdered, TakenOffOrdered, ReleasedOrdered, PollOrdered
<1>3. ASSUME NEW c \in Callback(b)
      PROVE  Ordered(poll(Released(c)))
  BY CallbackOrdered, ReleasedOrdered, PollOrdered
<1> QED BY <1>1, <1>2, <1>3

LEMMA StartSlaveOrdered ==
  ASSUME NEW b, Ordered(b), OrderInv, NEW side \in {"IN", "OUT"}
  PROVE  Ordered(_startSlave(b, side))
<1> DEFINE c == [b EXCEPT !.listen = FALSE, !.ok = @ /\ b.active = "NONE"]
           e == [c EXCEPT !.active = side, !.when = until(uwTick)]
           x == IF side = "IN" THEN SlaveIn ELSE SlaveOut
<1>1. Ordered(c)
  <2>1. (b.ok /\ b.active = "NONE") \in BOOLEAN
    OBVIOUS
  <2> QED BY <2>1 DEF Ordered, HW
<1>2. _startSlave(b, side) = IF side \notin b.armed THEN [c EXCEPT !.deaf = TRUE] ELSE HalStart(e, x)
  BY DEF _startSlave
<1> HIDE DEF c
<1>3. Ordered([c EXCEPT !.deaf = TRUE])
  BY <1>1 DEF Ordered, HW
<1>4. until(uwTick) \in Int
  BY I2CAssumption DEF until, OrderInv
<1>5. Ordered(e)
  <2>1. side \in Actives
    BY DEF Actives
  <2> QED BY <1>1, <1>4, <2>1 DEF Ordered, HW
<1>6. x \in Int
  BY DEF SlaveIn, SlaveOut
<1> HIDE DEF e, x
<1> QED BY <1>2, <1>3, <1>5, <1>6, HalOrdered

-----------------------------------------------------------------------------
(* The steps                                                               *)

LEMMA OrderInit == Init => OrderInv
<1> SUFFICES ASSUME Init
             PROVE  OrderInv
  OBVIOUS
<1>1. env.slave \in BOOLEAN
  BY I2CAssumption DEF Init
<1> DEFINE n == "NONE"
           z == 0
           e == {}
           s == << >>
<1>4. n \in Actives /\ z \in Int /\ z \in Nat /\ e \in SUBSET Actives /\ e \in SUBSET Int /\ s \in Seq(Nat)
  BY DEF Actives
<1>5. bus = [q |-> s, active |-> n, when |-> z, armed |-> e, hw |-> z, listen |-> env.slave,
             ok |-> TRUE, pushed |-> z, moved |-> e, calls |-> s, gone |-> s, started |-> s, since |-> z,
             failed |-> e, early |-> e, erred |-> FALSE, deaf |-> FALSE]
  BY DEF Init, Nothing
<1> HIDE DEF n, z, e, s
<1>6. bus \in HW /\ bus.gone = s /\ bus.q = s /\ bus.pushed = z
  BY <1>1, <1>4, <1>5 DEF HW
<1> USE DEF z, s
<1>2. bus \in HW /\ bus.gone = << >> /\ bus.q = << >> /\ bus.pushed = 0
  BY <1>6
<1>3. << >> \o << >> = [k \in 1 .. 0 |-> k]
  OBVIOUS
<1> QED BY <1>2, <1>3 DEF Init, OrderInv, Ordered

LEMMA OrderNext == OrderInv /\ [Next]_vars => OrderInv'
<1> SUFFICES ASSUME OrderInv, [Next]_vars
             PROVE  OrderInv'
  OBVIOUS
<1>a. Ordered(bus) /\ uwTick \in Nat /\ env \in Envs
  BY DEF OrderInv
<1>b. ASSUME Ordered(bus'), UNCHANGED <<env, uwTick>>
      PROVE  OrderInv'
  BY <1>a, <1>b DEF OrderInv, Ordered
<1>c. Ended \in SUBSET Int
  BY I2CAssumption DEF Ended, Requests
<1>1. CASE TransferDone
  <2> DEFINE z == Nothing
             m == bus.moved \cup Ended
             b == [bus EXCEPT !.hw = z, !.moved = m]
  <2>2. bus' \in _complete(b) /\ UNCHANGED <<env, uwTick>>
    BY <1>1 DEF TransferDone
  <2>3. z \in Int
    BY DEF Nothing
  <2>4. m \in SUBSET Int
    BY <1>a, <1>c DEF Ordered, HW
  <2> HIDE DEF z, m
  <2>1. Ordered(b)
    BY <1>a, <2>3, <2>4 DEF Ordered, HW
  <2> HIDE DEF b
  <2> QED BY <1>b, <2>1, <2>2, CompleteOrdered
<1>2. CASE BusError
  <2> DEFINE z == Nothing
             m == bus.failed \cup Ended
             b == [bus EXCEPT !.hw = z, !.failed = m]
             c == _error(b)
  <2>3. bus' = [c EXCEPT !.erred = TRUE] /\ UNCHANGED <<env, uwTick>>
    BY <1>2 DEF BusError
  <2>5. z \in Int
    BY DEF Nothing
  <2>6. m \in SUBSET Int
    BY <1>a, <1>c DEF Ordered, HW
  <2> HIDE DEF z, m
  <2>1. Ordered(b)
    BY <1>a, <2>5, <2>6 DEF Ordered, HW
  <2>2. Ordered(c)
    BY <2>1, ErrorOrdered
  <2> HIDE DEF b, c
  <2>4. Ordered([c EXCEPT !.erred = TRUE])
    BY <2>2 DEF Ordered, HW
  <2> QED BY <1>b, <2>3, <2>4
<1>3. CASE SysTick
  <2>1. bus' = bus /\ env' = env /\ uwTick' = uwTick + 1
    BY <1>3 DEF SysTick
  <2>2. uwTick' \in Nat
    BY <1>a, <2>1
  <2> QED BY <1>a, <2>1, <2>2 DEF OrderInv, Ordered
<1>4. CASE Push
  BY <1>a, <1>b, <1>4, EnqueuedOrdered DEF Push
<1>5. CASE Check
  <2> DEFINE w == IF Expired(bus) THEN 0 ELSE bus.when
  <2>1. w \in Int
    BY <1>a DEF Ordered, HW
  <2>2. bus' = [bus EXCEPT !.when = w] /\ UNCHANGED <<env, uwTick>>
    BY <1>5 DEF Check
  <2> HIDE DEF w
  <2>3. Ordered([bus EXCEPT !.when = w])
    BY <1>a, <2>1 DEF Ordered, HW
  <2> QED BY <1>b, <2>2, <2>3
<1>6. CASE TimedOut
  BY <1>a, <1>b, <1>6, ErrorOrdered DEF TimedOut
<1>7. CASE CheckFree
  <2>1. Ordered([bus EXCEPT !.erred = FALSE])
    BY <1>a DEF Ordered, HW
  <2> QED BY <1>b, <1>7, <2>1 DEF CheckFree
<1>8. CASE Start
  BY <1>a, <1>b, <1>8, StartMasterOrdered DEF Start
<1>9. ASSUME NEW side \in {"IN", "OUT"}, Addressed(side)
      PROVE  OrderInv'
  BY <1>a, <1>b, <1>9, StartSlaveOrdered DEF Addressed
<1>10. ASSUME NEW side \in {"IN", "OUT"}, PushSlave(side)
       PROVE  OrderInv'
  <2> DEFINE m == bus.armed \cup {side}
  <2>1. m \in SUBSET Actives
    BY <1>a DEF Ordered, HW, Actives
  <2>2. bus' = [bus EXCEPT !.armed = m] /\ UNCHANGED <<env, uwTick>>
    BY <1>10 DEF PushSlave
  <2> HIDE DEF m
  <2>3. Ordered([bus EXCEPT !.armed = m])
    BY <1>a, <2>1 DEF Ordered, HW
  <2> QED BY <1>b, <2>2, <2>3
<1>11. CASE UNCHANGED vars
  BY <1>a, <1>11 DEF vars, OrderInv, Ordered
<1> QED BY <1>1, <1>2, <1>3, <1>4, <1>5, <1>6, <1>7, <1>8, <1>9, <1>10, <1>11 DEF Next

-----------------------------------------------------------------------------
(* Where the bus keeps its promises.  What the hardware does is what the   *)
(* driver thinks it does, `Working`, and what was called back for is what  *)
(* was transferred, `Reported`; within an operation both may break, and    *)
(* the environments below are those in which nothing comes in between.     *)

\* A transfer that ends late meets neither a callback that pushes, nor the
\* statements of push; nor does another master meet the latter.
Careful(e) == /\ e.late => ~e.chain /\ ~e.preempt
              /\ e.preempt => ~e.slave

Fitting(b) ==
  /\ b.ok /\ Len(b.q) <= QSize /\ b.pushed <= MaxReq
  /\ b.when \in Nat /\ b.armed \subseteq {"IN", "OUT"}

Reported(b) ==
  /\ \A k \in DOMAIN b.calls : b.calls[k] <= Len(b.gone)
  /\ \A j, k \in DOMAIN b.calls : j < k => b.calls[j] < b.calls[k]
  /\ {b.calls[k] : k \in DOMAIN b.calls} = b.moved
  /\ b.early \subseteq b.moved \cup b.failed

\* The hardware took on what is gone, and what the driver thinks is under way, which
\* has all of its time until the deadline.
Handed(b) ==
  /\ b.active # "Q" => b.started = b.gone
  /\ b.active = "Q" => /\ b.started = Append(b.gone, Head(b.q))
                       /\ b.when # 0 => b.since + Delta <= b.when

\* The request at the front may go: it is done with, or had its time.
SpentBy(b, t) == Head(b.q) \in b.moved \cup b.failed \/ b.since + Delta <= t
Spent(b) == SpentBy(b, uwTick)

Working(b) ==
  /\ b.active = "NONE" => b.hw = Nothing /\ (env.slave => b.listen \/ b.deaf)
  /\ b.active = "IN" => b.hw = SlaveIn
  /\ b.active = "OUT" => b.hw = SlaveOut
  /\ b.active = "Q" => b.q # << >> /\ b.hw = Head(b.q)
  /\ b.listen => b.active = "NONE" /\ env.slave
  /\ Handed(b)

Good(b) == Ordered(b) /\ Fitting(b) /\ Reported(b)

CareInv ==
  /\ OrderInv
  /\ Good(bus) /\ Working(bus)
  /\ pc \in {"out", "check", "error", "free", "start"}
  /\ pc = "error" => bus.active # "NONE" /\ bus.when = 0 /\ (bus.active = "Q" => Spent(bus))
  /\ pc = "start" => Free(bus)
  /\ pc = "out" /\ Free(bus) => bus.erred

\* The request at the front is the one after those that are gone.
LEMMA FirstWaiting ==
  ASSUME NEW b, Ordered(b), NEW i \in 1 .. Len(b.q)
  PROVE  b.q[i] = Len(b.gone) + i /\ b.q[i] \in 1 .. b.pushed
<1> DEFINE q == b.q
           g == b.gone
           n == b.pushed
<1>1. q \in Seq(Nat) /\ g \in Seq(Nat) /\ n \in Nat /\ g \o q = [k \in 1 .. n |-> k]
  BY DEF Ordered, HW
<1>2. i \in 1 .. Len(q)
  OBVIOUS
<1> HIDE DEF q, g, n
<1>3. Len(g \o q) = Len(g) + Len(q) /\ (g \o q)[Len(g) + i] = q[i]
  <2>1. Len(g) \in Nat /\ Len(q) \in Nat
    BY <1>1
  <2>2. Len(g) + i \in 1 .. Len(g) + Len(q) /\ Len(g) + i > Len(g) /\ (Len(g) + i) - Len(g) = i
    BY <1>2, <2>1
  <2>3. /\ Len(g \o q) = Len(g) + Len(q)
        /\ \A k \in 1 .. Len(g) + Len(q) : (g \o q)[k] = IF k <= Len(g) THEN g[k] ELSE q[k - Len(g)]
    BY <1>1, ConcatProperties, ZenonT(60)
  <2> QED BY <2>1, <2>2, <2>3
<1>4. Len(g \o q) = n
  BY <1>1
<1>5. Len(g) + i \in 1 .. n
  BY <1>1, <1>2, <1>3, <1>4
<1>6. [k \in 1 .. n |-> k][Len(g) + i] = Len(g) + i
  BY <1>5
<1>7. q[i] = Len(g) + i
  BY <1>1, <1>3, <1>6
<1> QED BY <1>5, <1>7 DEF q, g, n

\* A device is called back for the request that leaves next.
LEMMA ReportedNext ==
  ASSUME NEW calls \in Seq(Nat), NEW moved \in SUBSET Int, NEW n \in Nat,
         \A k \in DOMAIN calls : calls[k] <= n,
         \A j, k \in DOMAIN calls : j < k => calls[j] < calls[k],
         {calls[k] : k \in DOMAIN calls} = moved,
         NEW more, more = Append(calls, n + 1)
  PROVE  /\ \A k \in DOMAIN more : more[k] <= n + 1
         /\ \A j, k \in DOMAIN more : j < k => more[j] < more[k]
         /\ {more[k] : k \in DOMAIN more} = moved \cup {n + 1}
<1> DEFINE l == Len(calls)
<1>1. l \in Nat /\ DOMAIN calls = 1 .. l /\ DOMAIN more = 1 .. l + 1 /\ more[l + 1] = n + 1
  OBVIOUS
<1>2. \A k \in 1 .. l : more[k] = calls[k] /\ calls[k] \in Nat /\ calls[k] <= n
  OBVIOUS
<1>3. \A j, k \in 1 .. l : j < k => calls[j] < calls[k]
  BY <1>1
<1> HIDE DEF l
<1>4. ASSUME NEW k \in DOMAIN more
      PROVE  more[k] <= n + 1
  <2>1. CASE k = l + 1
    BY <1>1, <2>1
  <2>2. CASE k # l + 1
    <3>1. k \in 1 .. l
      BY <1>1, <2>2
    <3> QED BY <1>2, <3>1
  <2> QED BY <2>1, <2>2
<1>5. ASSUME NEW j \in DOMAIN more, NEW k \in DOMAIN more, j < k
      PROVE  more[j] < more[k]
  <2>1. j \in 1 .. l
    BY <1>1, <1>5
  <2>2. CASE k = l + 1
    BY <1>1, <1>2, <2>1, <2>2
  <2>3. CASE k # l + 1
    <3>1. k \in 1 .. l
      BY <1>1, <2>3
    <3> QED BY <1>2, <1>3, <1>5, <2>1, <3>1
  <2> QED BY <2>2, <2>3
<1>6. ASSUME NEW x
      PROVE  (\E k \in DOMAIN more : more[k] = x) <=> x \in moved \/ x = n + 1
  <2>1. ASSUME NEW k \in DOMAIN more, more[k] = x
        PROVE  x \in moved \/ x = n + 1
    <3>1. CASE k = l + 1
      BY <1>1, <2>1, <3>1
    <3>2. CASE k # l + 1
      <4>1. k \in 1 .. l
        BY <1>1, <3>2
      <4> QED BY <1>1, <1>2, <2>1, <4>1
    <3> QED BY <3>1, <3>2
  <2>2. ASSUME x \in moved
        PROVE  \E k \in DOMAIN more : more[k] = x
    <3>1. PICK k \in 1 .. l : calls[k] = x
      BY <1>1, <2>2
    <3>2. k \in DOMAIN more /\ more[k] = x
      BY <1>1, <1>2, <3>1
    <3> QED BY <3>2
  <2>3. l + 1 \in DOMAIN more
    BY <1>1
  <2> QED BY <1>1, <2>1, <2>2, <2>3
<1>7. {more[k] : k \in DOMAIN more} = moved \cup {n + 1}
  BY <1>6
<1> QED BY <1>4, <1>5, <1>7

\* What most of the operations leave alone.
Same(b, c) ==
  /\ c \in HW /\ c.q = b.q /\ c.gone = b.gone /\ c.pushed = b.pushed
  /\ c.calls = b.calls /\ c.moved = b.moved /\ c.ok = b.ok /\ c.armed = b.armed
  /\ c.failed = b.failed /\ c.early = b.early

\* What all but a start leave alone of what the hardware was handed.
Kept(b, c) == c.started = b.started /\ c.since = b.since

LEMMA SameGood ==
  ASSUME NEW b, NEW c, Good(b), Same(b, c), c.when \in Nat
  PROVE  Good(c)
<1>1. Ordered(c)
  BY DEF Good, Same, Ordered
<1>2. Fitting(c)
  BY DEF Good, Same, Fitting
<1>3. Reported(c)
  BY DEF Good, Same, Reported
<1> QED BY <1>1, <1>2, <1>3 DEF Good

LEMMA ReleasedIs ==
  ASSUME NEW b, Ordered(b), OrderInv
  PROVE  /\ Same(b, Released(b)) /\ Kept(b, Released(b)) /\ Released(b).active = "NONE" /\ Released(b).when = 0
         /\ Released(b).listen = env.slave /\ Released(b).hw = b.hw
<1> DEFINE a == "NONE"
           w == 0
           c == Released(b)
<1>1. Ordered(c)
  BY ReleasedOrdered
<1>2. c = [b EXCEPT !.active = a, !.when = w, !.listen = env.slave]
  BY DEF Released
<1>3. c \in HW
  BY <1>1 DEF Ordered
<1> HIDE DEF a, w, c
<1>4. Same(b, c) /\ Kept(b, c) /\ c.active = a /\ c.when = w /\ c.listen = env.slave /\ c.hw = b.hw
  BY <1>2, <1>3 DEF Ordered, HW, Same, Kept
<1> QED BY <1>4 DEF a, w, c

LEMMA TakenOffIs ==
  ASSUME NEW b, Ordered(b), b.q # << >>
  PROVE  LET c == TakenOff(b)
         IN  /\ Ordered(c) /\ c.q = Tail(b.q) /\ Len(c.q) = Len(b.q) - 1
             /\ c.gone = Append(b.gone, Head(b.q)) /\ Len(c.gone) = Len(b.gone) + 1
             /\ c.pushed = b.pushed /\ c.calls = b.calls /\ c.moved = b.moved /\ c.ok = b.ok
             /\ c.armed = b.armed /\ c.when = b.when /\ c.active = b.active /\ c.hw = b.hw
             /\ c.started = b.started /\ c.failed = b.failed
             /\ c.early = IF uwTick < b.since + Delta THEN b.early \cup {Head(b.q)} ELSE b.early
<1> DEFINE c == TakenOff(b)
           q == Tail(b.q)
           g == Append(b.gone, Head(b.q))
           e == IF uwTick < b.since + Delta THEN b.early \cup {Head(b.q)} ELSE b.early
           z == 0
<1>1. Ordered(c)
  BY TakenOffOrdered
<1>2. c = [b EXCEPT !.q = q, !.gone = g, !.since = z, !.early = e]
  BY DEF TakenOff
<1>3. b.q \in Seq(Nat) /\ b.gone \in Seq(Nat) /\ Len(q) = Len(b.q) - 1 /\ Len(g) = Len(b.gone) + 1
  BY DEF Ordered, HW
<1> HIDE DEF q, g, c, e, z
<1>4. /\ c.q = q /\ c.gone = g /\ c.pushed = b.pushed /\ c.calls = b.calls /\ c.moved = b.moved
      /\ c.ok = b.ok /\ c.armed = b.armed /\ c.when = b.when /\ c.active = b.active /\ c.hw = b.hw
      /\ c.started = b.started /\ c.failed = b.failed /\ c.early = e
  BY <1>2 DEF Ordered, HW
<1> QED BY <1>1, <1>3, <1>4 DEF c, q, g, e

\* What was reported stays so when a request leaves.
LEMMA TakenOffGood ==
  ASSUME NEW b, Good(b), OrderInv, b.q # << >>, Spent(b)
  PROVE  Good(TakenOff(b))
<1> DEFINE c == TakenOff(b)
<1>1. /\ Ordered(c) /\ Len(c.q) = Len(b.q) - 1 /\ Len(c.gone) = Len(b.gone) + 1
      /\ c.pushed = b.pushed /\ c.calls = b.calls /\ c.moved = b.moved /\ c.ok = b.ok
      /\ c.armed = b.armed /\ c.when = b.when /\ c.failed = b.failed
      /\ c.early = IF uwTick < b.since + Delta THEN b.early \cup {Head(b.q)} ELSE b.early
  BY TakenOffIs, ZenonT(60) DEF Good
<1>2. Len(b.q) \in Nat /\ Len(b.gone) \in Nat /\ QSize \in Nat /\ b.calls \in Seq(Nat)
  BY I2CAssumption DEF Good, Ordered, HW
<1> HIDE DEF c
<1>3. Fitting(c)
  BY <1>1, <1>2 DEF Good, Fitting
<1>5. c.early \subseteq c.moved \cup c.failed
  <2>1. b.early \subseteq b.moved \cup b.failed
    BY DEF Good, Reported
  <2>2. b.since \in Int /\ uwTick \in Int /\ Delta \in Int
    BY I2CAssumption DEF Good, Ordered, HW, OrderInv
  <2>3. CASE Head(b.q) \in b.moved \cup b.failed
    BY <1>1, <2>1, <2>3
  <2>4. CASE b.since + Delta <= uwTick
    <3>1. ~(uwTick < b.since + Delta)
      BY <2>2, <2>4
    <3> QED BY <1>1, <2>1, <3>1
  <2> QED BY <2>3, <2>4 DEF Spent, SpentBy
<1>4. Reported(c)
  BY <1>1, <1>2, <1>5 DEF Good, Reported
<1> QED BY <1>1, <1>3, <1>4 DEF c, Good

LEMMA HalAbortIs ==
  ASSUME NEW b, Ordered(b), OrderInv
  PROVE  /\ Same(b, HalAbort(b)) /\ Kept(b, HalAbort(b)) /\ HalAbort(b).hw = Nothing
         /\ HalAbort(b).active = b.active /\ HalAbort(b).when = b.when
<1> DEFINE z == Nothing
           c == HalAbort(b)
<1>1. c = [b EXCEPT !.hw = z]
  BY DEF HalAbort
<1>2. c \in HW
  BY HalOrdered, 0 \in Int DEF Ordered
<1> HIDE DEF z, c
<1>3. Same(b, c) /\ Kept(b, c) /\ c.hw = z /\ c.active = b.active /\ c.when = b.when
  BY <1>1, <1>2 DEF Ordered, HW, Same, Kept
<1> QED BY <1>3 DEF z, c

\* A bus that nobody uses is in order, if its hardware is idle.
LEMMA ReleasedGood ==
  ASSUME NEW b, Good(b), OrderInv, b.hw = Nothing, b.started = b.gone
  PROVE  LET c == Released(b)
         IN  Good(c) /\ Working(c) /\ c.active = "NONE" /\ c.when = 0 /\ c.hw = Nothing
<1> DEFINE c == Released(b)
<1>1. /\ Same(b, c) /\ Kept(b, c) /\ c.active = "NONE" /\ c.when = 0 /\ c.listen = env.slave /\ c.hw = Nothing
  BY ReleasedIs DEF Good
<1> HIDE DEF c
<1>2. Good(c)
  BY <1>1, SameGood, 0 \in Nat
<1>4. Handed(c)
  BY <1>1 DEF Handed, Same, Kept
<1>3. Working(c)
  BY <1>1, <1>4 DEF Working
<1> QED BY <1>1, <1>2, <1>3 DEF c

LEMMA ErrorGood ==
  ASSUME NEW b, Good(b), OrderInv, Handed(b), b.active # "NONE",
         b.active = "Q" => b.q # << >> /\ Spent(b)
  PROVE  LET c == _error(b)
         IN  Good(c) /\ Working(c) /\ c.active = "NONE" /\ c.hw = Nothing
<1> DEFINE a == HalAbort(b)
           t == TakenOff(a)
<1>1. Same(b, a) /\ Kept(b, a) /\ a.hw = Nothing /\ a.active = b.active /\ a.when = b.when
  BY HalAbortIs DEF Good
<1>2. Good(a)
  BY <1>1, SameGood DEF Good, Fitting
<1>3. _error(b) = Released(IF b.active = "Q" THEN t ELSE a)
  BY DEF _error
<1>4. CASE b.active = "Q"
  <2>1. a.q # << >> /\ a.q = b.q /\ a.gone = b.gone
    BY <1>1, <1>4 DEF Same
  <2> HIDE DEF a
  <2>2. Spent(a)
    BY <1>1, <1>4 DEF Same, Kept, Spent, SpentBy
  <2>3. t.hw = a.hw /\ t.gone = Append(a.gone, Head(a.q)) /\ t.started = a.started
    BY <1>2, <2>1, TakenOffIs, ZenonT(60) DEF Good
  <2>4. Good(t)
    BY <1>2, <2>1, <2>2, TakenOffGood
  <2>5. t.started = t.gone
    BY <1>1, <1>4, <2>1, <2>3 DEF Handed, Kept
  <2> HIDE DEF t
  <2> QED BY <1>1, <1>3, <1>4, <2>3, <2>4, <2>5, ReleasedGood
<1>5. CASE b.active # "Q"
  <2> HIDE DEF t, a
  <2>1. a.started = a.gone
    BY <1>1, <1>5 DEF Handed, Same, Kept
  <2> QED BY <1>1, <1>2, <1>3, <1>5, <2>1, ReleasedGood
<1> QED BY <1>4, <1>5

LEMMA StartMasterGood ==
  ASSUME NEW b, Good(b), OrderInv, b.q # << >>, b.hw = Nothing, b.started = b.gone
  PROVE  LET c == _startMaster(b)
         IN  Good(c) /\ Working(c) /\ c.active = "Q"
<1> DEFINE a == "Q"
           w == until(uwTick)
           h == Head(b.q)
           l == Append(b.started, h)
           d == [b EXCEPT !.listen = FALSE, !.active = a, !.when = w]
           c == [d EXCEPT !.hw = h, !.started = l, !.since = uwTick]
<1>1. w \in Nat /\ w \in Int /\ uwTick \in Int /\ uwTick + Delta <= w
  BY I2CAssumption DEF until, OrderInv
<1>2. a \in Actives /\ h \in Int /\ b \in HW /\ h \in Nat
  BY DEF Actives, Good, Ordered, HW
<1>10. h \in Requests
  <2>1. h = b.q[1] /\ 1 \in 1 .. Len(b.q) /\ b.pushed \in Nat
    BY <1>2 DEF HW
  <2>2. h \in 1 .. b.pushed /\ b.pushed <= MaxReq
    BY <2>1, FirstWaiting DEF Good, Fitting
  <2> QED BY <2>1, <2>2, I2CAssumption DEF Requests
<1>11. l \in Seq(Nat)
  BY <1>2 DEF HW
<1>3. _startMaster(b) = HalStart(d, h)
  BY DEF _startMaster
<1> HIDE DEF a, w, h, l
<1>4. d \in HW /\ d.hw = Nothing /\ d.started = b.started
  <2>1. d \in HW
    BY <1>1, <1>2 DEF HW
  <2>2. d.hw = b.hw /\ d.started = b.started
    BY <1>2 DEF HW
  <2> QED BY <2>1, <2>2
<1>5. _startMaster(b) = c
  <2>1. Append(d.started, h) = l
    BY <1>4 DEF l
  <2> HIDE DEF d
  <2>2. HalStart(d, h) = [d EXCEPT !.hw = h, !.started = Append(d.started, h), !.since = uwTick]
    BY <1>4, <1>10 DEF HalStart
  <2> QED BY <1>3, <2>1, <2>2
<1>6. Same(b, c) /\ c.active = a /\ c.hw = h /\ c.listen = FALSE /\ c.when = w
  <2>1. c \in HW
    BY <1>1, <1>2, <1>4, <1>11 DEF HW
  <2> QED BY <1>2, <2>1 DEF HW, Same
<1>12. c.started = l /\ c.since = uwTick
  BY <1>4 DEF HW
<1> HIDE DEF c, d
<1>7. Good(c)
  BY <1>1, <1>6, SameGood
<1>8. c.active = "Q" /\ c.q # << >> /\ c.hw = Head(c.q)
  BY <1>6 DEF a, h, Same
<1>13. Handed(c)
  <2>1. c.started = Append(c.gone, Head(c.q))
    BY <1>6, <1>12 DEF Same, l, h
  <2> QED BY <1>1, <1>6, <1>8, <1>12, <2>1 DEF Handed
<1>9. Working(c)
  BY <1>6, <1>8, <1>13 DEF Working
<1> QED BY <1>5, <1>7, <1>8, <1>9

\* The poll at the end of a completion starts what waits.
LEMMA PollGood ==
  ASSUME NEW b, Good(b), Working(b), OrderInv, b.active = "NONE"
  PROVE  LET c == poll(b)
         IN  Good(c) /\ Working(c) /\ ~Free(c)
<1> DEFINE c == [b EXCEPT !.erred = FALSE]
<1>1. ~Expired(b)
  BY DEF Expired
<1>2. poll(b) = IF Free(c) THEN _startMaster(c) ELSE c
  BY <1>1 DEF poll
<1>3. b \in HW
  BY DEF Good, Ordered
<1>4. /\ Same(b, c) /\ Kept(b, c) /\ c.hw = b.hw /\ c.active = b.active /\ c.when = b.when
      /\ c.listen = b.listen /\ c.deaf = b.deaf
  <2>1. c \in HW
    BY <1>3 DEF HW
  <2> QED BY <1>3, <2>1 DEF HW, Same, Kept
<1> HIDE DEF c
<1>5. b.when \in Nat
  BY DEF Good, Fitting
<1>6. Good(c)
  BY <1>4, <1>5, SameGood
<1>10. Handed(c) /\ c.started = c.gone
  BY <1>4 DEF Working, Handed, Same, Kept
<1>7. Working(c) /\ c.hw = Nothing
  BY <1>4, <1>10 DEF Working, Same
<1>8. CASE Free(c)
  BY <1>2, <1>6, <1>7, <1>8, <1>10, StartMasterGood DEF Free
<1>9. CASE ~Free(c)
  BY <1>2, <1>6, <1>7, <1>9
<1> QED BY <1>8, <1>9

\* While its transfer is completed, a device's callback can but queue: the
\* poll inside of its push finds the bus busy, and the deadline not passed.
LEMMA CallbackIs ==
  ASSUME NEW b, Ordered(b), Fitting(b), OrderInv, b.active # "NONE",
         env.chain => ~Expired(b), NEW c \in Callback(b)
  PROVE  /\ Ordered(c) /\ Fitting(c) /\ c.active = b.active /\ c.hw = b.hw
         /\ c.gone = b.gone /\ c.calls = b.calls /\ c.moved = b.moved /\ c.failed = b.failed
         /\ c.early = b.early /\ c.started = b.started
         /\ b.q # << >> => c.q # << >> /\ Head(c.q) = Head(b.q)
<1> DEFINE e == Enqueued(b)
           f == [e EXCEPT !.erred = FALSE]
           q == Append(b.q, b.pushed + 1)
           n == b.pushed + 1
<1>1. CASE c = b
  BY <1>1
<1>2. CASE c # b
  <2>1. env.chain /\ CanPush(b) /\ c = poll(e)
    BY <1>2 DEF Callback
  <2>2. b \in HW /\ Ordered(e)
    BY EnqueuedOrdered DEF Ordered
  <2>3. e = [b EXCEPT !.q = q, !.pushed = n]
    BY DEF Enqueued
  <2>4. q # << >> /\ Len(q) = Len(b.q) + 1 /\ Len(b.q) \in Nat /\ b.pushed \in Nat
    <3>1. b.q \in Seq(Nat) /\ b.pushed \in Nat
      BY <2>2 DEF HW
    <3>2. n \in Nat
      BY <3>1
    <3> DEFINE s == b.q
    <3> HIDE DEF n, s
    <3>3. Len(Append(s, n)) = Len(s) + 1 /\ Len(s) \in Nat
      BY <3>1, <3>2 DEF s
    <3>4. Append(s, n) # << >>
      BY <3>3
    <3> QED BY <3>1, <3>3, <3>4 DEF n, s
  <2>14. b.q # << >> => Head(q) = Head(b.q)
    BY <2>2 DEF HW
  <2>5. Len(q) <= QSize /\ n <= MaxReq
    BY <2>1, <2>4, I2CAssumption DEF CanPush
  <2> HIDE DEF e, q, n
  <2>6. /\ e.q = q /\ e.pushed = n /\ e.active = b.active /\ e.hw = b.hw /\ e.gone = b.gone
        /\ e.calls = b.calls /\ e.moved = b.moved /\ e.ok = b.ok /\ e.when = b.when
        /\ e.armed = b.armed /\ e.failed = b.failed /\ e.early = b.early /\ e.started = b.started
    BY <2>2, <2>3 DEF HW
  <2>7. ~Expired(e)
    BY <2>1, <2>6 DEF Expired
  <2>8. e \in HW
    BY <2>2 DEF Ordered
  <2>9. /\ f \in HW /\ f.q = e.q /\ f.pushed = e.pushed /\ f.active = e.active /\ f.hw = e.hw
        /\ f.gone = e.gone /\ f.calls = e.calls /\ f.moved = e.moved /\ f.ok = e.ok
        /\ f.when = e.when /\ f.armed = e.armed /\ f.failed = e.failed /\ f.early = e.early
        /\ f.started = e.started
    BY <2>8 DEF HW
  <2>10. c = IF Free(f) THEN _startMaster(f) ELSE f
    BY <2>1, <2>7 DEF poll
  <2> HIDE DEF f
  <2>11. c = f
    BY <2>6, <2>9, <2>10 DEF Free
  <2>12. Ordered(f)
    BY <2>2, <2>9 DEF Ordered
  <2>13. Fitting(f)
    BY <2>5, <2>6, <2>9 DEF Fitting
  <2> QED BY <2>4, <2>6, <2>9, <2>11, <2>12, <2>13, <2>14
<1> QED BY <1>1, <1>2

\* The transfer of a bus is over, and was completed.
Over(b) ==
  [b EXCEPT !.hw = Nothing, !.moved = b.moved \cup (Requests \cap {b.hw})]

LEMMA CompleteGood ==
  ASSUME NEW b, Good(b), Working(b), OrderInv, b.hw # Nothing, env.chain => ~Expired(b),
         NEW d \in _complete(Over(b))
  PROVE  Good(d) /\ Working(d) /\ ~Free(d)
<1> DEFINE z == Nothing
           m == b.moved \cup (Requests \cap {b.hw})
           o == Over(b)
<1>1. b \in HW /\ b.active \in Actives /\ b.active # "NONE"
  BY DEF Good, Ordered, HW, Working
<1>2. o = [b EXCEPT !.hw = z, !.moved = m]
  BY DEF Over
<1>3. z \in Int /\ m \in SUBSET Int
  BY <1>1 DEF HW, Nothing
<1> HIDE DEF z, m, o
<1>4. /\ o \in HW /\ o.hw = z /\ o.moved = m /\ o.q = b.q /\ o.gone = b.gone /\ o.pushed = b.pushed
      /\ o.calls = b.calls /\ o.ok = b.ok /\ o.armed = b.armed /\ o.when = b.when /\ o.active = b.active
      /\ o.failed = b.failed /\ o.early = b.early /\ o.started = b.started
  <2>1. o \in HW
    BY <1>1, <1>2, <1>3 DEF HW
  <2> QED BY <1>1, <1>2, <2>1 DEF HW
<1>5. Ordered(o)
  BY <1>4 DEF Good, Ordered
<1>6. Fitting(o) /\ (env.chain => ~Expired(o))
  BY <1>4 DEF Good, Fitting, Expired
<1>10. Handed(b)
  BY DEF Working
<1>7. ASSUME NEW t, Good(t), t.hw = z, t.started = t.gone
      PROVE  Good(poll(Released(t))) /\ Working(poll(Released(t))) /\ ~Free(poll(Released(t)))
  <2> DEFINE r == Released(t)
  <2>1. Good(r) /\ Working(r) /\ r.active = "NONE"
    BY <1>7, ReleasedGood DEF z
  <2> HIDE DEF r
  <2>2. Good(poll(r)) /\ Working(poll(r)) /\ ~Free(poll(r))
    BY <2>1, PollGood
  <2> QED BY <2>2 DEF r
<1>8. CASE b.active = "Q"
  <2> DEFINE h == Head(b.q)
             l == Append(b.calls, h)
             e == [o EXCEPT !.calls = l]
  <2>1. b.q # << >> /\ b.hw = h
    BY <1>8 DEF Working
  <2>2. o.q # << >> /\ Head(o.q) = h
    BY <1>4, <2>1
  <2>3. b.q \in Seq(Nat) /\ h = b.q[1] /\ 1 \in 1 .. Len(b.q)
    BY <1>1, <2>1 DEF HW
  <2>4. h = Len(b.gone) + 1 /\ h \in 1 .. b.pushed
    BY <2>3, FirstWaiting DEF Good
  <2>5. Len(b.gone) \in Nat /\ b.pushed \in Nat /\ b.calls \in Seq(Nat) /\ b.moved \in SUBSET Int
    BY <1>1 DEF HW
  <2>6. b.pushed <= MaxReq /\ MaxReq \in Nat
    BY I2CAssumption DEF Good, Fitting
  <2>7. h \in Nat /\ b.hw \in Requests
    BY <2>1, <2>4, <2>5, <2>6 DEF Requests
  <2>8. m = b.moved \cup {h}
    BY <2>1, <2>7 DEF m
  <2>9. PICK c \in Called(o) : d = poll(Released(TakenOff(c)))
    BY <1>4, <1>8 DEF _complete, o
  <2>10. c \in Callback(e)
    <3>1. o.calls = b.calls
      BY <1>4
    <3> QED BY <2>2, <2>9, <3>1 DEF Called
  <2>11. l \in Seq(Nat)
    BY <2>5, <2>7
  <2> HIDE DEF l, h
  <2>12. /\ e \in HW /\ e.calls = l /\ e.hw = z /\ e.moved = m /\ e.q = o.q /\ e.gone = o.gone
         /\ e.pushed = o.pushed /\ e.ok = o.ok /\ e.armed = o.armed /\ e.when = o.when
         /\ e.active = o.active /\ e.failed = o.failed /\ e.early = o.early /\ e.started = o.started
    <3>1. e \in HW
      BY <1>4, <2>11 DEF HW
    <3> QED BY <1>4, <3>1 DEF HW
  <2> HIDE DEF e
  <2>13. Ordered(e) /\ Fitting(e)
    BY <1>5, <1>6, <2>12 DEF Ordered, Fitting
  <2>14. env.chain => ~Expired(e)
    BY <1>6, <2>12 DEF Expired
  <2>15. e.active # "NONE" /\ e.q # << >>
    BY <1>1, <1>4, <2>2, <2>12
  <2>16. /\ Ordered(c) /\ Fitting(c) /\ c.hw = z /\ c.gone = b.gone /\ c.calls = l /\ c.moved = m
         /\ c.failed = b.failed /\ c.early = b.early /\ c.started = b.started
         /\ c.q # << >> /\ Head(c.q) = h
    <3>1. /\ Ordered(c) /\ Fitting(c) /\ c.hw = e.hw /\ c.gone = e.gone /\ c.calls = e.calls
          /\ c.failed = e.failed /\ c.early = e.early /\ c.started = e.started
          /\ c.moved = e.moved /\ c.q # << >> /\ Head(c.q) = Head(e.q)
      BY <2>10, <2>13, <2>14, <2>15, CallbackIs, ZenonT(60)
    <3> QED BY <1>4, <2>2, <2>12, <3>1
  <2> DEFINE t == TakenOff(c)
  <2>17. /\ Ordered(t) /\ Len(t.q) = Len(c.q) - 1 /\ Len(t.gone) = Len(c.gone) + 1
         /\ t.pushed = c.pushed /\ t.calls = c.calls /\ t.moved = c.moved /\ t.ok = c.ok
         /\ t.armed = c.armed /\ t.when = c.when /\ t.hw = c.hw
         /\ t.gone = Append(c.gone, Head(c.q)) /\ t.started = c.started /\ t.failed = c.failed
         /\ t.early \in {c.early, c.early \cup {Head(c.q)}}
    BY <2>16, TakenOffIs, ZenonT(60)
  <2> HIDE DEF t
  <2>18. Len(c.q) \in Nat /\ QSize \in Nat
    BY <2>16, I2CAssumption DEF Ordered, HW
  <2>19. Fitting(t)
    BY <2>16, <2>17, <2>18 DEF Fitting
  <2>20. Reported(b)
    BY DEF Good
  <2>21. l = Append(b.calls, Len(b.gone) + 1)
    BY <2>4 DEF l
  <2>22. /\ \A k \in DOMAIN l : l[k] <= Len(b.gone) + 1
         /\ \A j, k \in DOMAIN l : j < k => l[j] < l[k]
         /\ {l[k] : k \in DOMAIN l} = b.moved \cup {Len(b.gone) + 1}
    <3> DEFINE s == b.calls
               w == b.moved
               n == Len(b.gone)
    <3>1. s \in Seq(Nat) /\ w \in SUBSET Int /\ n \in Nat /\ l = Append(s, n + 1)
      BY <2>5, <2>21
    <3>2. \A k \in DOMAIN s : s[k] <= n
      BY <2>20 DEF Reported
    <3>3. \A j, k \in DOMAIN s : j < k => s[j] < s[k]
      BY <2>20 DEF Reported
    <3>4. {s[k] : k \in DOMAIN s} = w
      BY <2>20 DEF Reported
    <3> HIDE DEF s, w, n
    <3>5. /\ \A k \in DOMAIN l : l[k] <= n + 1
          /\ \A j, k \in DOMAIN l : j < k => l[j] < l[k]
          /\ {l[k] : k \in DOMAIN l} = w \cup {n + 1}
      BY <3>1, <3>2, <3>3, <3>4, ReportedNext, SMTT(60)
    <3> QED BY <3>5 DEF w, n
  <2>23. t.calls = l /\ t.moved = b.moved \cup {Len(b.gone) + 1} /\ Len(t.gone) = Len(b.gone) + 1
    BY <2>4, <2>8, <2>16, <2>17
  <2>26. t.early \subseteq t.moved \cup t.failed
    <3>1. b.early \subseteq b.moved \cup b.failed
      BY <2>20 DEF Reported
    <3> QED BY <2>4, <2>16, <2>17, <2>23, <3>1
  <2>24. Reported(t)
    BY <2>22, <2>23, <2>26 DEF Reported
  <2>27. t.started = t.gone
    BY <1>8, <1>10, <2>16, <2>17 DEF Handed, h
  <2>25. Good(t) /\ t.hw = z /\ t.started = t.gone
    BY <2>16, <2>17, <2>19, <2>24, <2>27 DEF Good
  <2> QED BY <1>7, <2>9, <2>25 DEF t
<1>9. CASE b.active # "Q"
  <2>1. b.hw = SlaveIn \/ b.hw = SlaveOut
    BY <1>1, <1>9 DEF Working, Actives
  <2>2. b.hw \notin Requests
    BY <2>1, I2CAssumption DEF SlaveIn, SlaveOut, Requests
  <2>3. m = b.moved
    BY <2>2 DEF m
  <2>4. PICK c \in Callback(o) : d = poll(Released(c))
    BY <1>1, <1>4, <1>9 DEF _complete, o
  <2>5. o.active # "NONE"
    BY <1>1, <1>4
  <2>6. /\ Ordered(c) /\ Fitting(c) /\ c.hw = o.hw /\ c.gone = o.gone /\ c.calls = o.calls
        /\ c.moved = o.moved /\ c.failed = o.failed /\ c.early = o.early /\ c.started = o.started
    BY <1>5, <1>6, <2>4, <2>5, CallbackIs, ZenonT(60)
  <2>7. Reported(c)
    BY <1>4, <2>3, <2>6 DEF Good, Reported
  <2>8. Good(c) /\ c.hw = z /\ c.started = c.gone
    BY <1>4, <1>9, <1>10, <2>6, <2>7 DEF Good, Handed
  <2> QED BY <1>7, <2>4, <2>8
<1> QED BY <1>8, <1>9

LEMMA StartSlaveGood ==
  ASSUME NEW b, Good(b), Working(b), OrderInv, b.listen, b.hw = Nothing, NEW side \in {"IN", "OUT"}
  PROVE  LET c == _startSlave(b, side)
         IN  Good(c) /\ Working(c) /\ (Free(c) => Free(b) /\ c.erred = b.erred)
<1> DEFINE c == [b EXCEPT !.listen = FALSE, !.ok = @ /\ b.active = "NONE"]
           g == [c EXCEPT !.deaf = TRUE]
           w == until(uwTick)
           x == IF side = "IN" THEN SlaveIn ELSE SlaveOut
           e == [c EXCEPT !.active = side, !.when = w]
           f == [e EXCEPT !.hw = x]
<1>1. b \in HW /\ b.active = "NONE" /\ env.slave /\ b.ok /\ b.when \in Nat
  BY DEF Good, Ordered, Fitting, Working
<1>2. _startSlave(b, side) = IF side \notin b.armed THEN g ELSE HalStart(e, x)
  BY DEF _startSlave
<1>3. (b.ok /\ b.active = "NONE") = TRUE
  BY <1>1
<1>4. c = [b EXCEPT !.listen = FALSE, !.ok = TRUE]
  BY <1>3
<1>5. w \in Nat /\ w \in Int /\ x \in Int /\ side \in Actives /\ side # "NONE" /\ side # "Q"
  BY I2CAssumption DEF until, OrderInv, SlaveIn, SlaveOut, Actives
<1>10. x \notin Requests
  BY I2CAssumption DEF SlaveIn, SlaveOut, Requests
<1> HIDE DEF c, w, x
<1>6. /\ Same(b, c) /\ c.listen = FALSE /\ c.when = b.when /\ c.active = b.active /\ c.hw = b.hw
      /\ c.erred = b.erred /\ c.started = b.started
  <2>1. c \in HW
    BY <1>1, <1>4 DEF HW
  <2>2. c.ok = b.ok
    BY <1>1, <1>4 DEF HW
  <2> QED BY <1>1, <1>4, <2>1, <2>2 DEF HW, Same
<1>7. c \in HW
  BY <1>6 DEF Same
<1>11. c.started = c.gone
  BY <1>1, <1>6 DEF Working, Handed, Same
<1>8. CASE side \notin b.armed
  <2>1. /\ Same(c, g) /\ g.listen = FALSE /\ g.when = c.when /\ g.active = c.active /\ g.hw = c.hw
        /\ g.deaf = TRUE /\ g.erred = c.erred /\ g.started = c.started
    <3>1. g \in HW
      BY <1>7 DEF HW
    <3>2. g.ok = c.ok
      BY <1>7 DEF HW
    <3>3. g.deaf = TRUE /\ g.listen = c.listen /\ g.erred = c.erred
      BY <1>7 DEF HW
    <3>4. /\ g.q = c.q /\ g.gone = c.gone /\ g.pushed = c.pushed /\ g.calls = c.calls
          /\ g.moved = c.moved /\ g.armed = c.armed /\ g.failed = c.failed /\ g.early = c.early
          /\ g.started = c.started
          /\ g.when = c.when /\ g.active = c.active /\ g.hw = c.hw
      BY <1>7 DEF HW
    <3> QED BY <1>6, <3>1, <3>2, <3>3, <3>4 DEF Same
  <2> HIDE DEF g
  <2>2. Same(b, g)
    BY <1>6, <2>1 DEF Same
  <2>3. Good(g)
    BY <1>1, <1>6, <2>1, <2>2, SameGood
  <2>6. Handed(g)
    BY <1>1, <1>6, <1>11, <2>1 DEF Handed, Same
  <2>4. Working(g)
    BY <1>1, <1>6, <2>1, <2>6 DEF Working
  <2>5. Free(g) => Free(b) /\ g.erred = b.erred
    BY <1>6, <2>1, <2>2 DEF Free, Same
  <2> QED BY <1>2, <1>8, <2>3, <2>4, <2>5
<1>9. CASE side \in b.armed
  <2>1. e \in HW /\ e.hw = Nothing
    <3>1. e \in HW
      BY <1>5, <1>7 DEF HW
    <3>2. e.hw = c.hw
      BY <1>7 DEF HW
    <3> QED BY <1>6, <3>1, <3>2
  <2>2. _startSlave(b, side) = f
    <3> HIDE DEF e
    <3> QED BY <1>2, <1>9, <1>10, <2>1 DEF HalStart
  <2>3. /\ Same(c, f) /\ f.listen = FALSE /\ f.when = w /\ f.active = side /\ f.hw = x
        /\ f.started = c.started
    <3>1. f \in HW
      BY <1>5, <2>1 DEF HW
    <3>2. f.ok = c.ok /\ f.listen = c.listen
      BY <1>7 DEF HW
    <3>3. /\ f.q = c.q /\ f.gone = c.gone /\ f.pushed = c.pushed /\ f.calls = c.calls
          /\ f.moved = c.moved /\ f.armed = c.armed /\ f.failed = c.failed /\ f.early = c.early
          /\ f.started = c.started
          /\ f.when = w /\ f.active = side /\ f.hw = x
      BY <1>5, <1>7 DEF HW
    <3> QED BY <1>6, <3>1, <3>2, <3>3 DEF Same
  <2> HIDE DEF e, f
  <2>4. Same(b, f)
    BY <1>6, <2>3 DEF Same
  <2>5. Good(f)
    BY <1>5, <2>3, <2>4, SameGood
  <2>8. Handed(f)
    BY <1>5, <1>11, <2>3 DEF Handed, Same
  <2>6. Working(f)
    BY <1>5, <2>3, <2>8 DEF Working, x
  <2>7. ~Free(f)
    BY <1>5, <2>3 DEF Free
  <2> QED BY <2>2, <2>5, <2>6, <2>7
<1> QED BY <1>8, <1>9

\* A push adds a request behind the others.
LEMMA EnqueuedGood ==
  ASSUME NEW b, Good(b), Working(b), CanPush(b)
  PROVE  Good(Enqueued(b)) /\ Working(Enqueued(b))
<1> DEFINE c == Enqueued(b)
           s == b.q
           n == b.pushed + 1
           q == Append(s, n)
<1>1. b \in HW /\ Ordered(c)
  BY EnqueuedOrdered DEF Good, Ordered
<1>2. s \in Seq(Nat) /\ n \in Nat
  BY <1>1 DEF HW
<1>3. c = [b EXCEPT !.q = q, !.pushed = n]
  BY DEF Enqueued
<1> HIDE DEF n, s
<1>4. Len(q) = Len(s) + 1 /\ Len(s) \in Nat /\ (s # << >> => q # << >> /\ Head(q) = Head(s))
  BY <1>2
<1> HIDE DEF q, c
<1>5. /\ c.q = q /\ c.pushed = n /\ c.active = b.active /\ c.hw = b.hw /\ c.gone = b.gone
      /\ c.calls = b.calls /\ c.moved = b.moved /\ c.ok = b.ok /\ c.when = b.when
      /\ c.armed = b.armed /\ c.listen = b.listen /\ c.deaf = b.deaf
      /\ c.failed = b.failed /\ c.early = b.early /\ c.started = b.started /\ c.since = b.since
  BY <1>1, <1>3 DEF HW
<1>6. Len(q) <= QSize
  <2>1. Len(s) < QSize
    BY DEF CanPush, s
  <2> QED BY <1>4, <2>1, I2CAssumption
<1>7. n <= MaxReq
  <2>1. b.pushed < MaxReq /\ b.pushed \in Nat
    BY <1>1 DEF CanPush, HW
  <2> QED BY <2>1, I2CAssumption DEF n
<1>8. Fitting(c)
  BY <1>5, <1>6, <1>7 DEF Good, Fitting
<1>9. Reported(c)
  BY <1>5 DEF Good, Reported
<1>11. Handed(c)
  <2>1. Handed(b) /\ (b.active = "Q" => s # << >>)
    BY DEF Working, s
  <2>2. b.active = "Q" => Head(q) = Head(b.q)
    BY <1>4, <2>1 DEF s
  <2> QED BY <1>5, <2>1, <2>2 DEF Handed
<1>10. Working(c)
  BY <1>4, <1>5, <1>11 DEF Working, s
<1> QED BY <1>1, <1>8, <1>9, <1>10 DEF Good, c

-----------------------------------------------------------------------------
(* The steps, in careful environments                                      *)

LEMMA CareInit == Init => CareInv
<1> SUFFICES ASSUME Init
             PROVE  CareInv
  OBVIOUS
<1>1. OrderInv
  BY OrderInit
<1>2. /\ bus.q = << >> /\ bus.active = "NONE" /\ bus.when = 0 /\ bus.armed = {} /\ bus.hw = Nothing
      /\ bus.listen = env.slave /\ bus.ok /\ bus.pushed = 0 /\ bus.moved = {} /\ bus.calls = << >>
      /\ bus.gone = << >> /\ bus.started = << >> /\ bus.early = {} /\ pc = "out"
  BY DEF Init
<1>3. Fitting(bus)
  BY <1>2, I2CAssumption DEF Fitting
<1>4. DOMAIN bus.calls = {}
  BY <1>2
<1>5. Reported(bus)
  BY <1>2, <1>4 DEF Reported
<1>6. Working(bus) /\ ~Free(bus)
  BY <1>2 DEF Working, Handed, Free
<1> QED BY <1>1, <1>2, <1>3, <1>5, <1>6 DEF CareInv, Good, OrderInv

LEMMA CareNext ==
  ASSUME CareInv, Careful(env), [Next]_vars
  PROVE  CareInv'
<1>a. /\ OrderInv /\ Good(bus) /\ Working(bus)
      /\ pc \in {"out", "check", "error", "free", "start"}
      /\ pc = "error" => bus.active # "NONE" /\ bus.when = 0 /\ (bus.active = "Q" => Spent(bus))
      /\ pc = "start" => Free(bus)
      /\ pc = "out" /\ Free(bus) => bus.erred
  BY DEF CareInv
<1>b. OrderInv'
  BY <1>a, OrderNext
<1>c. bus \in HW /\ Ordered(bus) /\ bus.when \in Nat /\ uwTick \in Nat
  BY <1>a DEF Good, Ordered, Fitting, OrderInv
<1>h. uwTick' \in Nat /\ uwTick <= uwTick' /\ bus.since \in Int /\ Delta \in Nat
  <2>1. uwTick' = uwTick \/ uwTick' = uwTick + 1
    BY DEF Next, vars, TransferDone, BusError, SysTick, Push, Check, TimedOut, CheckFree, Start,
       Addressed, PushSlave
  <2> QED BY <1>c, <2>1, I2CAssumption DEF HW
<1>d. env' = env
  BY DEF Next, vars, TransferDone, BusError, SysTick, Push, Check, TimedOut, CheckFree, Start,
     Addressed, PushSlave
<1>f. ASSUME NEW b, bus' = b, Good(b), Working(b),
             pc' \in {"out", "check", "error", "free", "start"},
             pc' = "error" => b.active # "NONE" /\ b.when = 0 /\ (b.active = "Q" => SpentBy(b, uwTick')),
             pc' = "start" => Free(b),
             pc' = "out" /\ Free(b) => b.erred
      PROVE  CareInv'
  <2>1. Good(bus') /\ Working(bus')
    BY <1>f
  <2>2. Good(bus)' /\ Working(bus)'
    BY <1>d, <2>1 DEF Good, Ordered, Fitting, Reported, Working, Handed
  <2> QED BY <1>b, <1>f, <2>2 DEF CareInv, Free, Spent, SpentBy
\* What a transfer that ends finds: a main loop that is not about to abort it
\* or to start another, and a deadline that has not passed if anything pushes.
<1>g. ASSUME Interruptible, bus.hw # Nothing, InTime
      PROVE  /\ pc # "error" /\ pc # "start" /\ (env.chain => ~Expired(bus)) /\ bus.active # "NONE"
             /\ bus.active = "Q" => bus.q # << >>
  <2>1. bus.active # "NONE" /\ (bus.active = "Q" => bus.q # << >>)
    BY <1>a, <1>g DEF Working
  <2>2. pc # "start"
    BY <1>a, <2>1 DEF Free
  <2>3. ~env.late => uwTick < bus.when
    BY <1>g DEF InTime
  <2>4. env.chain => ~Expired(bus)
    BY <2>3 DEF Careful, Expired
  <2>5. pc # "error"
    <3>1. SUFFICES ASSUME pc = "error"
                   PROVE  FALSE
      OBVIOUS
    <3>2. env.preempt
      BY <1>g, <3>1 DEF Interruptible
    <3>3. uwTick < 0
      BY <1>a, <2>3, <3>1, <3>2 DEF Careful
    <3> QED BY <1>c, <3>3
  <2> QED BY <2>1, <2>2, <2>4, <2>5
<1>1. CASE TransferDone
  <2>1. Interruptible /\ bus.hw # Nothing /\ InTime /\ bus' \in _complete(Over(bus)) /\ pc' = pc
    BY <1>1 DEF TransferDone, Over, Ended
  <2>2. Good(bus') /\ Working(bus') /\ ~Free(bus')
    BY <1>a, <1>g, <2>1, CompleteGood
  <2> QED BY <1>a, <1>f, <1>g, <2>1, <2>2
<1>2. CASE BusError
  <2> DEFINE z == Nothing
             m == bus.failed \cup (Requests \cap {bus.hw})
             h == [bus EXCEPT !.hw = z, !.failed = m]
             c == _error(h)
             d == [c EXCEPT !.erred = TRUE]
  <2>1. Interruptible /\ bus.hw # Nothing /\ InTime /\ bus' = d /\ pc' = pc
    BY <1>2 DEF BusError, Ended
  <2>2. z \in Int /\ m \in SUBSET Int
    BY <1>c, I2CAssumption DEF HW, Nothing, Requests
  <2> HIDE DEF z, m
  <2>9. /\ h \in HW /\ h.hw = z /\ h.failed = m /\ h.q = bus.q /\ h.gone = bus.gone
        /\ h.pushed = bus.pushed /\ h.calls = bus.calls /\ h.moved = bus.moved /\ h.ok = bus.ok
        /\ h.armed = bus.armed /\ h.when = bus.when /\ h.active = bus.active /\ h.early = bus.early
        /\ h.started = bus.started /\ h.since = bus.since
    <3>1. h \in HW
      BY <1>c, <2>2 DEF HW
    <3> QED BY <1>c, <2>2, <3>1 DEF HW
  <2> HIDE DEF h
  <2>10. Ordered(h) /\ Fitting(h)
    BY <1>a, <1>c, <2>9 DEF Ordered, Good, Fitting
  <2>11. Reported(h)
    <3>1. bus.early \subseteq bus.moved \cup bus.failed /\ bus.failed \subseteq m
      BY <1>a DEF Good, Reported, m
    <3>2. h.early \subseteq h.moved \cup h.failed
      BY <2>9, <3>1
    <3> QED BY <1>a, <2>9, <3>2 DEF Good, Reported
  <2>12. Handed(h)
    BY <1>a, <2>9 DEF Working, Handed
  <2>13. ASSUME h.active = "Q" PROVE h.q # << >> /\ Spent(h)
    <3>1. bus.q # << >> /\ bus.hw = Head(bus.q)
      BY <1>a, <2>9, <2>13 DEF Working
    <3>2. bus.q[1] = Head(bus.q) /\ 1 \in 1 .. Len(bus.q) /\ bus.pushed \in Nat
      BY <1>c, <3>1 DEF HW
    <3>3. Head(bus.q) \in 1 .. bus.pushed /\ bus.pushed <= MaxReq
      BY <1>a, <1>c, <3>2, FirstWaiting DEF Good, Fitting
    <3>4. Head(bus.q) \in Requests
      BY <3>2, <3>3, I2CAssumption DEF Requests
    <3>5. Head(bus.q) \in m
      BY <3>1, <3>4 DEF m
    <3> QED BY <2>9, <3>1, <3>5 DEF Spent, SpentBy
  <2>3. Good(h) /\ h.active # "NONE"
    BY <1>g, <2>1, <2>9, <2>10, <2>11 DEF Good
  <2>4. Good(c) /\ Working(c)
    BY <1>a, <2>3, <2>12, <2>13, ErrorGood
  <2>5. c \in HW /\ c.when \in Nat
    BY <2>4 DEF Good, Ordered, Fitting
  <2> HIDE DEF c
  <2>6. /\ Same(c, d) /\ Kept(c, d) /\ d.when = c.when /\ d.erred = TRUE /\ d.active = c.active
        /\ d.hw = c.hw /\ d.listen = c.listen /\ d.deaf = c.deaf
    <3>1. d \in HW
      BY <2>5 DEF HW
    <3> QED BY <2>5, <3>1 DEF HW, Same, Kept
  <2> HIDE DEF d
  <2>7. Good(d)
    BY <2>4, <2>5, <2>6, SameGood
  <2>8. Working(d)
    BY <2>4, <2>6 DEF Working, Handed, Same, Kept
  <2> QED BY <1>a, <1>f, <1>g, <2>1, <2>6, <2>7, <2>8
<1>3. CASE SysTick
  <2>1. bus' = bus /\ pc' = pc
    BY <1>3 DEF SysTick
  <2>2. Spent(bus) => SpentBy(bus, uwTick')
    BY <1>c, <1>h, <2>1 DEF Spent, SpentBy
  <2> QED BY <1>a, <1>f, <2>1, <2>2
<1>4. CASE Push
  BY <1>a, <1>f, <1>4, EnqueuedGood DEF Push
<1>5. CASE Check
  <2> DEFINE w == IF Expired(bus) THEN 0 ELSE bus.when
             d == [bus EXCEPT !.when = w]
  <2>1. w \in Nat /\ w \in Int
    BY <1>c
  <2>2. bus' = d /\ pc' = IF Expired(bus) THEN "error" ELSE "free"
    BY <1>5 DEF Check
  <2>3. Expired(bus) => w = 0 /\ bus.active # "NONE"
    BY DEF Expired
  <2>7. Expired(bus) /\ bus.active = "Q" => bus.since + Delta <= uwTick'
    BY <1>a, <1>c, <1>h DEF Expired, Working, Handed
  <2> HIDE DEF w
  <2>8. w = 0 \/ w = bus.when
    BY DEF w
  <2>4. /\ Same(bus, d) /\ Kept(bus, d) /\ d.when = w /\ d.active = bus.active /\ d.hw = bus.hw
        /\ d.listen = bus.listen /\ d.deaf = bus.deaf
    <3>1. d \in HW
      BY <1>c, <2>1 DEF HW
    <3> QED BY <1>c, <3>1 DEF HW, Same, Kept
  <2> HIDE DEF d
  <2>5. Good(d)
    BY <1>a, <2>1, <2>4, SameGood
  <2>9. Handed(d)
    BY <1>a, <2>4, <2>8 DEF Working, Handed, Same, Kept
  <2>6. Working(d)
    BY <1>a, <2>4, <2>9 DEF Working, Same
  <2>10. Expired(bus) /\ d.active = "Q" => SpentBy(d, uwTick')
    BY <2>4, <2>7 DEF SpentBy, Kept
  <2> QED BY <1>f, <2>2, <2>3, <2>4, <2>5, <2>6, <2>10
<1>6. CASE TimedOut
  <2>1. pc = "error" /\ bus' = _error(bus) /\ pc' = "free"
    BY <1>6 DEF TimedOut
  <2>2. Handed(bus) /\ (bus.active = "Q" => bus.q # << >>)
    BY <1>a DEF Working
  <2>3. Good(bus') /\ Working(bus')
    BY <1>a, <2>1, <2>2, ErrorGood
  <2> QED BY <1>f, <2>1, <2>3
<1>7. CASE CheckFree
  <2> DEFINE d == [bus EXCEPT !.erred = FALSE]
  <2>1. bus' = d /\ pc' = IF Free(bus) THEN "start" ELSE "out"
    BY <1>7 DEF CheckFree
  <2>2. /\ Same(bus, d) /\ Kept(bus, d) /\ d.when = bus.when /\ d.active = bus.active /\ d.hw = bus.hw
        /\ d.listen = bus.listen /\ d.deaf = bus.deaf
    <3>1. d \in HW
      BY <1>c DEF HW
    <3> QED BY <1>c, <3>1 DEF HW, Same, Kept
  <2> HIDE DEF d
  <2>3. Good(d)
    BY <1>a, <1>c, <2>2, SameGood
  <2>4. Working(d)
    BY <1>a, <2>2 DEF Working, Handed, Same, Kept
  <2>5. Free(d) <=> Free(bus)
    BY <2>2 DEF Free, Same
  <2> QED BY <1>f, <2>1, <2>3, <2>4, <2>5
<1>8. CASE Start
  <2>1. pc = "start" /\ bus' = _startMaster(bus) /\ pc' = "out"
    BY <1>8 DEF Start
  <2>2. bus.q # << >> /\ bus.hw = Nothing /\ bus.started = bus.gone
    BY <1>a, <2>1 DEF Free, Working, Handed
  <2>3. Good(bus') /\ Working(bus') /\ bus'.active = "Q"
    BY <1>a, <2>1, <2>2, StartMasterGood
  <2>4. ~Free(bus')
    BY <2>3 DEF Free
  <2> QED BY <1>f, <2>1, <2>3, <2>4
<1>9. ASSUME NEW side \in {"IN", "OUT"}, Addressed(side)
      PROVE  CareInv'
  <2>1. Interruptible /\ bus.listen /\ bus.hw = Nothing /\ bus' = _startSlave(bus, side) /\ pc' = pc
    BY <1>9 DEF Addressed
  <2>2. env.slave
    BY <1>a, <2>1 DEF Working
  <2>3. pc = "out"
    BY <2>1, <2>2 DEF Interruptible, Careful
  <2>4. Good(bus') /\ Working(bus') /\ (Free(bus') => Free(bus) /\ bus'.erred = bus.erred)
    BY <1>a, <2>1, StartSlaveGood
  <2> QED BY <1>a, <1>f, <2>1, <2>3, <2>4
<1>10. ASSUME NEW side \in {"IN", "OUT"}, PushSlave(side)
       PROVE  CareInv'
  <2> DEFINE m == bus.armed \cup {side}
             d == [bus EXCEPT !.armed = m]
  <2>1. m \in SUBSET Actives /\ m \subseteq {"IN", "OUT"}
    BY <1>a, <1>c DEF HW, Actives, Good, Fitting
  <2>2. bus' = d /\ pc' = "check"
    BY <1>10 DEF PushSlave
  <2> HIDE DEF m
  <2>3. /\ d \in HW /\ d.armed = m /\ d.q = bus.q /\ d.gone = bus.gone /\ d.pushed = bus.pushed
        /\ d.calls = bus.calls /\ d.moved = bus.moved /\ d.ok = bus.ok /\ d.when = bus.when
        /\ d.active = bus.active /\ d.hw = bus.hw /\ d.listen = bus.listen /\ d.deaf = bus.deaf
        /\ d.failed = bus.failed /\ d.early = bus.early /\ d.started = bus.started
        /\ d.since = bus.since
    <3>1. d \in HW
      BY <1>c, <2>1 DEF HW
    <3> QED BY <1>c, <2>1, <3>1 DEF HW
  <2> HIDE DEF d
  <2>4. Ordered(d)
    BY <1>c, <2>3 DEF Ordered
  <2>5. Fitting(d) /\ Reported(d)
    BY <1>a, <2>1, <2>3 DEF Good, Fitting, Reported
  <2>6. Working(d)
    BY <1>a, <2>3 DEF Working, Handed
  <2> QED BY <1>f, <2>2, <2>4, <2>5, <2>6 DEF Good
<1>11. CASE UNCHANGED vars
  <2>1. Spent(bus) => SpentBy(bus, uwTick')
    BY <1>11 DEF vars, Spent, SpentBy
  <2> QED BY <1>a, <1>f, <1>11, <2>1 DEF vars
<1> QED BY <1>1, <1>2, <1>3, <1>4, <1>5, <1>6, <1>7, <1>8, <1>9, <1>10, <1>11 DEF Next

\* An environment is careful all along if all there are are.
LEMMA CareInvariant ==
  ASSUME \A e \in Envs : Careful(e)
  PROVE  Spec => []CareInv
<1>1. CareInv /\ [Next]_vars => CareInv'
  BY CareNext DEF CareInv, OrderInv
<1> QED BY <1>1, CareInit, PTL DEF Spec

\* Requests are handed to the hardware and leave the queue in the order pushed, each
\* once, and none that the hardware still works on leaves before its time is over:
\* whatever callbacks push, times out, fails or comes between the statements of
\* push (i2c.cpp:19-130).
THEOREM I2CInOrder ==
  ASSUME \A e \in Envs : Careful(e)
  PROVE  Spec => []InOrder
<1>1. ASSUME CareInv
      PROVE  InOrder
  <2>1. Ordered(bus) /\ Handed(bus) /\ Reported(bus)
    BY <1>1 DEF CareInv, Good, Working
  <2>2. bus.gone \in Seq(Nat) /\ bus.q \in Seq(Nat) /\ bus.gone \o << >> = bus.gone
    BY <2>1 DEF Ordered, HW
  <2>3. bus.active = "Q" => bus.q # << >>
    BY <1>1 DEF CareInv, Working
  <2>4. bus.active = "Q" => bus.gone \o <<Head(bus.q)>> = Append(bus.gone, Head(bus.q))
    BY <2>2, <2>3
  <2> QED BY <2>1, <2>2, <2>4 DEF InOrder, Ordered, Handed, Reported
<1> QED BY <1>1, CareInvariant, PTL

\* No assert of the driver or its queue fails, and the hardware works on the
\* request at the front, or on the slave transfer that is active: nothing is
\* completed, timed out or started that is not the driver's (i2c.cpp:19-130).
THEOREM I2CSound ==
  ASSUME \A e \in Envs : Careful(e)
  PROVE  Spec => []Sound
<1>1. ASSUME CareInv
      PROVE  Sound
  <2>1. /\ OrderInv /\ Ordered(bus) /\ Fitting(bus) /\ Working(bus)
        /\ pc \in {"out", "check", "error", "free", "start"}
    BY <1>1 DEF CareInv, Good
  <2>2. /\ bus \in HW /\ bus.q \in Seq(Nat) /\ bus.active \in Actives /\ bus.pushed \in Nat
        /\ bus.listen \in BOOLEAN
    BY <2>1 DEF Ordered, HW
  <2>3. \A i \in 1 .. Len(bus.q) : bus.q[i] \in Requests
    <3>1. bus.pushed <= MaxReq /\ MaxReq \in Nat
      BY <2>1, I2CAssumption DEF Fitting
    <3>2. \A i \in 1 .. Len(bus.q) : bus.q[i] \in 1 .. bus.pushed
      BY <2>1, FirstWaiting
    <3> QED BY <2>2, <3>1, <3>2 DEF Requests
  <2>4. bus.q \in Seq(Requests)
    BY <2>2, <2>3, SMTT(60)
  <2>a. /\ Nothing \notin Requests /\ SlaveIn \notin Requests /\ SlaveOut \notin Requests
        /\ Nothing # SlaveIn /\ Nothing # SlaveOut /\ SlaveIn # SlaveOut
    BY I2CAssumption DEF Nothing, SlaveIn, SlaveOut, Requests
  <2>5. CASE bus.active = "Q"
    <3>1. bus.q # << >> /\ bus.hw = Head(bus.q)
      BY <2>1, <2>5 DEF Working
    <3>2. bus.hw \in Requests
      BY <2>4, <3>1
    <3>3. bus.hw # SlaveIn /\ bus.hw # SlaveOut
      BY <2>a, <3>2
    <3> QED BY <2>1, <2>2, <2>4, <2>5, <3>1, <3>2, <3>3 DEF Sound, OrderInv, Fitting, Actives
  <2>6. CASE bus.active # "Q"
    <3>1. \/ bus.active = "NONE" /\ bus.hw = Nothing
          \/ bus.active = "IN" /\ bus.hw = SlaveIn
          \/ bus.active = "OUT" /\ bus.hw = SlaveOut
      BY <2>1, <2>2, <2>6 DEF Working, Actives
    <3> QED BY <2>1, <2>2, <2>4, <2>a, <3>1 DEF Sound, OrderInv, Fitting, Actives
  <2> QED BY <2>5, <2>6
<1> QED BY <1>1, CareInvariant, PTL

\* A device is called back once for every request that was transferred, in
\* order, and for no other, although its callback pushes and polls the bus
\* while its own request is still at the front (i2c.cpp:105-125).
THEOREM I2CCalledIffTransferred ==
  ASSUME \A e \in Envs : Careful(e)
  PROVE  Spec => []CalledIffTransferred
<1>1. CareInv => CalledIffTransferred
  BY DEF CareInv, Good, Reported, CalledIffTransferred
<1> QED BY <1>1, CareInvariant, PTL

\* Requests never wait at a free bus, but after an error, which does not poll;
\* and a free bus listens, unless it was addressed with nothing to say.
THEOREM I2CFreeBus ==
  ASSUME \A e \in Envs : Careful(e)
  PROVE  Spec => []FreeBus
<1>1. CareInv => FreeBus
  BY DEF CareInv, Working, Free, FreeBus
<1> QED BY <1>1, CareInvariant, PTL

(***************************************************************************)
(* SPI                                                                     *)
(***************************************************************************)

SpiDevs == DOMAIN SpiConf

SpiHW == [q : Seq(Nat), xfer : BOOLEAN, conf : {SpiConf[d] : d \in SpiDevs} \cup {0},
          sel : SUBSET SpiDevs, hw : Nat, ok : BOOLEAN, dev : Seq(SpiDevs),
          moved : Seq(Nat), calls : Seq(Nat), gone : Seq(Nat), erred : BOOLEAN]

\* Everything but what chip, mode and hardware do.
SpiOrdered(b) ==
  /\ b \in SpiHW /\ b.ok
  /\ b.gone \o b.q = [k \in 1 .. Len(b.dev) |-> k]
  /\ b.calls = b.gone /\ b.moved = b.gone

\* The hardware works on the request at the front, in its device's mode, and
\* this device is the one selected.
SpiAtFront(b) ==
  b.hw # 0 => /\ b.q # << >> /\ b.hw = Head(b.q)
              /\ b.sel = {b.dev[b.hw]} /\ b.conf = SpiConf[b.dev[b.hw]]

\* A bus that is free selects nobody.
SpiQuiet(b) == ~b.xfer => b.hw = 0 /\ b.sel = {}

SpiWhole(b) == SpiOrdered(b) /\ SpiAtFront(b) /\ SpiQuiet(b)

\* Without interrupts inside of push, a bus that is not free works.
SpiBusy(b) == ~sEnv.preempt /\ b.xfer => b.hw # 0

SpiInv ==
  /\ sEnv \in SpiEnvs
  /\ sPc \in {"out", "poll", "select", "transfer", "mark"}
  /\ SpiOrdered(sBus) /\ SpiAtFront(sBus)
  /\ sPc \in {"out", "poll"} => SpiQuiet(sBus) /\ SpiBusy(sBus)
  /\ sPc = "select" => SpiQuiet(sBus) /\ ~sBus.xfer /\ sBus.q # << >>
  /\ sPc = "transfer" => /\ ~sBus.xfer /\ sBus.hw = 0 /\ sBus.q # << >>
                         /\ sBus.sel = {sBus.dev[Head(sBus.q)]}
                         /\ sBus.conf = SpiConf[sBus.dev[Head(sBus.q)]]
  /\ sPc = "mark" /\ ~sEnv.preempt => sBus.hw # 0

\* The request at the front is one of those pushed.
LEMMA SpiFront ==
  ASSUME NEW b, SpiOrdered(b), b.q # << >>
  PROVE  Head(b.q) \in 1 .. Len(b.dev) /\ Head(b.q) # 0 /\ b.dev[Head(b.q)] \in SpiDevs
<1> DEFINE n == Len(b.dev)
<1>1. /\ b.gone \in Seq(Nat) /\ b.q \in Seq(Nat) /\ b.dev \in Seq(SpiDevs) /\ n \in Nat
      /\ b.gone \o b.q = [k \in 1 .. n |-> k]
  BY DEF SpiOrdered, SpiHW
<1> HIDE DEF n
<1>2. Head(b.q) \in 1 .. n /\ Head(b.q) # 0
  BY <1>1, NumberedFirst
<1> QED BY <1>1, <1>2 DEF n

\* A request is started: chip, mode and transfer are its own.
LEMMA SpiStart ==
  ASSUME NEW b, SpiOrdered(b), b.q # << >>, b.hw = 0, b.sel = {}
  PROVE  LET c == Spi!_startMaster(b)
         IN  SpiOrdered(c) /\ SpiAtFront(c) /\ c.xfer /\ c.hw # 0
<1> DEFINE n == Head(b.q)
           d == b.dev[n]
           c == Spi!_startMaster(b)
<1>0. n \in 1 .. Len(b.dev) /\ n # 0 /\ d \in SpiDevs
  BY SpiFront
<1>1. n \in Nat /\ n # 0 /\ d \in SpiDevs /\ b \in SpiHW
  BY <1>0 DEF SpiOrdered
<1>2. c = [b EXCEPT !.conf = SpiConf[d], !.sel = {d}, !.hw = n, !.xfer = TRUE]
  <2>1. Spi!Selected(b) = [b EXCEPT !.conf = SpiConf[d], !.sel = {d}]
    BY DEF Spi!Selected, Spi!Front
  <2> DEFINE e == [b EXCEPT !.conf = SpiConf[d], !.sel = {d}]
  <2>2. e.q = b.q /\ e.hw = 0
    BY <1>1 DEF SpiHW
  <2>3. Spi!HalStart(e) = [e EXCEPT !.hw = n]
    BY <2>2 DEF Spi!HalStart, Spi!Nothing
  <2> QED BY <2>1, <2>3 DEF Spi!_startMaster, Spi!Marked
<1> HIDE DEF c, d, n
<1>3. c \in SpiHW
  BY <1>1, <1>2 DEF SpiHW
<1>4. /\ c.q = b.q /\ c.dev = b.dev /\ c.gone = b.gone /\ c.calls = b.calls /\ c.moved = b.moved
      /\ c.ok = b.ok /\ c.xfer /\ c.hw = n /\ c.sel = {d} /\ c.conf = SpiConf[d]
  BY <1>1, <1>2 DEF SpiHW
<1>5. SpiOrdered(c)
  BY <1>3, <1>4 DEF SpiOrdered
<1>6. SpiAtFront(c) /\ c.hw # 0
  BY <1>1, <1>4 DEF SpiAtFront, d, n
<1> QED BY <1>4, <1>5, <1>6 DEF c

LEMMA SpiPoll ==
  ASSUME NEW b, SpiWhole(b), SpiBusy(b)
  PROVE  SpiWhole(Spi!poll(b)) /\ SpiBusy(Spi!poll(b))
<1> DEFINE c == [b EXCEPT !.erred = FALSE]
<1>1. b \in SpiHW
  BY DEF SpiWhole, SpiOrdered
<1>2. /\ c \in SpiHW /\ c.q = b.q /\ c.dev = b.dev /\ c.gone = b.gone /\ c.calls = b.calls
      /\ c.moved = b.moved /\ c.ok = b.ok /\ c.xfer = b.xfer /\ c.hw = b.hw /\ c.sel = b.sel
      /\ c.conf = b.conf
  BY <1>1 DEF SpiHW
<1>3. Spi!poll(b) = IF Spi!Free(c) THEN Spi!_startMaster(c) ELSE c
  BY DEF Spi!poll
<1> HIDE DEF c
<1>4. SpiOrdered(c) /\ SpiAtFront(c) /\ SpiQuiet(c) /\ SpiBusy(c)
  BY <1>2 DEF SpiWhole, SpiOrdered, SpiAtFront, SpiQuiet, SpiBusy
<1>5. CASE Spi!Free(c)
  <2>1. ~c.xfer /\ c.q # << >> /\ c.hw = 0 /\ c.sel = {}
    BY <1>4, <1>5 DEF Spi!Free, SpiQuiet
  <2> DEFINE s == Spi!_startMaster(c)
  <2>2. SpiOrdered(s) /\ SpiAtFront(s) /\ s.xfer /\ s.hw # 0
    BY <1>4, <2>1, SpiStart
  <2> HIDE DEF s
  <2>3. SpiWhole(s) /\ SpiBusy(s)
    BY <2>2 DEF SpiWhole, SpiQuiet, SpiBusy
  <2> QED BY <1>3, <1>5, <2>3 DEF s
<1>6. CASE ~Spi!Free(c)
  BY <1>3, <1>4, <1>6 DEF SpiWhole
<1> QED BY <1>5, <1>6

\* A request is pushed: it comes last, and nothing else changes.
LEMMA SpiEnqueued ==
  ASSUME NEW b, SpiOrdered(b), SpiAtFront(b), NEW d \in SpiDevs
  PROVE  LET c == Spi!Enqueued(b, d)
         IN  /\ SpiOrdered(c) /\ SpiAtFront(c)
             /\ c.xfer = b.xfer /\ c.hw = b.hw /\ c.sel = b.sel /\ c.q # << >>
<1> DEFINE m == Len(b.dev)
           n == m + 1
           q == Append(b.q, n)
           v == Append(b.dev, d)
           c == Spi!Enqueued(b, d)
<1>1. /\ b \in SpiHW /\ b.dev \in Seq(SpiDevs) /\ b.q \in Seq(Nat) /\ b.gone \in Seq(Nat)
      /\ b.gone \o b.q = [k \in 1 .. m |-> k]
  BY DEF SpiOrdered, SpiHW
<1>2. c = [b EXCEPT !.q = q, !.dev = v]
  BY DEF Spi!Enqueued
<1>3. v \in Seq(SpiDevs) /\ Len(v) = n /\ m \in Nat
  BY <1>1
<1>4. /\ q \in Seq(Nat) /\ q # << >> /\ b.gone \o q = [k \in 1 .. n |-> k]
      /\ b.q # << >> => Head(q) = Head(b.q)
  <2> HIDE DEF m
  <2>1. b.gone \o b.q = [k \in 1 .. m |-> k]
    BY <1>1
  <2> QED BY <1>1, <1>3, <2>1, NumberedNext, ZenonT(60)
<1>5. b.hw # 0 => b.hw \in 1 .. Len(b.dev) /\ Head(q) = Head(b.q) /\ v[b.hw] = b.dev[b.hw]
  <2>1. SUFFICES ASSUME b.hw # 0
                 PROVE  b.hw \in 1 .. Len(b.dev) /\ Head(q) = Head(b.q) /\ v[b.hw] = b.dev[b.hw]
    OBVIOUS
  <2>2. b.q # << >> /\ b.hw = Head(b.q) /\ b.hw \in 1 .. Len(b.dev)
    BY <2>1, SpiFront DEF SpiAtFront
  <2> QED BY <1>1, <1>4, <2>2
<1> HIDE DEF m, n, q, v, c
<1>6. /\ c \in SpiHW /\ c.q = q /\ c.dev = v /\ c.gone = b.gone /\ c.calls = b.calls
      /\ c.moved = b.moved /\ c.ok = b.ok /\ c.xfer = b.xfer /\ c.hw = b.hw /\ c.sel = b.sel
      /\ c.conf = b.conf
  BY <1>1, <1>2, <1>3, <1>4 DEF SpiHW
<1>7. SpiOrdered(c)
  BY <1>3, <1>4, <1>6 DEF SpiOrdered
<1>8. SpiAtFront(c)
  BY <1>4, <1>5, <1>6 DEF SpiAtFront
<1> QED BY <1>4, <1>6, <1>7, <1>8 DEF c

\* What leaves the queue is gone; the bus is free and selects nobody.
LEMMA SpiDropped ==
  ASSUME NEW b, b \in SpiHW, b.ok, b.q # << >>, b.hw = 0, b.sel = {},
         b.gone \o b.q = [k \in 1 .. Len(b.dev) |-> k],
         b.calls = Append(b.gone, Head(b.q)), b.moved = b.calls
  PROVE  SpiWhole(Spi!Dropped(b)) /\ SpiBusy(Spi!Dropped(b))
<1> DEFINE q == Tail(b.q)
           g == Append(b.gone, Head(b.q))
           c == Spi!Dropped(b)
<1>1. b.q \in Seq(Nat) /\ b.gone \in Seq(Nat)
  BY DEF SpiHW
<1>2. q \in Seq(Nat) /\ g \in Seq(Nat) /\ g \o q = b.gone \o b.q
  BY <1>1, NumberedGone
<1>3. c = [b EXCEPT !.q = q, !.gone = g, !.xfer = FALSE]
  BY DEF Spi!Dropped
<1>4. b.calls = g /\ b.moved = g
  OBVIOUS
<1> HIDE DEF q, g, c
<1>5. /\ c \in SpiHW /\ c.q = q /\ c.dev = b.dev /\ c.gone = g /\ c.calls = b.calls
      /\ c.moved = b.moved /\ c.ok = b.ok /\ ~c.xfer /\ c.hw = 0 /\ c.sel = {}
  BY <1>2, <1>3 DEF SpiHW
<1>6. SpiOrdered(c)
  BY <1>2, <1>4, <1>5 DEF SpiOrdered
<1>7. SpiAtFront(c) /\ SpiQuiet(c) /\ SpiBusy(c)
  BY <1>5 DEF SpiAtFront, SpiQuiet, SpiBusy
<1> QED BY <1>6, <1>7 DEF SpiWhole, c

\* The first request has been called back for and is about to be dropped.
SpiOver(b) ==
  /\ b \in SpiHW /\ b.ok /\ b.q # << >> /\ b.hw = 0 /\ b.sel = {}
  /\ b.gone \o b.q = [k \in 1 .. Len(b.dev) |-> k]
  /\ b.calls = Append(b.gone, Head(b.q)) /\ b.moved = b.calls

\* What its callback pushes finds the bus taken.
LEMMA SpiOverPush ==
  ASSUME NEW b, SpiOver(b), b.xfer, NEW d \in SpiDevs
  PROVE  SpiOver(Spi!poll(Spi!Enqueued(b, d)))
<1> DEFINE m == Len(b.dev)
           q == Append(b.q, m + 1)
           v == Append(b.dev, d)
           p == [Spi!Enqueued(b, d) EXCEPT !.erred = FALSE]
<1>1. /\ b \in SpiHW /\ b.q \in Seq(Nat) /\ b.q # << >> /\ b.gone \in Seq(Nat) /\ b.dev \in Seq(SpiDevs)
      /\ m \in Nat /\ b.gone \o b.q = [k \in 1 .. m |-> k]
  BY DEF SpiHW, SpiOver
<1>2. p = [b EXCEPT !.q = q, !.dev = v, !.erred = FALSE]
  BY DEF Spi!Enqueued
<1>3. v \in Seq(SpiDevs) /\ Len(v) = m + 1
  BY <1>1
<1>4. q \in Seq(Nat) /\ q # << >> /\ b.gone \o q = [k \in 1 .. m + 1 |-> k] /\ Head(q) = Head(b.q)
  <2> HIDE DEF m
  <2> QED BY <1>1, NumberedNext, ZenonT(60)
<1>5. Spi!poll(Spi!Enqueued(b, d)) = IF Spi!Free(p) THEN Spi!_startMaster(p) ELSE p
  BY DEF Spi!poll
<1> HIDE DEF m, q, v, p
<1>6. /\ p \in SpiHW /\ p.q = q /\ p.dev = v /\ p.gone = b.gone /\ p.calls = b.calls
      /\ p.moved = b.moved /\ p.ok = b.ok /\ p.xfer = b.xfer /\ p.hw = b.hw /\ p.sel = b.sel
  BY <1>1, <1>2, <1>3, <1>4 DEF SpiHW
<1>7. ~Spi!Free(p)
  BY <1>6 DEF Spi!Free
<1>8. SpiOver(p)
  BY <1>3, <1>4, <1>6 DEF SpiOver
<1> QED BY <1>5, <1>7, <1>8

\* A transfer is over: its request is called back for and leaves the queue, and
\* the next is started.
LEMMA SpiComplete ==
  ASSUME NEW b, SpiOrdered(b), SpiAtFront(b), b.hw # 0, sEnv.chain => b.xfer,
         NEW c \in Spi!_complete([b EXCEPT !.hw = Spi!Nothing, !.moved = Append(@, b.hw)])
  PROVE  SpiWhole(c) /\ SpiBusy(c)
<1> DEFINE n == Head(b.q)
           g == Append(b.gone, n)
           o == [b EXCEPT !.hw = Spi!Nothing, !.moved = Append(@, b.hw)]
           f == [o EXCEPT !.sel = @ \ {Spi!Front(o)}, !.calls = Append(@, Head(o.q))]
<1>1. /\ b \in SpiHW /\ b.q # << >> /\ b.hw = n /\ b.sel = {b.dev[n]} /\ b.ok
      /\ b.gone \o b.q = [k \in 1 .. Len(b.dev) |-> k] /\ b.calls = b.gone /\ b.moved = b.gone
  BY DEF SpiOrdered, SpiAtFront
<1>2. n \in Nat /\ g \in Seq(Nat) /\ b.q \in Seq(Nat) /\ b.gone \in Seq(Nat) /\ b.dev \in Seq(SpiDevs)
  <2>1. b.q \in Seq(Nat) /\ b.gone \in Seq(Nat) /\ b.dev \in Seq(SpiDevs)
    BY <1>1 DEF SpiHW
  <2> QED BY <1>1, <2>1, NumberedGone
<1>3. o = [b EXCEPT !.hw = 0, !.moved = g]
  BY <1>1 DEF Spi!Nothing
<1>4. f = [b EXCEPT !.hw = 0, !.moved = g, !.sel = {}, !.calls = g]
  <2>1. o.q = b.q /\ o.dev = b.dev /\ o.sel = b.sel /\ o.calls = b.gone
    BY <1>1, <1>3 DEF SpiHW
  <2>2. Spi!Front(o) = b.dev[n]
    BY <2>1 DEF Spi!Front
  <2>3. f = [o EXCEPT !.sel = {}, !.calls = g]
    BY <1>1, <2>1, <2>2
  <2> QED BY <1>3, <2>3
<1>5. PICK s \in Spi!Callback(f) : c = Spi!poll(Spi!Dropped(s))
  <2>1. o.q # << >>
    BY <1>1, <1>3 DEF SpiHW
  <2> QED BY <2>1 DEF Spi!_complete
<1> HIDE DEF f, o, g, n
<1>6. SpiOver(f) /\ f.xfer = b.xfer
  <2>1. /\ f \in SpiHW /\ f.q = b.q /\ f.hw = 0 /\ f.sel = {} /\ f.ok /\ f.gone = b.gone
        /\ f.calls = g /\ f.moved = g /\ f.dev = b.dev /\ f.xfer = b.xfer
    BY <1>1, <1>2, <1>4 DEF SpiHW
  <2> QED BY <1>1, <2>1 DEF SpiOver, g, n
<1>8. SpiOver(s)
  <2>1. CASE s = f
    BY <1>6, <2>1
  <2>2. CASE s # f
    <3>1. sEnv.chain /\ s \in {Spi!poll(Spi!Enqueued(f, d)) : d \in SpiDevs}
      BY <1>5, <2>2 DEF Spi!Callback, Spi!Dev, SpiDevs
    <3>2. PICK d \in SpiDevs : s = Spi!poll(Spi!Enqueued(f, d))
      BY <3>1
    <3> QED BY <1>6, <3>1, <3>2, SpiOverPush
  <2> QED BY <2>1, <2>2
<1>9. SpiWhole(Spi!Dropped(s)) /\ SpiBusy(Spi!Dropped(s))
  BY <1>8, SpiDropped DEF SpiOver
<1> QED BY <1>5, <1>9, SpiPoll

LEMMA SpiInit == Spi!Init => SpiInv
<1> SUFFICES ASSUME Spi!Init
             PROVE  SpiInv
  OBVIOUS
<1>1. /\ sBus \in SpiHW /\ sBus.ok /\ sBus.gone = << >> /\ sBus.q = << >> /\ sBus.dev = << >>
      /\ sBus.calls = << >> /\ sBus.moved = << >> /\ sBus.hw = 0 /\ sBus.sel = {} /\ ~sBus.xfer
  BY DEF Spi!Init, Spi!Nothing, SpiHW
<1>2. << >> \o << >> = [k \in 1 .. Len(<< >>) |-> k]
  OBVIOUS
<1>3. SpiOrdered(sBus)
  BY <1>1, <1>2 DEF SpiOrdered
<1>4. SpiAtFront(sBus) /\ SpiQuiet(sBus) /\ SpiBusy(sBus)
  BY <1>1 DEF SpiAtFront, SpiQuiet, SpiBusy
<1>5. sEnv \in SpiEnvs /\ sPc = "out"
  BY DEF Spi!Init
<1> QED BY <1>3, <1>4, <1>5 DEF SpiInv

\* A change of what nobody looks at here.
LEMMA SpiErred ==
  ASSUME NEW b, SpiOrdered(b), NEW x \in BOOLEAN
  PROVE  LET c == [b EXCEPT !.erred = x]
         IN  /\ SpiOrdered(c) /\ c.q = b.q /\ c.dev = b.dev /\ c.xfer = b.xfer /\ c.hw = b.hw
             /\ c.sel = b.sel /\ c.conf = b.conf
<1> DEFINE c == [b EXCEPT !.erred = x]
<1>1. b \in SpiHW
  BY DEF SpiOrdered
<1>2. /\ c \in SpiHW /\ c.q = b.q /\ c.dev = b.dev /\ c.gone = b.gone /\ c.calls = b.calls
      /\ c.moved = b.moved /\ c.ok = b.ok /\ c.xfer = b.xfer /\ c.hw = b.hw /\ c.sel = b.sel
      /\ c.conf = b.conf
  BY <1>1 DEF SpiHW
<1> HIDE DEF c
<1>3. SpiOrdered(c)
  BY <1>2 DEF SpiOrdered
<1> QED BY <1>2, <1>3 DEF c

\* A transfer fails: its request stays at the front.
LEMMA SpiError ==
  ASSUME NEW b, SpiOrdered(b), SpiAtFront(b), b.hw # 0
  PROVE  LET c == [Spi!_error([b EXCEPT !.hw = Spi!Nothing]) EXCEPT !.erred = TRUE]
         IN  /\ SpiOrdered(c) /\ c.hw = 0 /\ ~c.xfer
             /\ b.xfer => c.sel = {}
<1> DEFINE o == [b EXCEPT !.hw = Spi!Nothing]
           e == IF b.xfer THEN [o EXCEPT !.sel = {}, !.xfer = FALSE] ELSE o
           c == [e EXCEPT !.erred = TRUE]
<1>1. b \in SpiHW /\ b.q # << >> /\ b.sel = {b.dev[Head(b.q)]}
  BY DEF SpiOrdered, SpiAtFront
<1>2. /\ o \in SpiHW /\ o.q = b.q /\ o.dev = b.dev /\ o.gone = b.gone /\ o.calls = b.calls
      /\ o.moved = b.moved /\ o.ok = b.ok /\ o.xfer = b.xfer /\ o.hw = 0 /\ o.sel = b.sel
  BY <1>1 DEF SpiHW, Spi!Nothing
<1>3. Spi!_error(o) = e
  <2>1. CASE b.xfer
    <3>1. Spi!_error(o) = [o EXCEPT !.sel = @ \ {Spi!Front(o)}, !.xfer = FALSE, !.hw = Spi!Nothing]
      BY <1>1, <1>2, <2>1 DEF Spi!_error
    <3>2. o.sel \ {Spi!Front(o)} = {}
      BY <1>1, <1>2 DEF Spi!Front
    <3>3. [o EXCEPT !.sel = {}, !.xfer = FALSE, !.hw = Spi!Nothing] = [o EXCEPT !.sel = {}, !.xfer = FALSE]
      BY <1>2 DEF SpiHW, Spi!Nothing
    <3> QED BY <2>1, <3>1, <3>2, <3>3
  <2>2. CASE ~b.xfer
    BY <1>1, <1>2, <2>2 DEF Spi!_error
  <2> QED BY <2>1, <2>2
<1> HIDE DEF o
<1>4. /\ e \in SpiHW /\ e.q = b.q /\ e.dev = b.dev /\ e.gone = b.gone /\ e.calls = b.calls
      /\ e.moved = b.moved /\ e.ok = b.ok /\ ~e.xfer /\ e.hw = 0 /\ (b.xfer => e.sel = {})
  BY <1>2 DEF SpiHW
<1> HIDE DEF e
<1>5. SpiOrdered(e)
  BY <1>4 DEF SpiOrdered
<1>6. SpiOrdered(c) /\ c.hw = 0 /\ ~c.xfer /\ (b.xfer => c.sel = {})
  BY <1>4, <1>5, SpiErred
<1> QED BY <1>3, <1>6 DEF o

LEMMA SpiNext ==
  ASSUME SpiInv, ~(sEnv.chain /\ sEnv.preempt), [Spi!Next]_(Spi!vars)
  PROVE  SpiInv'
<1>a. /\ sEnv \in SpiEnvs /\ sPc \in {"out", "poll", "select", "transfer", "mark"}
      /\ SpiOrdered(sBus) /\ SpiAtFront(sBus)
      /\ sPc \in {"out", "poll"} => SpiQuiet(sBus) /\ SpiBusy(sBus)
      /\ sPc = "select" => SpiQuiet(sBus) /\ ~sBus.xfer /\ sBus.q # << >>
      /\ sPc = "transfer" => /\ ~sBus.xfer /\ sBus.hw = 0 /\ sBus.q # << >>
                             /\ sBus.sel = {sBus.dev[Head(sBus.q)]}
                             /\ sBus.conf = SpiConf[sBus.dev[Head(sBus.q)]]
      /\ sPc = "mark" /\ ~sEnv.preempt => sBus.hw # 0
  BY DEF SpiInv
<1>b. sBus \in SpiHW
  BY <1>a DEF SpiOrdered
<1>c. sEnv' = sEnv
  BY DEF Spi!Next, Spi!vars, Spi!TransferDone, Spi!BusError, Spi!Push, Spi!Main, Spi!Poll, Spi!Select,
         Spi!Transfer, Spi!Mark, Spi!Step
\* What has to be shown of a step.
<1>d. ASSUME SpiOrdered(sBus'), SpiAtFront(sBus'),
             sPc' \in {"out", "poll", "select", "transfer", "mark"},
             sPc' \in {"out", "poll"} => SpiQuiet(sBus') /\ SpiBusy(sBus'),
             sPc' = "select" => SpiQuiet(sBus') /\ ~sBus'.xfer /\ sBus'.q # << >>,
             sPc' = "transfer" => /\ ~sBus'.xfer /\ sBus'.hw = 0 /\ sBus'.q # << >>
                                  /\ sBus'.sel = {sBus'.dev[Head(sBus'.q)]}
                                  /\ sBus'.conf = SpiConf[sBus'.dev[Head(sBus'.q)]],
             sPc' = "mark" /\ ~sEnv.preempt => sBus'.hw # 0
      PROVE  SpiInv'
  BY <1>a, <1>c, <1>d DEF SpiInv, SpiOrdered, SpiAtFront, SpiQuiet, SpiBusy
\* Where a transfer ends.
<1>e. ASSUME Spi!Interruptible, sBus.hw # 0
      PROVE  /\ sPc \in {"out", "poll", "mark"}
             /\ sPc # "out" => sEnv.preempt
             /\ sPc # "mark" => sBus.xfer
             /\ sEnv.chain => sBus.xfer
  BY <1>a, <1>e DEF Spi!Interruptible, SpiQuiet
<1>1. CASE Spi!TransferDone
  <2>1. /\ Spi!Interruptible /\ sBus.hw # 0 /\ sPc' = sPc
        /\ sBus' \in Spi!_complete([sBus EXCEPT !.hw = Spi!Nothing, !.moved = Append(@, sBus.hw)])
    BY <1>1 DEF Spi!TransferDone, Spi!Nothing
  <2>2. SpiWhole(sBus') /\ SpiBusy(sBus')
    BY <1>a, <1>e, <2>1, SpiComplete
  <2> QED BY <1>d, <1>e, <2>1, <2>2 DEF SpiWhole
<1>2. CASE Spi!BusError
  <2>1. /\ Spi!Interruptible /\ sBus.hw # 0 /\ sPc' = sPc
        /\ sBus' = [Spi!_error([sBus EXCEPT !.hw = Spi!Nothing]) EXCEPT !.erred = TRUE]
    BY <1>2 DEF Spi!BusError, Spi!Nothing
  <2>2. SpiOrdered(sBus') /\ sBus'.hw = 0 /\ ~sBus'.xfer /\ (sBus.xfer => sBus'.sel = {})
    BY <1>a, <2>1, SpiError
  <2> QED BY <1>d, <1>e, <2>1, <2>2 DEF SpiAtFront, SpiQuiet, SpiBusy
<1>3. CASE Spi!Push
  <2>1. sPc = "out" /\ sPc' = "poll"
    BY <1>3 DEF Spi!Push, Spi!Step
  <2>2. PICK d \in SpiDevs : sBus' = Spi!Enqueued(sBus, d)
    BY <1>3 DEF Spi!Push, Spi!Dev, SpiDevs
  <2>3. /\ SpiOrdered(sBus') /\ SpiAtFront(sBus')
        /\ sBus'.xfer = sBus.xfer /\ sBus'.hw = sBus.hw /\ sBus'.sel = sBus.sel
    BY <1>a, <2>2, SpiEnqueued
  <2> QED BY <1>a, <1>d, <2>1, <2>3 DEF SpiQuiet, SpiBusy
<1>4. CASE Spi!Poll
  <2>1. sPc = "poll" /\ sPc' = (IF Spi!Free(sBus) THEN "select" ELSE "out")
        /\ sBus' = [sBus EXCEPT !.erred = FALSE]
    BY <1>4 DEF Spi!Poll, Spi!Step
  <2>2. /\ SpiOrdered(sBus') /\ sBus'.q = sBus.q /\ sBus'.dev = sBus.dev /\ sBus'.xfer = sBus.xfer
        /\ sBus'.hw = sBus.hw /\ sBus'.sel = sBus.sel /\ sBus'.conf = sBus.conf
    BY <1>a, <2>1, SpiErred
  <2>3. SpiAtFront(sBus') /\ SpiQuiet(sBus') /\ SpiBusy(sBus')
    BY <1>a, <2>1, <2>2 DEF SpiAtFront, SpiQuiet, SpiBusy
  <2> QED BY <1>d, <2>1, <2>2, <2>3 DEF Spi!Free
<1>5. CASE Spi!Select
  <2> DEFINE d == sBus.dev[Head(sBus.q)]
             c == [sBus EXCEPT !.conf = SpiConf[d], !.sel = {d}]
  <2>1. sPc = "select" /\ sPc' = "transfer" /\ sBus' = Spi!Selected(sBus)
    BY <1>5 DEF Spi!Select, Spi!Step
  <2>2. ~sBus.xfer /\ sBus.hw = 0 /\ sBus.sel = {} /\ sBus.q # << >> /\ d \in SpiDevs
    BY <1>a, <2>1, SpiFront DEF SpiQuiet
  <2>3. sBus' = c
    BY <2>1, <2>2 DEF Spi!Selected, Spi!Front
  <2> HIDE DEF d
  <2>4. /\ c \in SpiHW /\ c.q = sBus.q /\ c.dev = sBus.dev /\ c.gone = sBus.gone
        /\ c.calls = sBus.calls /\ c.moved = sBus.moved /\ c.ok = sBus.ok /\ c.xfer = sBus.xfer
        /\ c.hw = sBus.hw /\ c.sel = {d} /\ c.conf = SpiConf[d]
    BY <1>b, <2>2 DEF SpiHW
  <2> HIDE DEF c
  <2>5. SpiOrdered(c) /\ SpiAtFront(c)
    BY <1>a, <2>2, <2>4 DEF SpiOrdered, SpiAtFront
  <2> QED BY <1>d, <2>1, <2>2, <2>3, <2>4, <2>5 DEF d
<1>6. CASE Spi!Transfer
  <2> DEFINE n == Head(sBus.q)
             c == [sBus EXCEPT !.hw = n]
  <2>1. sPc = "transfer" /\ sPc' = "mark" /\ sBus' = Spi!HalStart(sBus)
    BY <1>6 DEF Spi!Transfer, Spi!Step
  <2>2. /\ sBus.hw = 0 /\ sBus.q # << >> /\ sBus.sel = {sBus.dev[n]}
        /\ sBus.conf = SpiConf[sBus.dev[n]] /\ n \in Nat /\ n # 0
    <3>1. n \in 1 .. Len(sBus.dev)
      BY <1>a, <2>1, SpiFront
    <3> QED BY <1>a, <2>1, <3>1, SpiFront
  <2>3. sBus' = c
    BY <2>1, <2>2 DEF Spi!HalStart, Spi!Nothing
  <2> HIDE DEF n
  <2>4. /\ c \in SpiHW /\ c.q = sBus.q /\ c.dev = sBus.dev /\ c.gone = sBus.gone
        /\ c.calls = sBus.calls /\ c.moved = sBus.moved /\ c.ok = sBus.ok
        /\ c.hw = n /\ c.sel = sBus.sel /\ c.conf = sBus.conf
    BY <1>b, <2>2 DEF SpiHW
  <2> HIDE DEF c
  <2>5. SpiOrdered(c) /\ SpiAtFront(c)
    BY <1>a, <2>2, <2>4 DEF SpiOrdered, SpiAtFront, n
  <2> QED BY <1>d, <2>1, <2>2, <2>3, <2>4, <2>5
<1>7. CASE Spi!Mark
  <2> DEFINE c == [sBus EXCEPT !.xfer = TRUE]
  <2>1. sPc = "mark" /\ sPc' = "out" /\ sBus' = c
    BY <1>7 DEF Spi!Mark, Spi!Marked, Spi!Step
  <2>2. /\ c \in SpiHW /\ c.q = sBus.q /\ c.dev = sBus.dev /\ c.gone = sBus.gone
        /\ c.calls = sBus.calls /\ c.moved = sBus.moved /\ c.ok = sBus.ok /\ c.xfer
        /\ c.hw = sBus.hw /\ c.sel = sBus.sel /\ c.conf = sBus.conf
    BY <1>b DEF SpiHW
  <2> HIDE DEF c
  <2>3. SpiOrdered(c) /\ SpiAtFront(c) /\ SpiQuiet(c) /\ SpiBusy(c)
    BY <1>a, <2>1, <2>2 DEF SpiOrdered, SpiAtFront, SpiQuiet, SpiBusy
  <2> QED BY <1>d, <2>1, <2>3
<1>8. CASE UNCHANGED Spi!vars
  BY <1>a, <1>8 DEF Spi!vars, SpiInv, SpiOrdered, SpiAtFront, SpiQuiet, SpiBusy
<1> QED BY <1>1, <1>2, <1>3, <1>4, <1>5, <1>6, <1>7, <1>8 DEF Spi!Next, Spi!Main

\* SPI requests are transferred, called back for and removed in order and once,
\* an error loses none of them, no assert fails, and chip and mode are those of
\* the request under way (spi.cpp:42-105).  Not so if a callback pushes while an
\* interrupt is inside of push, before active.xfer is set.
THEOREM SpiAlwaysServed ==
  ASSUME \A e \in SpiEnvs : ~(e.chain /\ e.preempt)
  PROVE  Spi!Spec => []SpiServed
<1>1. SpiInv /\ [Spi!Next]_(Spi!vars) => SpiInv'
  BY SpiNext DEF SpiInv
<1>2. ASSUME SpiInv
      PROVE  SpiServed
  <2>1. /\ SpiOrdered(sBus) /\ SpiAtFront(sBus)
        /\ sPc = "out" => SpiQuiet(sBus) /\ SpiBusy(sBus)
    BY <1>2 DEF SpiInv
  <2>2. Spi!Served
    BY <2>1 DEF Spi!Served, SpiOrdered
  <2>3. Spi!OneChip
    BY <2>1 DEF Spi!OneChip, Spi!Nothing, SpiAtFront, SpiQuiet, SpiBusy
  <2> QED BY <2>2, <2>3 DEF SpiServed
<1> QED BY <1>1, <1>2, SpiInit, PTL DEF Spi!Spec

(***************************************************************************)
(* UART                                                                    *)
(***************************************************************************)

UartTX == [q : Seq(Nat), active : BOOLEAN, deadline : Nat, hw : Nat, left : Nat, hung : BOOLEAN,
           b : Nat, ok : BOOLEAN, lens : Seq(Lens), gone : Seq(Nat), out : Seq(Nat), spare : Nat]

\* Buffers are numbered, and those that are gone were transmitted.
UartOrdered(t) ==
  /\ t \in UartTX /\ t.ok /\ Len(t.q) <= UartQSize
  /\ t.b = 0 \/ t.b \in 1 .. Len(t.lens)
  /\ t.gone \o t.q = [k \in 1 .. Len(t.lens) |-> k]
  /\ t.out = t.gone

\* The hardware transmits the front, if anything.
UartAtFront(t) ==
  /\ t.active => t.q # << >>
  /\ t.hw # 0 => t.active /\ t.hw = Head(t.q)

\* It is at work if the driver thinks so.
UartWorks(t) == t.active => t.hw # 0

\* What it will have transmitted before the millisecond is over that the
\* deadline falls into.
UartInTime(t, n) == t.hw # 0 /\ ~t.hung /\ t.deadline # 0 => n + t.left < (t.deadline + 1) * Ms

UartRX == [q : Seq(SUBSET Nat), buf : SUBSET Nat, on : BOOLEAN, ok : BOOLEAN, came : Nat,
           read : Seq(SUBSET Nat), excused : SUBSET Nat]

\* The buffers g that were handed over hold what came in order and without
\* gaps; b, which is collected now, holds what came last.
UartHeard(g, b, came) ==
  /\ g \in Seq(SUBSET Nat) /\ came \in Nat /\ b \subseteq 1 .. came
  /\ \A i \in DOMAIN g : g[i] \subseteq 1 .. came
  /\ \A i, j \in DOMAIN g : i < j => \A m \in g[i], n \in g[j] : m < n
  /\ \A i \in DOMAIN g : \A m, n \in g[i] : m .. n \subseteq g[i]
  /\ \A m \in b : m .. came \subseteq b
  /\ \A i \in DOMAIN g : \A m \in g[i], n \in b : m < n

\* All that came is there but for the bytes of x.
UartAllOf(g, b, came, x) ==
  \A n \in 1 .. came : n \in b \/ n \in x \/ \E i \in DOMAIN g : n \in g[i]

UartListens(r) ==
  /\ r \in UartRX /\ r.ok /\ Len(r.q) <= UartQSize /\ (~r.on => r.buf = {})
  /\ UartHeard(r.read \o r.q, r.buf, r.came)

UartCovers(r) == UartAllOf(r.read \o r.q, r.buf, r.came, r.excused)

\* It is push alone that stops the receiver.
UartHearing(r, at) ==
  /\ UartListens(r)
  /\ at # "listen" => r.on
  /\ at = "listen" => ~r.on

UartPcs == {"out", "poll", "error", "listen", "free", "begin", "start", "deadline"}

UartSound(t, at) ==
  /\ UartOrdered(t) /\ UartAtFront(t)
  /\ at \notin {"listen", "begin", "start"} => UartWorks(t)
  /\ at \in {"listen", "begin", "start"} => t.hw = 0
  /\ at = "start" => t.active /\ t.b = Head(t.q)
  /\ at = "deadline" => t.b # 0

\* Without interrupts inside of push.
UartTimely(t, at, n) ==
  /\ t.spare < Ms
  /\ at \in {"out", "poll", "free"} => UartInTime(t, n)
  /\ at = "error" => t.hung \/ t.left < Ms
  /\ at = "deadline" => t.hw = t.b /\ t.left = t.lens[t.b] * ByteTime

UartInv ==
  /\ uEnv \in UartEnvs /\ uNow \in Nat /\ uPc \in UartPcs
  /\ ~Uart!Exposed => UartSound(uTx, uPc) /\ UartHearing(uRx, uPc)
  /\ ~uEnv.preempt => UartTimely(uTx, uPc, uNow) /\ UartCovers(uRx)

\* The deadline, made of whole milliseconds, falls less than one before the end.
LEMMA UartDeadline ==
  ASSUME NEW n \in Nat, NEW d \in Nat, NEW ms \in Nat \ {0}
  PROVE  /\ n \div ms \in Nat /\ d \div ms \in Nat
         /\ n + d < ((n \div ms) + ((d \div ms) + 1) + 1) * ms
<1> DEFINE a == n \div ms
           r == n % ms
           b == d \div ms
           s == d % ms
<1>1. a \in Nat /\ r \in 0 .. ms - 1 /\ n = ms * a + r
  BY DivMod
<1>2. b \in Nat /\ s \in 0 .. ms - 1 /\ d = ms * b + s
  BY DivMod
<1> HIDE DEF a, b, r, s
<1>3. (a + (b + 1) + 1) * ms = ms * a + ms * b + ms + ms
  BY <1>1, <1>2
<1>4. ms * a \in Int /\ ms * b \in Int
  BY <1>1, <1>2
<1>5. n + d < (a + (b + 1) + 1) * ms
  BY <1>1, <1>2, <1>3, <1>4
<1> QED BY <1>1, <1>2, <1>5 DEF a, b

\* A time that has come is a number of whole milliseconds.
LEMMA UartElapsed ==
  ASSUME NEW n \in Nat, NEW d \in Nat, NEW ms \in Nat \ {0}, NEW l \in Nat,
         ~(n \div ms < d), n + l < (d + 1) * ms
  PROVE  l < ms
<1> DEFINE a == n \div ms
           r == n % ms
<1>1. a \in Nat /\ r \in 0 .. ms - 1 /\ n = ms * a + r
  BY DivMod
<1>2. d <= a
  BY <1>1
<1> HIDE DEF a, r
<1>3. d * ms <= a * ms
  BY <1>1, <1>2
<1>4. (d + 1) * ms = d * ms + ms /\ a * ms = ms * a /\ d * ms \in Int /\ a * ms \in Int
  BY <1>1
<1> QED BY <1>1, <1>3, <1>4

\* A transmission that starts, starts with the front and gets a deadline.
LEMMA UartStart ==
  ASSUME NEW t, UartOrdered(t), t.active => t.q # << >>, t.hw = 0, uNow \in Nat,
         NEW c \in Uart!startTransmit(t)
  PROVE  UartOrdered(c) /\ UartAtFront(c) /\ UartWorks(c) /\ UartInTime(c, uNow) /\ c.spare = t.spare
<1>1. CASE t.q = << >>
  <2>1. c = t
    BY <1>1 DEF Uart!startTransmit
  <2> QED BY <1>1, <2>1 DEF UartAtFront, UartWorks, UartInTime
<1>2. CASE t.q # << >>
  <2>1. PICK h \in Uart!Hangs : c = Uart!Timed(Uart!HalStart(Uart!Marked(t), h))
    BY <1>2 DEF Uart!startTransmit
  <2>2. h \in BOOLEAN
    BY DEF Uart!Hangs
  <2> DEFINE n == Head(t.q)
             d == t.lens[n] * ByteTime
             w == Uart!uwTick + (d \div Ms + 1)
             m == Uart!Marked(t)
             s == Uart!HalStart(m, h)
  <2>3. /\ t \in UartTX /\ t.q \in Seq(Nat) /\ t.gone \in Seq(Nat) /\ t.lens \in Seq(Lens)
        /\ Len(t.lens) \in Nat /\ t.gone \o t.q = [k \in 1 .. Len(t.lens) |-> k]
    BY DEF UartOrdered, UartTX
  <2>4. n \in 1 .. Len(t.lens) /\ n # 0 /\ n \in Nat
    <3> DEFINE l == Len(t.lens)
    <3>1. t.q \in Seq(Nat) /\ t.gone \in Seq(Nat) /\ l \in Nat /\ t.gone \o t.q = [k \in 1 .. l |-> k]
      BY <2>3
    <3> HIDE DEF l
    <3>2. n \in 1 .. l /\ n # 0
      BY <1>2, <3>1, NumberedFirst
    <3> QED BY <3>2 DEF l
  <2>5. d \in Nat
    <3> DEFINE x == t.lens[n]
    <3>1. x \in Lens
      BY <2>3, <2>4
    <3>2. x \in Nat /\ ByteTime \in Nat
      BY <3>1, BusesAssumption
    <3> HIDE DEF x
    <3>3. x * ByteTime \in Nat
      BY <3>2
    <3> QED BY <3>3 DEF x
  <2>6. w \in Nat /\ uNow + d < (w + 1) * Ms
    <3> HIDE DEF d
    <3> DEFINE a == uNow \div Ms
               e == d \div Ms
    <3>1. Ms \in Nat \ {0}
      BY BusesAssumption
    <3>2. a \in Nat /\ e \in Nat /\ uNow + d < (a + (e + 1) + 1) * Ms
      BY <2>5, <3>1, UartDeadline
    <3>3. w = a + (e + 1)
      BY DEF Uart!uwTick
    <3> HIDE DEF a, e, w
    <3> QED BY <3>2, <3>3
  <2>7. m = [t EXCEPT !.active = TRUE, !.b = n]
    BY DEF Uart!Marked
  <2>8. m.hw = 0 /\ m.b = n /\ m.lens = t.lens
    BY <2>3, <2>7 DEF UartTX
  <2>9. s = [m EXCEPT !.hw = n, !.left = d, !.hung = h]
    BY <2>8 DEF Uart!HalStart, Uart!Duration, Uart!Nothing
  <2>10. c = [s EXCEPT !.deadline = w]
    <3>1. s.b = n /\ s.lens = t.lens
      BY <2>3, <2>7, <2>9 DEF UartTX
    <3> QED BY <2>1, <3>1 DEF Uart!Timed, Uart!Need, Uart!Duration
  <2> HIDE DEF n, d, w, m, s
  <2>11. /\ c \in UartTX /\ c.q = t.q /\ c.active /\ c.b = n /\ c.hw = n /\ c.left = d
         /\ c.deadline = w /\ c.lens = t.lens /\ c.gone = t.gone /\ c.out = t.out /\ c.ok = t.ok
         /\ c.spare = t.spare
    BY <2>2, <2>3, <2>4, <2>5, <2>6, <2>7, <2>9, <2>10 DEF UartTX
  <2>12. UartOrdered(c)
    BY <2>4, <2>11 DEF UartOrdered
  <2>13. UartAtFront(c) /\ UartWorks(c)
    BY <1>2, <2>4, <2>11 DEF UartAtFront, UartWorks, n
  <2>14. UartInTime(c, uNow)
    BY <2>6, <2>11 DEF UartInTime
  <2> QED BY <2>11, <2>12, <2>13, <2>14
<1> QED BY <1>1, <1>2

\* b refers to a buffer from the first transmission on.
LEMMA UartRefers ==
  ASSUME NEW t, UartOrdered(t), t.b # 0, NEW c \in Uart!startTransmit(t)
  PROVE  c.b # 0
<1>1. CASE t.q = << >>
  BY <1>1 DEF Uart!startTransmit
<1>2. CASE t.q # << >>
  <2>1. PICK h \in Uart!Hangs : c = Uart!Timed(Uart!HalStart(Uart!Marked(t), h))
    BY <1>2 DEF Uart!startTransmit
  <2> DEFINE n == Head(t.q)
             m == Uart!Marked(t)
             s == Uart!HalStart(m, h)
  <2>2. n # 0
    <3> DEFINE l == Len(t.lens)
    <3>1. t.q \in Seq(Nat) /\ t.gone \in Seq(Nat) /\ l \in Nat /\ t.gone \o t.q = [k \in 1 .. l |-> k]
      BY DEF UartOrdered, UartTX
    <3> HIDE DEF l
    <3> QED BY <1>2, <3>1, NumberedFirst
  <2>3. t \in UartTX
    BY DEF UartOrdered
  <2>4. m.b = n
    BY <2>3 DEF Uart!Marked, UartTX
  <2>5. s.b = m.b
    BY <2>3 DEF Uart!HalStart, Uart!Marked, UartTX
  <2>6. c.b = s.b
    BY <2>1, <2>3 DEF Uart!Timed, Uart!HalStart, Uart!Marked, UartTX
  <2> QED BY <2>2, <2>4, <2>5, <2>6
<1> QED BY <1>1, <1>2

\* An abort leaves the driver as it was, without a transmission.
LEMMA UartAborted ==
  ASSUME NEW t, UartOrdered(t), UartAtFront(t)
  PROVE  LET c == Uart!Aborted(t)
         IN  /\ UartOrdered(c) /\ UartAtFront(c) /\ c.hw = 0 /\ c.spare = t.spare
             /\ c.active = t.active /\ c.q = t.q
<1> DEFINE c == Uart!Aborted(t)
<1>1. t \in UartTX
  BY DEF UartOrdered
<1>2. c = [t EXCEPT !.hw = 0, !.left = 0, !.hung = FALSE]
  BY DEF Uart!Aborted, Uart!Nothing
<1> HIDE DEF c
<1>3. /\ c \in UartTX /\ c.q = t.q /\ c.active = t.active /\ c.b = t.b /\ c.hw = 0
      /\ c.lens = t.lens /\ c.gone = t.gone /\ c.out = t.out /\ c.ok = t.ok /\ c.spare = t.spare
  BY <1>1, <1>2 DEF UartTX
<1>4. UartOrdered(c) /\ UartAtFront(c)
  BY <1>3 DEF UartOrdered, UartAtFront
<1> QED BY <1>3, <1>4 DEF c

LEMMA UartRestart ==
  ASSUME NEW t, UartOrdered(t), UartAtFront(t), uNow \in Nat, NEW c \in Uart!_errcallback(t)
  PROVE  UartOrdered(c) /\ UartAtFront(c) /\ UartWorks(c) /\ UartInTime(c, uNow) /\ c.spare = t.spare
<1> DEFINE a == Uart!Aborted(t)
<1>1. c \in Uart!startTransmit(a)
  BY DEF Uart!_errcallback
<1>2. UartOrdered(a) /\ UartAtFront(a) /\ a.hw = 0 /\ a.spare = t.spare
  BY UartAborted
<1> HIDE DEF a
<1>3. a.active => a.q # << >>
  BY <1>2 DEF UartAtFront
<1>4. UartOrdered(c) /\ UartAtFront(c) /\ UartWorks(c) /\ UartInTime(c, uNow) /\ c.spare = a.spare
  BY <1>1, <1>2, <1>3, UartStart
<1> QED BY <1>2, <1>4

\* The front is out and leaves the queue; the next is started.
LEMMA UartComplete ==
  ASSUME NEW t, UartOrdered(t), UartAtFront(t), t.hw # 0, uNow \in Nat,
         NEW c \in Uart!_txcallback([t EXCEPT !.hw = Uart!Nothing, !.out = Append(@, t.hw)])
  PROVE  /\ UartOrdered(c) /\ UartAtFront(c) /\ UartWorks(c) /\ UartInTime(c, uNow)
         /\ c.spare = t.spare /\ (t.b # 0 => c.b # 0)
<1> DEFINE g == Append(t.gone, Head(t.q))
           q == Tail(t.q)
           o == [t EXCEPT !.hw = Uart!Nothing, !.out = Append(@, t.hw)]
           d == [o EXCEPT !.q = Tail(@), !.gone = Append(@, Head(o.q)),
                          !.active = FALSE, !.deadline = 0]
           e == [t EXCEPT !.hw = 0, !.out = g, !.q = q, !.gone = g, !.active = FALSE, !.deadline = 0]
<1>1. /\ t \in UartTX /\ t.q # << >> /\ t.hw = Head(t.q) /\ t.out = t.gone
      /\ t.q \in Seq(Nat) /\ t.gone \in Seq(Nat)
  BY DEF UartOrdered, UartAtFront, UartTX
<1>2. q \in Seq(Nat) /\ g \in Seq(Nat) /\ g \o q = t.gone \o t.q
  BY <1>1, NumberedGone
<1>3. Len(q) <= UartQSize
  <2>1. Len(t.q) <= UartQSize /\ Len(q) = Len(t.q) - 1 /\ Len(t.q) \in Nat /\ UartQSize \in Nat
    BY <1>1, HeadTailProperties, BusesAssumption DEF UartOrdered
  <2> QED BY <2>1
<1>4. o = [t EXCEPT !.hw = 0, !.out = g]
  BY <1>1 DEF Uart!Nothing
<1>5. o.q = t.q /\ o.gone = t.gone
  BY <1>1, <1>4 DEF UartTX
<1>6. d = e
  BY <1>4, <1>5
<1>7. c \in Uart!startTransmit(d)
  BY <1>1, <1>5 DEF Uart!_txcallback
<1> HIDE DEF d, o, q, g
<1>8. /\ e \in UartTX /\ e.q = q /\ ~e.active /\ e.b = t.b /\ e.hw = 0
      /\ e.lens = t.lens /\ e.gone = g /\ e.out = g /\ e.ok = t.ok /\ e.spare = t.spare
  BY <1>1, <1>2 DEF UartTX
<1> HIDE DEF e
<1>9. UartOrdered(e)
  BY <1>2, <1>3, <1>8 DEF UartOrdered
<1>10. c \in Uart!startTransmit(e)
  BY <1>6, <1>7
<1> QED BY <1>8, <1>9, <1>10, UartStart, UartRefers

LEMMA UartInit == Uart!Init => UartInv
<1> SUFFICES ASSUME Uart!Init
             PROVE  UartInv
  OBVIOUS
<1>1. uEnv \in UartEnvs /\ uNow \in Nat /\ uPc = "out"
  BY BusesAssumption DEF Uart!Init
<1>2. /\ uTx \in UartTX /\ uTx.ok /\ uTx.q = << >> /\ uTx.b = 0 /\ uTx.gone = << >>
      /\ uTx.lens = << >> /\ uTx.out = << >> /\ uTx.hw = 0 /\ ~uTx.active /\ uTx.spare = 0
  BY DEF Uart!Init, Uart!Nothing, UartTX
<1>3. << >> \o << >> = [k \in 1 .. Len(<< >>) |-> k] /\ Len(<< >>) = 0
  OBVIOUS
<1>4. UartQSize \in Nat /\ 0 <= UartQSize /\ 0 < Ms
  BY BusesAssumption
<1>5. UartOrdered(uTx) /\ UartAtFront(uTx) /\ UartWorks(uTx) /\ UartInTime(uTx, uNow)
  BY <1>2, <1>3, <1>4 DEF UartOrdered, UartAtFront, UartWorks, UartInTime
<1>6. UartHearing(uRx, uPc) /\ UartCovers(uRx)
  <2>1. /\ uRx \in UartRX /\ uRx.ok /\ uRx.on /\ uRx.q = << >> /\ uRx.buf = {}
        /\ uRx.came = 0 /\ uRx.read = << >>
    BY DEF Uart!Init, UartRX
  <2>2. << >> \o << >> = << >> /\ DOMAIN << >> = {} /\ << >> \in Seq(SUBSET Nat) /\ 1 .. 0 = {}
    OBVIOUS
  <2>3. UartHeard(<< >>, {}, 0) /\ UartAllOf(<< >>, {}, 0, uRx.excused)
    BY <2>2 DEF UartHeard, UartAllOf
  <2> QED BY <1>1, <1>3, <1>4, <2>1, <2>2, <2>3 DEF UartHearing, UartListens, UartCovers
<1>7. UartSound(uTx, uPc)
  BY <1>1, <1>5 DEF UartSound
<1>8. UartTimely(uTx, uPc, uNow)
  BY <1>1, <1>2, <1>4, <1>5 DEF UartTimely
<1> QED BY <1>1, <1>6, <1>7, <1>8 DEF UartInv, UartPcs


\* A byte more is collected.
LEMMA UartByte ==
  ASSUME NEW g, NEW b, NEW came, UartHeard(g, b, came)
  PROVE  /\ UartHeard(g, b \cup {came + 1}, came + 1)
         /\ \A x : UartAllOf(g, b, came, x) => UartAllOf(g, b \cup {came + 1}, came + 1, x)
<1> DEFINE n == came + 1
           c == b \cup {n}
<1>1. /\ g \in Seq(SUBSET Nat) /\ came \in Nat /\ b \subseteq 1 .. came
      /\ \A i \in DOMAIN g : g[i] \subseteq 1 .. came
      /\ \A m \in b : m .. came \subseteq b
      /\ \A i \in DOMAIN g : \A m \in g[i], k \in b : m < k
  BY DEF UartHeard
<1>2. n \in Nat /\ came < n /\ 1 .. n = (1 .. came) \cup {n}
  BY <1>1
<1> HIDE DEF n
<1>3. \A m \in c : m .. n \subseteq c
  <2> SUFFICES ASSUME NEW m \in c, NEW k \in m .. n
               PROVE  k \in c
    OBVIOUS
  <2>1. CASE k = n
    BY <2>1
  <2>2. CASE k # n
    <3>1. m \in Nat /\ m # n
      <4>1. m \in 1 .. came \/ m = n
        BY <1>1
      <4>2. m \in Nat
        BY <1>2, <4>1
      <4> QED BY <1>2, <2>2, <4>2
    <3>2. m \in b /\ k \in m .. came
      BY <1>1, <2>2, <3>1 DEF n
    <3> QED BY <1>1, <3>2
  <2> QED BY <2>1, <2>2
<1>4. \A i \in DOMAIN g : \A m \in g[i], k \in c : m < k
  <2> SUFFICES ASSUME NEW i \in DOMAIN g, NEW m \in g[i], NEW k \in c
               PROVE  m < k
    OBVIOUS
  <2>1. m \in 1 .. came
    BY <1>1
  <2>2. CASE k = n
    BY <1>1, <1>2, <2>1, <2>2
  <2>3. CASE k # n
    BY <1>1, <2>3
  <2> QED BY <2>2, <2>3
<1>5. c \subseteq 1 .. n /\ \A i \in DOMAIN g : g[i] \subseteq 1 .. n
  BY <1>1, <1>2
<1> HIDE DEF c
<1>6. UartHeard(g, c, n)
  BY <1>1, <1>2, <1>3, <1>4, <1>5 DEF UartHeard
<1>7. ASSUME NEW x, UartAllOf(g, b, came, x)
      PROVE  UartAllOf(g, c, n, x)
  BY <1>2, <1>7 DEF UartAllOf, c
<1> QED BY <1>6, <1>7 DEF c, n

\* A byte is not heard, with nothing collected.
LEMMA UartUnheard ==
  ASSUME NEW g, NEW came, UartHeard(g, {}, came)
  PROVE  UartHeard(g, {}, came + 1)
<1>1. came + 1 \in Nat /\ 1 .. came \subseteq 1 .. came + 1
  BY DEF UartHeard
<1> QED BY <1>1 DEF UartHeard

\* What was collected is handed over, or lost.
LEMMA UartHanded ==
  ASSUME NEW g, NEW b, NEW came, UartHeard(g, b, came)
  PROVE  /\ UartHeard(Append(g, b), {}, came)
         /\ \A x : UartAllOf(g, b, came, x) => UartAllOf(Append(g, b), {}, came, x)
<1> DEFINE h == Append(g, b)
<1>1. /\ g \in Seq(SUBSET Nat) /\ came \in Nat /\ b \subseteq 1 .. came
      /\ \A i \in DOMAIN g : g[i] \subseteq 1 .. came
      /\ \A i, j \in DOMAIN g : i < j => \A m \in g[i], n \in g[j] : m < n
      /\ \A i \in DOMAIN g : \A m, n \in g[i] : m .. n \subseteq g[i]
      /\ \A m \in b : m .. came \subseteq b
      /\ \A i \in DOMAIN g : \A m \in g[i], n \in b : m < n
  BY DEF UartHeard
<1>2. b \in SUBSET Nat
  BY <1>1
<1>3. /\ h \in Seq(SUBSET Nat) /\ DOMAIN h = 1 .. Len(g) + 1 /\ DOMAIN g = 1 .. Len(g)
      /\ Len(g) \in Nat /\ \A i \in 1 .. Len(g) : h[i] = g[i]
      /\ h[Len(g) + 1] = b
  BY <1>1, <1>2
<1>4. \A i \in DOMAIN h : (i \in DOMAIN g /\ h[i] = g[i]) \/ (i = Len(g) + 1 /\ h[i] = b)
  <2>1. TAKE i \in DOMAIN h
  <2>2. i \in 1 .. Len(g) \/ i = Len(g) + 1
    BY <1>3
  <2> QED BY <1>3, <2>2
<1> HIDE DEF h
<1>5. \A i \in DOMAIN h : h[i] \subseteq 1 .. came
  BY <1>1, <1>4
<1>6. \A i, j \in DOMAIN h : i < j => \A m \in h[i], n \in h[j] : m < n
  <2> SUFFICES ASSUME NEW i \in DOMAIN h, NEW j \in DOMAIN h, i < j, NEW m \in h[i], NEW n \in h[j]
               PROVE  m < n
    OBVIOUS
  <2>1. i # Len(g) + 1
    BY <1>3
  <2>2. i \in DOMAIN g /\ h[i] = g[i]
    BY <1>4, <2>1
  <2>3. CASE j \in DOMAIN g /\ h[j] = g[j]
    BY <1>1, <2>2, <2>3
  <2>4. CASE h[j] = b
    BY <1>1, <2>2, <2>4
  <2> QED BY <1>4, <2>3, <2>4
<1>7. \A i \in DOMAIN h : \A m, n \in h[i] : m .. n \subseteq h[i]
  <2> SUFFICES ASSUME NEW i \in DOMAIN h, NEW m \in h[i], NEW n \in h[i]
               PROVE  m .. n \subseteq h[i]
    OBVIOUS
  <2>1. CASE i \in DOMAIN g /\ h[i] = g[i]
    BY <1>1, <2>1
  <2>2. CASE h[i] = b
    <3>1. m \in 1 .. came /\ n \in 1 .. came /\ m .. came \subseteq b
      BY <1>1, <2>2
    <3>2. m .. n \subseteq m .. came
      BY <1>1, <3>1
    <3> QED BY <2>2, <3>1, <3>2
  <2> QED BY <1>4, <2>1, <2>2
<1>8. UartHeard(h, {}, came)
  BY <1>1, <1>3, <1>5, <1>6, <1>7 DEF UartHeard
<1>9. ASSUME NEW x, UartAllOf(g, b, came, x)
      PROVE  UartAllOf(h, {}, came, x)
  <2> SUFFICES ASSUME NEW n \in 1 .. came
               PROVE  n \in x \/ \E i \in DOMAIN h : n \in h[i]
    BY DEF UartAllOf
  <2>1. CASE n \in b
    <3>1. Len(g) + 1 \in DOMAIN h /\ n \in h[Len(g) + 1]
      BY <1>3, <2>1
    <3> QED BY <3>1
  <2>2. CASE \E i \in DOMAIN g : n \in g[i]
    <3>1. PICK i \in DOMAIN g : n \in g[i]
      BY <2>2
    <3>2. i \in DOMAIN h /\ n \in h[i]
      BY <1>3, <3>1
    <3> QED BY <3>2
  <2> QED BY <1>9, <2>1, <2>2 DEF UartAllOf
<1> QED BY <1>8, <1>9 DEF h

LEMMA UartLost ==
  ASSUME NEW g, NEW b, NEW came, UartHeard(g, b, came)
  PROVE  /\ UartHeard(g, {}, came)
         /\ \A x : UartAllOf(g, b, came, x) => UartAllOf(g, {}, came, x \cup b)
BY DEF UartHeard, UartAllOf

\* The receiver hands over what it collected, and goes on.
LEMMA UartCollects ==
  ASSUME NEW r, UartListens(r), r.on
  PROVE  LET c == Uart!Collected(r)
         IN  UartListens(c) /\ c.on /\ (UartCovers(r) => UartCovers(c))
<1> DEFINE c == Uart!Collected(r)
           g == r.read \o r.q
<1>1. /\ r \in UartRX /\ r.ok /\ Len(r.q) <= UartQSize /\ UartHeard(g, r.buf, r.came)
      /\ r.q \in Seq(SUBSET Nat) /\ r.read \in Seq(SUBSET Nat) /\ r.buf \in SUBSET Nat
      /\ Len(r.q) \in Nat /\ UartQSize \in Nat
  BY BusesAssumption DEF UartListens, UartRX
<1>2. CASE Len(r.q) < UartQSize
  <2> DEFINE q == Append(r.q, r.buf)
  <2>1. q \in Seq(SUBSET Nat) /\ Len(q) = Len(r.q) + 1
    BY <1>1, AppendProperties
  <2>2. r.read \o q = Append(g, r.buf)
    <3> DEFINE x == r.read
               y == r.q
               b == r.buf
    <3>1. x \in Seq(SUBSET Nat) /\ y \in Seq(SUBSET Nat) /\ b \in SUBSET Nat
      BY <1>1
    <3> HIDE DEF x, y, b
    <3>2. x \o Append(y, b) = Append(x \o y, b)
      BY <3>1
    <3> QED BY <3>2 DEF x, y, b
  <2>3. c = [r EXCEPT !.on = TRUE, !.buf = {}, !.q = q]
    BY <1>1, <1>2 DEF Uart!Collected, Uart!_rxevent, Uart!startReceive, UartRX
  <2> HIDE DEF q, c
  <2>4. /\ c \in UartRX /\ c.ok /\ c.on /\ c.buf = {} /\ c.q = q /\ c.read = r.read
        /\ c.came = r.came /\ c.excused = r.excused
    BY <1>1, <2>1, <2>3 DEF UartRX
  <2> HIDE DEF g
  <2>5. UartHeard(Append(g, r.buf), {}, r.came)
    BY <1>1, UartHanded
  <2>6. UartAllOf(g, r.buf, r.came, r.excused) => UartAllOf(Append(g, r.buf), {}, r.came, r.excused)
    BY <1>1, UartHanded
  <2>7. Len(c.q) <= UartQSize
    BY <1>1, <1>2, <2>1, <2>4
  <2> QED BY <2>2, <2>4, <2>5, <2>6, <2>7 DEF UartListens, UartCovers, c, g
<1>3. CASE ~(Len(r.q) < UartQSize)
  <2> DEFINE x == r.excused \cup r.buf
  <2>1. c = [r EXCEPT !.on = TRUE, !.buf = {}, !.excused = x]
    BY <1>1, <1>3 DEF Uart!Collected, Uart!_rxevent, Uart!startReceive, Uart!Excused, UartRX
  <2>2. x \in SUBSET Nat
    BY <1>1 DEF UartRX
  <2> HIDE DEF c, x
  <2>3. /\ c \in UartRX /\ c.ok /\ c.on /\ c.buf = {} /\ c.q = r.q /\ c.read = r.read
        /\ c.came = r.came /\ c.excused = x
    BY <1>1, <2>1, <2>2 DEF UartRX
  <2> HIDE DEF g
  <2>4. UartHeard(g, {}, r.came)
    BY <1>1, UartLost
  <2>5. UartAllOf(g, r.buf, r.came, r.excused) => UartAllOf(g, {}, r.came, x)
    BY <1>1, UartLost DEF x
  <2> QED BY <1>1, <2>3, <2>4, <2>5 DEF UartListens, UartCovers, c, g
<1> QED BY <1>2, <1>3

\* A byte comes to the receiver.
LEMMA UartReceives ==
  ASSUME NEW r, UartListens(r), r.on
  PROVE  LET c == [r EXCEPT !.came = r.came + 1, !.buf = @ \cup {r.came + 1}]
         IN  UartListens(c) /\ c.on /\ (UartCovers(r) => UartCovers(c))
<1> DEFINE n == r.came + 1
           b == r.buf \cup {n}
           c == [r EXCEPT !.came = n, !.buf = b]
           g == r.read \o r.q
<1>1. r \in UartRX /\ r.ok /\ Len(r.q) <= UartQSize /\ UartHeard(g, r.buf, r.came)
  BY DEF UartListens
<1>2. n \in Nat /\ b \in SUBSET Nat
  BY <1>1 DEF UartRX
<1>3. UartHeard(g, b, n) /\ (UartAllOf(g, r.buf, r.came, r.excused) => UartAllOf(g, b, n, r.excused))
  <2> HIDE DEF g
  <2> QED BY <1>1, UartByte
<1> HIDE DEF n, b
<1>4. /\ c \in UartRX /\ c.ok /\ c.on /\ c.buf = b /\ c.q = r.q /\ c.read = r.read
      /\ c.came = n /\ c.excused = r.excused
  BY <1>1, <1>2 DEF UartRX
<1> HIDE DEF c
<1>5. UartListens(c) /\ c.on /\ (UartCovers(r) => UartCovers(c))
  BY <1>1, <1>3, <1>4 DEF UartListens, UartCovers
<1> QED BY <1>5 DEF c, b, n

\* A byte comes to no receiver.
LEMMA UartMisses ==
  ASSUME NEW r, UartListens(r), ~r.on
  PROVE  LET c == [r EXCEPT !.came = r.came + 1] IN UartListens(c) /\ ~c.on
<1> DEFINE n == r.came + 1
           c == [r EXCEPT !.came = n]
           g == r.read \o r.q
<1>1. r \in UartRX /\ r.ok /\ Len(r.q) <= UartQSize /\ UartHeard(g, {}, r.came) /\ r.buf = {}
  BY DEF UartListens
<1>2. n \in Nat
  BY <1>1 DEF UartRX
<1>3. UartHeard(g, {}, n)
  <2> HIDE DEF g
  <2> QED BY <1>1, UartUnheard
<1> HIDE DEF n
<1>4. c \in UartRX /\ c.ok /\ ~c.on /\ c.buf = {} /\ c.q = r.q /\ c.read = r.read /\ c.came = n
  BY <1>1, <1>2 DEF UartRX
<1> HIDE DEF c
<1>5. UartListens(c) /\ ~c.on
  BY <1>1, <1>3, <1>4 DEF UartListens
<1> QED BY <1>5 DEF c, n

\* An abort ends a reception; what it collected is lost, and excused or not.
LEMMA UartCut ==
  ASSUME NEW r, UartListens(r), NEW e \in {r, Uart!Excused(r)}
  PROVE  LET c == Uart!AbortedRx(e)
         IN  /\ UartListens(c) /\ ~c.on
             /\ UartCovers(r) /\ e = Uart!Excused(r) => UartCovers(c)
<1> DEFINE c == Uart!AbortedRx(e)
           x == r.excused \cup r.buf
           g == r.read \o r.q
<1>1. r \in UartRX /\ r.ok /\ Len(r.q) <= UartQSize /\ UartHeard(g, r.buf, r.came)
  BY DEF UartListens
<1>2. x \in SUBSET Nat
  BY <1>1 DEF UartRX
<1>3. UartHeard(g, {}, r.came) /\ (UartAllOf(g, r.buf, r.came, r.excused) => UartAllOf(g, {}, r.came, x))
  <2> HIDE DEF g
  <2> QED BY <1>1, UartLost
<1>4. Uart!Excused(r) = [r EXCEPT !.excused = x]
  BY DEF Uart!Excused
<1> HIDE DEF x
<1>5. /\ e \in UartRX /\ e.ok /\ e.q = r.q /\ e.read = r.read /\ e.came = r.came
      /\ e = Uart!Excused(r) => e.excused = x
  <2> DEFINE f == [r EXCEPT !.excused = x]
  <2>1. f \in UartRX /\ f.ok /\ f.q = r.q /\ f.read = r.read /\ f.came = r.came /\ f.excused = x
    BY <1>1, <1>2 DEF UartRX
  <2> HIDE DEF f
  <2>2. CASE e = f
    BY <2>1, <2>2
  <2>3. CASE e # f
    BY <1>1, <1>4, <2>3 DEF f
  <2> QED BY <2>2, <2>3
<1>6. c = [e EXCEPT !.on = FALSE, !.buf = {}]
  BY DEF Uart!AbortedRx
<1> HIDE DEF c
<1>7. /\ c \in UartRX /\ c.ok /\ ~c.on /\ c.buf = {} /\ c.q = r.q /\ c.read = r.read
      /\ c.came = r.came /\ c.excused = e.excused
  BY <1>5, <1>6 DEF UartRX
<1>8. UartListens(c) /\ ~c.on
  BY <1>1, <1>3, <1>7 DEF UartListens
<1>9. ASSUME UartCovers(r), e = Uart!Excused(r)
      PROVE  UartCovers(c)
  BY <1>3, <1>5, <1>7, <1>9 DEF UartCovers
<1> QED BY <1>8, <1>9 DEF c

\* A receiver that stopped is started.
LEMMA UartStarts ==
  ASSUME NEW r, UartListens(r), ~r.on
  PROVE  LET c == Uart!startReceive(r)
         IN  UartListens(c) /\ c.on /\ (UartCovers(r) => UartCovers(c))
<1> DEFINE c == Uart!startReceive(r)
<1>1. r \in UartRX /\ r.ok /\ Len(r.q) <= UartQSize /\ r.buf = {}
  BY DEF UartListens
<1>2. c = [r EXCEPT !.on = TRUE, !.buf = {}]
  BY DEF Uart!startReceive
<1> HIDE DEF c
<1>3. /\ c \in UartRX /\ c.ok /\ c.on /\ c.buf = r.buf /\ c.q = r.q /\ c.read = r.read
      /\ c.came = r.came /\ c.excused = r.excused
  BY <1>1, <1>2 DEF UartRX
<1>4. UartListens(c) /\ c.on /\ (UartCovers(r) => UartCovers(c))
  BY <1>1, <1>3 DEF UartListens, UartCovers
<1> QED BY <1>4 DEF c

\* What is read leaves the queue.
LEMMA UartPop ==
  ASSUME NEW r, UartListens(r), r.q # << >>
  PROVE  LET c == [r EXCEPT !.q = Tail(@), !.read = Append(@, Head(r.q))]
         IN  UartListens(c) /\ (r.on => c.on) /\ (UartCovers(r) => UartCovers(c))
<1> DEFINE q == Tail(r.q)
           x == Append(r.read, Head(r.q))
           c == [r EXCEPT !.q = q, !.read = x]
<1>1. /\ r \in UartRX /\ r.ok /\ Len(r.q) <= UartQSize
      /\ r.q \in Seq(SUBSET Nat) /\ r.read \in Seq(SUBSET Nat)
  BY DEF UartListens, UartRX
<1>2. q \in Seq(SUBSET Nat) /\ x \in Seq(SUBSET Nat) /\ x \o q = r.read \o r.q
  <2> DEFINE s == r.read
             t == r.q
  <2>1. s \in Seq(SUBSET Nat) /\ t \in Seq(SUBSET Nat) /\ t # << >>
    BY <1>1
  <2> HIDE DEF s, t
  <2>2. Tail(t) \in Seq(SUBSET Nat) /\ Append(s, Head(t)) \in Seq(SUBSET Nat)
    BY <2>1
  <2>3. Append(s, Head(t)) \o Tail(t) = s \o t
    BY <2>1
  <2> QED BY <2>2, <2>3 DEF s, t
<1>3. Len(q) <= UartQSize
  <2>1. Len(q) = Len(r.q) - 1 /\ Len(r.q) \in Nat /\ UartQSize \in Nat
    BY <1>1, HeadTailProperties, BusesAssumption
  <2> QED BY <1>1, <2>1
<1> HIDE DEF q, x
<1>4. /\ c \in UartRX /\ c.ok /\ c.on = r.on /\ c.buf = r.buf /\ c.q = q /\ c.read = x
      /\ c.came = r.came /\ c.excused = r.excused
  BY <1>1, <1>2 DEF UartRX
<1> HIDE DEF c
<1>5. UartListens(c) /\ (r.on => c.on) /\ (UartCovers(r) => UartCovers(c))
  BY <1>1, <1>2, <1>3, <1>4 DEF UartListens, UartCovers
<1> QED BY <1>5 DEF c, q, x

\* A change of what nobody looks at here.
LEMMA UartSame ==
  ASSUME NEW t, UartOrdered(t), UartAtFront(t), NEW c \in UartTX,
         c.q = t.q, c.active = t.active, c.hw = t.hw, c.b = t.b \/ c.b \in 1 .. Len(t.lens),
         c.ok = t.ok, c.lens = t.lens, c.gone = t.gone, c.out = t.out
  PROVE  UartOrdered(c) /\ UartAtFront(c) /\ (UartWorks(t) => UartWorks(c))
BY DEF UartOrdered, UartAtFront, UartWorks

LEMMA UartPush ==
  ASSUME UartInv, ~Uart!Exposed, Uart!Push
  PROVE  /\ UartSound(uTx', "poll")
         /\ ~uEnv.preempt => UartTimely(uTx', "poll", uNow)
<1>1. /\ uPc = "out" /\ UartOrdered(uTx) /\ UartAtFront(uTx) /\ UartWorks(uTx)
      /\ ~uEnv.preempt => uTx.spare < Ms /\ UartInTime(uTx, uNow)
  BY DEF UartInv, UartSound, UartTimely, Uart!Push, Uart!Step
<1> DEFINE n == Len(uTx.lens)
           q == Append(uTx.q, n + 1)
<1>2. PICK x \in Lens : uTx' = [uTx EXCEPT !.q = q, !.lens = Append(@, x)]
  BY DEF Uart!Push
<1> DEFINE l == Append(uTx.lens, x)
           c == [uTx EXCEPT !.q = q, !.lens = l]
<1>3. /\ uTx \in UartTX /\ uTx.q \in Seq(Nat) /\ uTx.gone \in Seq(Nat) /\ uTx.lens \in Seq(Lens)
      /\ n \in Nat /\ uTx.gone \o uTx.q = [k \in 1 .. n |-> k]
      /\ Len(uTx.q) < UartQSize
  BY <1>1 DEF UartOrdered, UartTX, Uart!Push
<1>4. /\ q \in Seq(Nat) /\ q # << >> /\ uTx.gone \o q = [k \in 1 .. n + 1 |-> k]
      /\ uTx.q # << >> => Head(q) = Head(uTx.q)
  <2> HIDE DEF n
  <2> QED BY <1>3, NumberedNext
<1>5. l \in Seq(Lens) /\ Len(l) = n + 1
  BY <1>3
<1>6. Len(q) <= UartQSize
  <2>1. Len(q) = Len(uTx.q) + 1
    <3>1. n + 1 \in Nat
      BY <1>3
    <3> HIDE DEF n
    <3> QED BY <1>3, <3>1, AppendProperties
  <2> QED BY <1>3, <2>1, BusesAssumption
<1>7. uTx.b = 0 \/ uTx.b \in 1 .. n + 1
  BY <1>1, <1>3 DEF UartOrdered
<1>8. uTx' = c
  BY <1>2
<1> HIDE DEF q, l, n
<1>9. /\ c \in UartTX /\ c.q = q /\ c.active = uTx.active /\ c.b = uTx.b /\ c.hw = uTx.hw
      /\ c.lens = l /\ c.gone = uTx.gone /\ c.out = uTx.out /\ c.ok = uTx.ok /\ c.spare = uTx.spare
      /\ c.left = uTx.left /\ c.hung = uTx.hung /\ c.deadline = uTx.deadline
  BY <1>3, <1>4, <1>5 DEF UartTX
<1> HIDE DEF c
<1>10. UartOrdered(c)
  BY <1>1, <1>4, <1>5, <1>6, <1>7, <1>9 DEF UartOrdered
<1>11. UartAtFront(c) /\ UartWorks(c)
  BY <1>1, <1>4, <1>9 DEF UartAtFront, UartWorks
<1>12. UartSound(c, "poll")
  BY <1>10, <1>11 DEF UartSound
<1>13. ~uEnv.preempt => UartTimely(c, "poll", uNow)
  BY <1>1, <1>9 DEF UartTimely, UartInTime
<1> QED BY <1>8, <1>12, <1>13

LEMMA UartQuantum ==
  ASSUME UartInv, ~Uart!Exposed, Uart!Quantum
  PROVE  /\ UartSound(uTx', uPc)
         /\ ~uEnv.preempt => UartTimely(uTx', uPc, uNow')
<1>1. /\ UartOrdered(uTx) /\ UartAtFront(uTx) /\ UartSound(uTx, uPc)
      /\ ~uEnv.preempt => uTx.spare < Ms /\ UartInTime(uTx, uNow) /\ uPc = "out"
      /\ uNow' = uNow + 1 /\ uNow \in Nat
      /\ uTx.hw # 0 => uTx.left # 0
  <2>1. uNow' = uNow + 1 /\ (uTx.hw # 0 => uTx.left # 0) /\ (~uEnv.preempt => uPc = "out")
    BY DEF Uart!Quantum, Uart!Pending, Uart!Nothing, Uart!Interruptible
  <2>2. UartSound(uTx, uPc) /\ uNow \in Nat /\ (~uEnv.preempt => UartTimely(uTx, uPc, uNow))
    BY DEF UartInv
  <2> QED BY <2>1, <2>2 DEF UartSound, UartTimely
<1> DEFINE n == IF uTx.left > 0 /\ ~uTx.hung THEN uTx.left - 1 ELSE uTx.left
           c == [uTx EXCEPT !.left = n]
<1>2. uTx' = c
  BY DEF Uart!Quantum
<1>3. uTx \in UartTX /\ uTx.left \in Nat /\ n \in Nat
  BY <1>1 DEF UartOrdered, UartTX
<1>4. uTx.hw # 0 /\ ~uTx.hung => n = uTx.left - 1
  BY <1>1, <1>3
<1> HIDE DEF n
<1>5. /\ c \in UartTX /\ c.q = uTx.q /\ c.active = uTx.active /\ c.b = uTx.b /\ c.hw = uTx.hw
      /\ c.lens = uTx.lens /\ c.gone = uTx.gone /\ c.out = uTx.out /\ c.ok = uTx.ok
      /\ c.spare = uTx.spare /\ c.left = n /\ c.hung = uTx.hung /\ c.deadline = uTx.deadline
  BY <1>3 DEF UartTX
<1> HIDE DEF c
<1>6. UartOrdered(c) /\ UartAtFront(c) /\ (UartWorks(uTx) => UartWorks(c))
  BY <1>1, <1>5, UartSame
<1>7. UartSound(c, uPc)
  BY <1>1, <1>5, <1>6 DEF UartSound
<1>8. ASSUME ~uEnv.preempt
      PROVE  UartTimely(c, uPc, uNow')
  <2>1. UartInTime(c, uNow')
    <3> DEFINE w == (uTx.deadline + 1) * Ms
    <3>1. SUFFICES ASSUME uTx.hw # 0, ~uTx.hung, uTx.deadline # 0
                   PROVE  uNow' + n < w
      BY <1>5 DEF UartInTime
    <3>2. uNow + uTx.left < w
      BY <1>1, <1>8, <3>1 DEF UartInTime
    <3>3. uNow' + n = uNow + uTx.left
      BY <1>1, <1>3, <1>4, <3>1
    <3> QED BY <3>2, <3>3
  <2> QED BY <1>1, <1>5, <1>8, <2>1 DEF UartTimely
<1> QED BY <1>2, <1>7, <1>8

\* The statements of push.
LEMMA UartMain ==
  ASSUME UartInv, ~Uart!Exposed, Uart!Main
  PROVE  /\ UartSound(uTx', uPc')
         /\ ~uEnv.preempt => UartTimely(uTx', uPc', uNow)
<1>a. /\ UartSound(uTx, uPc) /\ UartOrdered(uTx) /\ UartAtFront(uTx) /\ uTx \in UartTX
      /\ ~uEnv.preempt => UartTimely(uTx, uPc, uNow) /\ uTx.spare < Ms
      /\ uNow \in Nat
  <2>1. uNow \in Nat
    BY BusesAssumption DEF UartInv
  <2>2. UartSound(uTx, uPc) /\ (~uEnv.preempt => UartTimely(uTx, uPc, uNow))
    BY DEF UartInv
  <2>3. UartOrdered(uTx) /\ UartAtFront(uTx) /\ uTx \in UartTX
    BY <2>2 DEF UartSound, UartOrdered
  <2> QED BY <2>1, <2>2, <2>3 DEF UartTimely
<1>1. CASE Uart!Poll
  <2>1. uPc = "poll" /\ uPc' = IF Uart!Expired(uTx) THEN "error" ELSE "free"
    BY <1>1 DEF Uart!Poll, Uart!Step
  <2> DEFINE d == IF Uart!Expired(uTx) THEN 0 ELSE uTx.deadline
             c == [uTx EXCEPT !.deadline = d]
  <2>2. uTx' = c
    BY <1>1 DEF Uart!Poll
  <2>3. d \in Nat
    BY <1>a DEF UartTX
  <2>4. ~Uart!Expired(uTx) => d = uTx.deadline
    OBVIOUS
  <2> HIDE DEF d
  <2>5. /\ c \in UartTX /\ c.q = uTx.q /\ c.active = uTx.active /\ c.b = uTx.b /\ c.hw = uTx.hw
        /\ c.lens = uTx.lens /\ c.gone = uTx.gone /\ c.out = uTx.out /\ c.ok = uTx.ok
        /\ c.spare = uTx.spare /\ c.left = uTx.left /\ c.hung = uTx.hung /\ c.deadline = d
    BY <1>a, <2>3 DEF UartTX
  <2> HIDE DEF c
  <2>6. UartWorks(uTx)
    BY <1>a, <2>1 DEF UartSound
  <2>7. UartSound(c, uPc')
    <3>1. UartOrdered(c) /\ UartAtFront(c) /\ UartWorks(c)
      BY <1>a, <2>5, <2>6, UartSame
    <3> QED BY <2>1, <3>1 DEF UartSound
  <2>8. ASSUME ~uEnv.preempt
        PROVE  UartTimely(c, uPc', uNow)
    <3>1. CASE Uart!Expired(uTx)
      <4>1. uTx.active /\ uTx.deadline # 0 /\ ~(Uart!uwTick < uTx.deadline) /\ uTx.hw # 0
        BY <2>6, <3>1 DEF Uart!Expired, UartWorks
      <4>2. ASSUME ~uTx.hung
            PROVE  uTx.left < Ms
        <5>1. uNow + uTx.left < (uTx.deadline + 1) * Ms
          BY <1>a, <2>1, <2>8, <4>1, <4>2 DEF UartTimely, UartInTime
        <5>2. uTx.left \in Nat /\ uTx.deadline \in Nat /\ Ms \in Nat \ {0}
          BY <1>a, BusesAssumption DEF UartTX
        <5>3. ~(uNow \div Ms < uTx.deadline)
          BY <4>1 DEF Uart!uwTick
        <5> QED BY <1>a, <5>1, <5>2, <5>3, UartElapsed
      <4> QED BY <1>a, <2>1, <2>5, <2>8, <3>1, <4>2 DEF UartTimely
    <3>2. CASE ~Uart!Expired(uTx)
      <4>1. UartInTime(c, uNow)
        BY <1>a, <2>1, <2>4, <2>5, <2>8, <3>2 DEF UartTimely, UartInTime
      <4> QED BY <1>a, <2>1, <2>5, <2>8, <3>2, <4>1 DEF UartTimely
    <3> QED BY <3>1, <3>2
  <2> QED BY <2>2, <2>7, <2>8
<1>2. CASE Uart!Busy
  <2>1. uPc = "free" /\ uPc' = "out" /\ uTx' = uTx
    BY <1>2 DEF Uart!Busy, Uart!Step
  <2> QED BY <1>a, <2>1 DEF UartSound, UartTimely
<1>3. CASE Uart!Free
  <2>1. uPc = "free" /\ uPc' = "begin" /\ uTx' = uTx /\ ~uTx.active
    BY <1>3 DEF Uart!Free, Uart!Step
  <2>2. uTx.hw = 0
    BY <1>a, <2>1 DEF UartAtFront
  <2> QED BY <1>a, <2>1, <2>2 DEF UartSound, UartTimely
<1>4. CASE Uart!TimedOut
  <2>1. uPc = "error" /\ uPc' = "listen"
    BY <1>4 DEF Uart!TimedOut, Uart!Step
  <2> DEFINE s == IF uTx.hung \/ uTx.left < uTx.spare THEN uTx.spare ELSE uTx.left
             c == [uTx EXCEPT !.spare = s]
             a == Uart!Aborted(c)
  <2>2. uTx' = a
    BY <1>4 DEF Uart!TimedOut
  <2>3. s \in Nat /\ (~uEnv.preempt => s < Ms)
    <3>1. uTx.spare \in Nat /\ uTx.left \in Nat
      BY <1>a DEF UartTX
    <3>2. ~uEnv.preempt => uTx.hung \/ uTx.left < Ms
      BY <1>a, <2>1 DEF UartTimely
    <3> QED BY <1>a, <3>1, <3>2
  <2> HIDE DEF s
  <2>4. /\ c \in UartTX /\ c.q = uTx.q /\ c.active = uTx.active /\ c.b = uTx.b /\ c.hw = uTx.hw
        /\ c.lens = uTx.lens /\ c.gone = uTx.gone /\ c.out = uTx.out /\ c.ok = uTx.ok /\ c.spare = s
    BY <1>a, <2>3 DEF UartTX
  <2> HIDE DEF c
  <2>5. UartOrdered(c) /\ UartAtFront(c)
    BY <1>a, <2>4, UartSame
  <2>6. UartOrdered(a) /\ UartAtFront(a) /\ a.hw = 0 /\ a.spare = s
    BY <2>4, <2>5, UartAborted
  <2> QED BY <2>1, <2>2, <2>3, <2>6 DEF UartSound, UartTimely
<1>5. CASE Uart!Begin
  <2>1. uPc = "begin" /\ uPc' = IF uTx.q = << >> THEN "out" ELSE "start"
    BY <1>5 DEF Uart!Begin, Uart!Step
  <2>2. uTx.hw = 0
    BY <1>a, <2>1 DEF UartSound
  <2>3. CASE uTx.q = << >>
    <3>1. uTx' = uTx /\ ~uTx.active
      BY <1>5, <1>a, <2>3 DEF Uart!Begin, UartAtFront
    <3> QED BY <1>a, <2>1, <2>2, <2>3, <3>1 DEF UartSound, UartTimely, UartWorks, UartInTime
  <2>4. CASE uTx.q # << >>
    <3> DEFINE n == Head(uTx.q)
               c == Uart!Marked(uTx)
    <3>1. uTx' = c
      BY <1>5, <2>4 DEF Uart!Begin
    <3>2. n \in 1 .. Len(uTx.lens) /\ n \in Nat
      <4> DEFINE l == Len(uTx.lens)
      <4>1. /\ uTx.q \in Seq(Nat) /\ uTx.gone \in Seq(Nat) /\ l \in Nat
            /\ uTx.gone \o uTx.q = [k \in 1 .. l |-> k]
        BY <1>a DEF UartOrdered, UartTX
      <4> HIDE DEF l
      <4>2. n \in 1 .. l
        BY <2>4, <4>1, NumberedFirst
      <4> QED BY <4>1, <4>2 DEF l
    <3>3. c = [uTx EXCEPT !.active = TRUE, !.b = n]
      BY DEF Uart!Marked
    <3> HIDE DEF c, n
    <3>4. /\ c \in UartTX /\ c.q = uTx.q /\ c.active /\ c.b = n /\ c.hw = uTx.hw
          /\ c.lens = uTx.lens /\ c.gone = uTx.gone /\ c.out = uTx.out /\ c.ok = uTx.ok
          /\ c.spare = uTx.spare
      BY <1>a, <3>2, <3>3 DEF UartTX
    <3>5. UartOrdered(c) /\ UartAtFront(c)
      BY <1>a, <2>2, <2>4, <3>2, <3>4 DEF UartOrdered, UartAtFront
    <3>6. c.b = Head(c.q)
      BY <3>4 DEF n
    <3> QED BY <1>a, <2>1, <2>2, <2>4, <3>1, <3>4, <3>5, <3>6 DEF UartSound, UartTimely
  <2> QED BY <2>3, <2>4
<1>6. CASE Uart!Start
  <2>1. uPc = "start" /\ uPc' = "deadline"
    BY <1>6 DEF Uart!Start, Uart!Step
  <2>2. PICK h \in Uart!Hangs : uTx' = Uart!HalStart(uTx, h)
    BY <1>6 DEF Uart!Start
  <2>3. uTx.hw = 0 /\ uTx.active /\ uTx.b = Head(uTx.q) /\ h \in BOOLEAN /\ uTx.q # << >>
    BY <1>a, <2>1 DEF UartSound, UartAtFront, Uart!Hangs
  <2> DEFINE d == uTx.lens[uTx.b] * ByteTime
             c == [uTx EXCEPT !.hw = uTx.b, !.left = d, !.hung = h]
  <2>4. uTx' = c
    BY <2>2, <2>3 DEF Uart!HalStart, Uart!Duration, Uart!Nothing
  <2>5. uTx.b \in Nat /\ uTx.b # 0 /\ d \in Nat
    <3> DEFINE l == Len(uTx.lens)
    <3>1. /\ uTx.q \in Seq(Nat) /\ uTx.gone \in Seq(Nat) /\ l \in Nat
          /\ uTx.gone \o uTx.q = [k \in 1 .. l |-> k] /\ uTx.lens \in Seq(Lens)
      BY <1>a DEF UartOrdered, UartTX
    <3> HIDE DEF l
    <3>2. Head(uTx.q) \in 1 .. l /\ Head(uTx.q) # 0
      BY <2>3, <3>1, NumberedFirst, ZenonT(60)
    <3>3. uTx.b \in 1 .. l /\ uTx.b # 0
      BY <2>3, <3>2
    <3> DEFINE x == uTx.lens[uTx.b]
    <3>4. x \in Lens
      BY <3>1, <3>3 DEF l
    <3>5. x \in Nat /\ ByteTime \in Nat
      BY <3>4, BusesAssumption
    <3> HIDE DEF x
    <3>6. x * ByteTime \in Nat
      BY <3>5
    <3> QED BY <3>1, <3>3, <3>6 DEF x
  <2> HIDE DEF d
  <2>6. /\ c \in UartTX /\ c.q = uTx.q /\ c.active /\ c.b = uTx.b /\ c.hw = uTx.b
        /\ c.lens = uTx.lens /\ c.gone = uTx.gone /\ c.out = uTx.out /\ c.ok = uTx.ok
        /\ c.spare = uTx.spare /\ c.left = d
    BY <1>a, <2>3, <2>5 DEF UartTX
  <2> HIDE DEF c
  <2>7. UartOrdered(c) /\ UartAtFront(c) /\ UartWorks(c)
    BY <1>a, <2>3, <2>5, <2>6 DEF UartOrdered, UartAtFront, UartWorks
  <2>8. UartSound(c, "deadline")
    BY <2>5, <2>6, <2>7 DEF UartSound
  <2>9. ~uEnv.preempt => UartTimely(c, "deadline", uNow)
    BY <1>a, <2>6 DEF UartTimely, d
  <2> QED BY <2>1, <2>4, <2>8, <2>9
<1>7. CASE Uart!Deadline
  <2> DEFINE x == uTx.lens[uTx.b]
             d == x * ByteTime
             w == Uart!uwTick + (d \div Ms + 1)
             c == [uTx EXCEPT !.deadline = w]
  <2>1. uPc = "deadline" /\ uPc' = "out"
    BY <1>7 DEF Uart!Deadline, Uart!Step
  <2>2. uTx' = c
    BY <1>7 DEF Uart!Deadline, Uart!Timed, Uart!Need, Uart!Duration
  <2>3. uTx.b # 0 /\ UartWorks(uTx)
    BY <1>a, <2>1 DEF UartSound
  <2>4. x \in Nat /\ ByteTime \in Nat /\ Ms \in Nat \ {0}
    <3>1. uTx.b \in 1 .. Len(uTx.lens) /\ uTx.lens \in Seq(Lens)
      BY <1>a, <2>3 DEF UartOrdered, UartTX
    <3>2. x \in Lens
      BY <3>1
    <3> HIDE DEF x
    <3> QED BY <3>2, BusesAssumption
  <2>5. d \in Nat
    <3> HIDE DEF x
    <3> QED BY <2>4
  <2>6. w \in Nat /\ uNow + d < (w + 1) * Ms
    <3> DEFINE a == uNow \div Ms
               e == d \div Ms
    <3>1. w = a + (e + 1)
      BY DEF Uart!uwTick
    <3> HIDE DEF d
    <3>2. a \in Nat /\ e \in Nat /\ uNow + d < (a + (e + 1) + 1) * Ms
      BY <1>a, <2>4, <2>5, UartDeadline
    <3> HIDE DEF a, e, w
    <3> QED BY <3>1, <3>2
  <2> HIDE DEF w
  <2>7. /\ c \in UartTX /\ c.q = uTx.q /\ c.active = uTx.active /\ c.b = uTx.b /\ c.hw = uTx.hw
        /\ c.lens = uTx.lens /\ c.gone = uTx.gone /\ c.out = uTx.out /\ c.ok = uTx.ok
        /\ c.spare = uTx.spare /\ c.left = uTx.left /\ c.hung = uTx.hung /\ c.deadline = w
    BY <1>a, <2>6 DEF UartTX
  <2> HIDE DEF c
  <2>8. UartOrdered(c) /\ UartAtFront(c) /\ UartWorks(c)
    BY <1>a, <2>3, <2>7, UartSame
  <2>9. ~uEnv.preempt => UartInTime(c, uNow)
    <3>1. SUFFICES ASSUME ~uEnv.preempt
                   PROVE  uNow + uTx.left < (w + 1) * Ms
      BY <2>7 DEF UartInTime
    <3>2. uTx.left = d
      BY <1>a, <2>1, <3>1 DEF UartTimely
    <3> QED BY <2>6, <3>2
  <2> QED BY <1>a, <2>1, <2>2, <2>7, <2>8, <2>9 DEF UartSound, UartTimely
<1>8. CASE Uart!Listen
  <2>1. uPc = "listen" /\ uPc' = "begin" /\ uTx' = uTx
    BY <1>8 DEF Uart!Listen, Uart!Step
  <2> QED BY <1>a, <2>1 DEF UartSound, UartTimely
<1> QED BY <1>1, <1>2, <1>3, <1>4, <1>5, <1>6, <1>7, <1>8 DEF Uart!Main

\* Of the statements of push, an abort cuts off what was being received, and the
\* receiver is started again.
LEMMA UartMainHears ==
  ASSUME UartInv, ~Uart!Exposed, Uart!Main
  PROVE  /\ UartHearing(uRx', uPc')
         /\ ~uEnv.preempt => UartCovers(uRx')
<1>a. /\ UartListens(uRx) /\ (uPc # "listen" => uRx.on) /\ (uPc = "listen" => ~uRx.on)
      /\ ~uEnv.preempt => UartTimely(uTx, uPc, uNow) /\ UartCovers(uRx)
  BY DEF UartInv, UartHearing
<1>1. CASE Uart!TimedOut
  <2> DEFINE e == IF uTx.hung \/ uTx.left < Ms THEN Uart!Excused(uRx) ELSE uRx
  <2>1. uPc = "error" /\ uPc' = "listen" /\ uRx' = Uart!AbortedRx(e)
    BY <1>1 DEF Uart!TimedOut, Uart!Step
  <2>2. e \in {uRx, Uart!Excused(uRx)}
    OBVIOUS
  <2>3. ~uEnv.preempt => e = Uart!Excused(uRx)
    BY <1>a, <2>1 DEF UartTimely
  <2> HIDE DEF e
  <2>4. UartListens(uRx') /\ ~uRx'.on
    BY <1>a, <2>1, <2>2, UartCut
  <2>5. UartCovers(uRx) /\ e = Uart!Excused(uRx) => UartCovers(uRx')
    BY <1>a, <2>1, <2>2, UartCut
  <2> QED BY <1>a, <2>1, <2>3, <2>4, <2>5 DEF UartHearing
<1>2. CASE Uart!Listen
  <2>1. uPc = "listen" /\ uPc' = "begin" /\ uRx' = Uart!startReceive(uRx)
    BY <1>2 DEF Uart!Listen, Uart!Step
  <2>2. UartListens(uRx') /\ uRx'.on /\ (UartCovers(uRx) => UartCovers(uRx'))
    BY <1>a, <2>1, UartStarts
  <2> QED BY <1>a, <2>1, <2>2 DEF UartHearing
<1>3. CASE Uart!Poll \/ Uart!Busy \/ Uart!Free \/ Uart!Begin \/ Uart!Start \/ Uart!Deadline
  <2>1. uRx' = uRx /\ uPc # "listen" /\ uPc' # "listen"
    BY <1>3 DEF Uart!Poll, Uart!Busy, Uart!Free, Uart!Begin, Uart!Start, Uart!Deadline, Uart!Step
  <2> QED BY <1>a, <2>1 DEF UartHearing
<1> QED BY <1>1, <1>2, <1>3 DEF Uart!Main

LEMMA UartNext ==
  ASSUME UartInv, [Uart!Next]_(Uart!vars)
  PROVE  UartInv'
<1>a. /\ uEnv \in UartEnvs /\ uNow \in Nat /\ uPc \in UartPcs
      /\ ~Uart!Exposed => UartSound(uTx, uPc) /\ UartOrdered(uTx) /\ UartAtFront(uTx)
      /\ ~uEnv.preempt => UartTimely(uTx, uPc, uNow) /\ uTx.spare < Ms
      /\ ~uEnv.preempt => ~Uart!Exposed
  BY DEF UartInv, UartSound, UartTimely, Uart!Exposed
<1>h. /\ ~Uart!Exposed => /\ UartHearing(uRx, uPc) /\ UartListens(uRx)
                          /\ (uPc # "listen" => uRx.on) /\ (uPc = "listen" => ~uRx.on)
      /\ ~uEnv.preempt => UartCovers(uRx)
  BY DEF UartInv, UartHearing
\* What has to be shown of a step.
<1>b. ASSUME uEnv' = uEnv, uNow' \in Nat, uPc' \in UartPcs,
             ~Uart!Exposed => /\ UartSound(uTx', uPc')
                              /\ ~uEnv.preempt => UartTimely(uTx', uPc', uNow'),
             ~Uart!Exposed => /\ UartHearing(uRx', uPc')
                              /\ ~uEnv.preempt => UartCovers(uRx')
      PROVE  UartInv'
  <2>1. /\ Uart!Exposed' <=> Uart!Exposed
        /\ UartSound(uTx, uPc)' <=> UartSound(uTx', uPc')
        /\ UartTimely(uTx, uPc, uNow)' <=> UartTimely(uTx', uPc', uNow')
    BY <1>b DEF Uart!Exposed, UartSound, UartTimely, UartInTime, UartWorks, UartAtFront, UartOrdered
  <2>2. /\ UartHearing(uRx, uPc)' <=> UartHearing(uRx', uPc')
        /\ UartCovers(uRx)' <=> UartCovers(uRx')
    BY DEF UartHearing, UartListens, UartHeard, UartCovers, UartAllOf
  <2> QED BY <1>a, <1>b, <2>1, <2>2 DEF UartInv
\* An interrupt that leaves a bus that works, or none.
<1>c. ASSUME UartOrdered(uTx'), UartAtFront(uTx'), UartWorks(uTx'), UartInTime(uTx', uNow),
             uTx'.spare = uTx.spare, ~Uart!Exposed,
             uPc \notin {"listen", "begin", "start"}, ~uEnv.preempt => uPc = "out",
             uPc = "deadline" => uTx'.b # 0
      PROVE  /\ UartSound(uTx', uPc)
             /\ ~uEnv.preempt => UartTimely(uTx', uPc, uNow)
  BY <1>a, <1>c DEF UartSound, UartTimely
<1>1. CASE Uart!TxDone
  <2>1. /\ Uart!Interruptible /\ uTx.hw # 0 /\ uTx.left = 0
        /\ uTx' \in Uart!_txcallback([uTx EXCEPT !.hw = Uart!Nothing, !.out = Append(@, uTx.hw)])
        /\ UNCHANGED <<uEnv, uNow, uRx, uPc>>
    BY <1>1 DEF Uart!TxDone, Uart!Pending, Uart!Nothing
  <2>2. ASSUME ~Uart!Exposed
        PROVE  /\ UartSound(uTx', uPc)
               /\ ~uEnv.preempt => UartTimely(uTx', uPc, uNow)
    <3>1. /\ UartOrdered(uTx') /\ UartAtFront(uTx') /\ UartWorks(uTx') /\ UartInTime(uTx', uNow)
          /\ uTx'.spare = uTx.spare /\ (uTx.b # 0 => uTx'.b # 0)
      BY <1>a, <2>1, <2>2, UartComplete
    <3>2. uPc \notin {"listen", "begin", "start"} /\ (~uEnv.preempt => uPc = "out")
      BY <1>a, <2>1, <2>2 DEF UartSound, Uart!Interruptible
    <3>3. uPc = "deadline" => uTx'.b # 0
      BY <1>a, <2>2, <3>1 DEF UartSound
    <3> QED BY <1>c, <2>2, <3>1, <3>2, <3>3
  <2> QED BY <1>a, <1>b, <1>h, <2>1, <2>2
<1>2. CASE Uart!RxError
  <2> DEFINE a == Uart!AbortedRx(Uart!Excused(uRx))
  <2>1. /\ Uart!Interruptible /\ uEnv.error /\ uTx' \in Uart!_errcallback(uTx)
        /\ uRx' = Uart!startReceive(a) /\ UNCHANGED <<uEnv, uNow, uPc>>
    BY <1>2 DEF Uart!RxError
  <2>2. ASSUME ~Uart!Exposed
        PROVE  uPc = "out"
    BY <2>1, <2>2 DEF Uart!Exposed, Uart!Interruptible
  <2>3. ASSUME ~Uart!Exposed
        PROVE  /\ UartSound(uTx', uPc)
               /\ ~uEnv.preempt => UartTimely(uTx', uPc, uNow)
    <3>1. /\ UartOrdered(uTx') /\ UartAtFront(uTx') /\ UartWorks(uTx') /\ UartInTime(uTx', uNow)
          /\ uTx'.spare = uTx.spare
      BY <1>a, <2>1, <2>3, UartRestart
    <3> QED BY <1>c, <2>2, <2>3, <3>1
  <2>4. ASSUME ~Uart!Exposed
        PROVE  UartHearing(uRx', uPc) /\ (~uEnv.preempt => UartCovers(uRx'))
    <3>1. Uart!Excused(uRx) \in {uRx, Uart!Excused(uRx)}
      OBVIOUS
    <3>2. UartListens(a) /\ ~a.on /\ (UartCovers(uRx) => UartCovers(a))
      BY <1>h, <2>4, <3>1, UartCut
    <3> HIDE DEF a
    <3>3. UartListens(uRx') /\ uRx'.on /\ (UartCovers(a) => UartCovers(uRx'))
      BY <2>1, <3>2, UartStarts
    <3> QED BY <1>h, <2>2, <2>4, <3>2, <3>3 DEF UartHearing
  <2> QED BY <1>a, <1>b, <2>1, <2>3, <2>4
<1>3. CASE Uart!RxByte
  <2> DEFINE n == uRx.came + 1
             r == [uRx EXCEPT !.came = n, !.buf = @ \cup {n}]
             m == [uRx EXCEPT !.came = n]
  <2>1. Uart!Interruptible /\ UNCHANGED <<uEnv, uNow, uTx, uPc>>
    BY <1>3 DEF Uart!RxByte
  <2>3. ~uRx.on => uRx' = m
    BY <1>3 DEF Uart!RxByte
  <2>4. uRx.on => uRx' = r \/ uRx' = Uart!Collected(r)
    BY <1>3 DEF Uart!RxByte
  <2>2. ASSUME ~Uart!Exposed
        PROVE  UartHearing(uRx', uPc) /\ (~uEnv.preempt => UartCovers(uRx'))
    <3>1. CASE uRx.on
      <4>1. uPc # "listen"
        BY <1>h, <2>2, <3>1
      <4>2. UartListens(r) /\ r.on /\ (UartCovers(uRx) => UartCovers(r))
        BY <1>h, <2>2, <3>1, UartReceives
      <4>3. uRx' = Uart!Collected(r) \/ uRx' = r
        BY <2>4, <3>1
      <4> HIDE DEF r
      <4>4. UartListens(uRx') /\ uRx'.on /\ (UartCovers(r) => UartCovers(uRx'))
        BY <4>2, <4>3, UartCollects
      <4> QED BY <1>h, <4>1, <4>2, <4>4 DEF UartHearing
    <3>2. CASE ~uRx.on
      <4>1. uPc = "listen" /\ uEnv.preempt
        BY <1>h, <2>1, <2>2, <3>2 DEF Uart!Interruptible
      <4>2. UartListens(m) /\ ~m.on
        BY <1>h, <2>2, <3>2, UartMisses
      <4>3. uRx' = m
        BY <2>3, <3>2
      <4> QED BY <4>1, <4>2, <4>3 DEF UartHearing
    <3> QED BY <3>1, <3>2
  <2> QED BY <1>a, <1>b, <2>1, <2>2
<1>4. CASE Uart!RxIdle
  <2>1. uRx.on /\ uRx' = Uart!Collected(uRx) /\ UNCHANGED <<uEnv, uNow, uTx, uPc>>
    BY <1>4 DEF Uart!RxIdle
  <2>2. ASSUME ~Uart!Exposed
        PROVE  UartHearing(uRx', uPc) /\ (~uEnv.preempt => UartCovers(uRx'))
    <3>1. UartListens(uRx') /\ uRx'.on /\ (UartCovers(uRx) => UartCovers(uRx'))
      BY <1>h, <2>1, <2>2, UartCollects
    <3> QED BY <1>h, <2>1, <2>2, <3>1 DEF UartHearing
  <2> QED BY <1>a, <1>b, <2>1, <2>2
<1>5. CASE Uart!Quantum
  <2>1. uNow' = uNow + 1 /\ UNCHANGED <<uEnv, uRx, uPc>>
    BY <1>5 DEF Uart!Quantum
  <2>2. uNow' \in Nat
    BY <1>a, <2>1
  <2> QED BY <1>5, <1>a, <1>b, <1>h, <2>1, <2>2, UartQuantum
<1>6. CASE Uart!Push
  <2>1. uPc = "out" /\ uPc' = "poll" /\ UNCHANGED <<uEnv, uNow, uRx>>
    BY <1>6 DEF Uart!Push, Uart!Step
  <2>2. ASSUME ~Uart!Exposed
        PROVE  UartHearing(uRx', uPc') /\ (~uEnv.preempt => UartCovers(uRx'))
    BY <1>h, <2>1, <2>2 DEF UartHearing
  <2> QED BY <1>6, <1>a, <1>b, <2>1, <2>2, UartPush DEF UartPcs
<1>7. CASE Uart!Main
  <2>1. uPc' \in UartPcs /\ UNCHANGED <<uEnv, uNow>>
    BY <1>7 DEF Uart!Main, Uart!Poll, Uart!Busy, Uart!Free, Uart!TimedOut, Uart!Listen, Uart!Begin,
                Uart!Start, Uart!Deadline, Uart!Step, UartPcs
  <2> QED BY <1>7, <1>a, <1>b, <2>1, UartMain, UartMainHears
<1>8. CASE Uart!Pop
  <2>1. /\ uRx.q # << >> /\ uRx' = [uRx EXCEPT !.q = Tail(@), !.read = Append(@, Head(uRx.q))]
        /\ uPc = "out" /\ uPc' = "out" /\ UNCHANGED <<uEnv, uNow, uTx>>
    BY <1>8 DEF Uart!Pop, Uart!Step
  <2>2. ASSUME ~Uart!Exposed
        PROVE  UartHearing(uRx', uPc) /\ (~uEnv.preempt => UartCovers(uRx'))
    <3>1. UartListens(uRx') /\ (uRx.on => uRx'.on) /\ (UartCovers(uRx) => UartCovers(uRx'))
      BY <1>h, <2>1, <2>2, UartPop
    <3> QED BY <1>h, <2>1, <2>2, <3>1 DEF UartHearing
  <2> QED BY <1>a, <1>b, <2>1, <2>2
<1>9. CASE UNCHANGED Uart!vars
  BY <1>9, <1>a, <1>b, <1>h DEF Uart!vars
<1> QED BY <1>1, <1>2, <1>3, <1>4, <1>5, <1>6, <1>7, <1>8, <1>9 DEF Uart!Next

LEMMA UartInvariant == Uart!Spec => []UartInv
<1>1. UartInv /\ [Uart!Next]_(Uart!vars) => UartInv'
  BY UartNext
<1> QED BY <1>1, UartInit, PTL DEF Uart!Spec

\* Buffers are transmitted in the order pushed, each to its end once, however
\* often a deadline or an error cuts one off, and no assert or bkpt is reached,
\* unless a receive error comes inside of push; a deadline cuts off less than a
\* millisecond of a transmission that runs (uart.cpp:92-147).
THEOREM UartAlwaysTransmitted == Uart!Spec => []UartTransmitted
<1>1. ASSUME UartInv
      PROVE  UartTransmitted
  <2>1. /\ uEnv \in UartEnvs /\ uNow \in Nat /\ uPc \in UartPcs
        /\ ~Uart!Exposed => UartOrdered(uTx) /\ UartListens(uRx)
        /\ ~uEnv.preempt => uTx.spare < Ms
    BY <1>1 DEF UartInv, UartSound, UartHearing, UartTimely
  <2>2. ASSUME ~Uart!Exposed
        PROVE  Uart!TypeOK /\ uTx.ok /\ uTx.out = uTx.gone
               /\ uTx.gone \o uTx.q = [k \in 1 .. Len(uTx.lens) |-> k]
    <3>1. /\ uTx \in UartTX /\ Len(uTx.q) <= UartQSize /\ uTx.ok /\ uTx.out = uTx.gone
          /\ uTx.b = 0 \/ uTx.b \in 1 .. Len(uTx.lens)
          /\ uTx.gone \o uTx.q = [k \in 1 .. Len(uTx.lens) |-> k]
      BY <2>1, <2>2 DEF UartOrdered
    <3>2. uTx.left >= 0 /\ uTx.deadline \in Nat /\ DOMAIN uTx.lens = 1 .. Len(uTx.lens)
      BY <3>1 DEF UartTX
    <3>3. Len(uRx.q) <= UartQSize
      BY <2>1, <2>2 DEF UartListens
    <3> QED BY <2>1, <3>1, <3>2, <3>3 DEF Uart!TypeOK, Uart!Nothing, UartPcs
  <2> QED BY <2>1, <2>2 DEF UartTransmitted, Uart!Transmitted, Uart!HardlyCut
<1> QED BY <1>1, UartInvariant, PTL

\* The receiver listens but while push starts it again.  Its reader gets every
\* byte at most once, in order and in buffers without gaps; without interrupts
\* inside of push it gets every byte, but for those that a receive error or the
\* abort of a transmission that hangs or is in its last millisecond cut off, and
\* those of buffers that came to a full queue (uart.cpp:112-147).
THEOREM UartAlwaysReceived == Uart!Spec => []UartReceived
<1>1. ASSUME UartInv
      PROVE  UartReceived
  <2> DEFINE g == uRx.read \o uRx.q
             b == uRx.buf
             got == g \o <<b>>
             all == UNION {got[i] : i \in DOMAIN got}
  <2>1. SUFFICES ASSUME ~Uart!Exposed
                 PROVE  /\ uRx.ok /\ (uRx.on \/ uPc = "listen")
                        /\ \A i, j \in DOMAIN got : i < j => \A m \in got[i], n \in got[j] : m < n
                        /\ \A i \in DOMAIN got : \A m, n \in got[i] : m .. n \subseteq got[i]
                        /\ ~uEnv.preempt => 1 .. uRx.came \subseteq all \cup uRx.excused
    BY DEF UartReceived, Uart!Received
  <2>2. /\ UartHeard(g, b, uRx.came) /\ uRx.ok /\ (uRx.on \/ uPc = "listen") /\ b \in SUBSET Nat
        /\ ~uEnv.preempt => UartAllOf(g, b, uRx.came, uRx.excused)
    BY <1>1, <2>1 DEF UartInv, UartHearing, UartListens, UartCovers, UartRX
  <2> HIDE DEF g, b
  <2>3. g \in Seq(SUBSET Nat)
    BY <2>2 DEF UartHeard
  <2>4. got = Append(g, b)
    BY <2>2, <2>3
  <2> HIDE DEF got
  <2>5. UartHeard(got, {}, uRx.came) /\ (~uEnv.preempt => UartAllOf(got, {}, uRx.came, uRx.excused))
    BY <2>2, <2>4, UartHanded
  <2>6. /\ \A i, j \in DOMAIN got : i < j => \A m \in got[i], n \in got[j] : m < n
        /\ \A i \in DOMAIN got : \A m, n \in got[i] : m .. n \subseteq got[i]
    BY <2>5 DEF UartHeard
  <2>7. ~uEnv.preempt => 1 .. uRx.came \subseteq all \cup uRx.excused
    BY <2>5 DEF UartAllOf
  <2> QED BY <2>2, <2>6, <2>7
<1> QED BY <1>1, UartInvariant, PTL

(***************************************************************************)
(* Log                                                                     *)
(***************************************************************************)

LogPiece == [what : {"color", "filled"}, len : Nat]
            \cup [what : {"text"}, msg : Nat, len : Nat]

\* What BufferedLogger works on, and a Logger's sink and buffer.
LogObject == [out : Seq(Seq(LogPiece)), buf : Seq(LogPiece), ok : BOOLEAN]

Flat(seqs) == Lg!FlattenSeq(seqs)

LEMMA FlatIs == \A seqs : Flat(seqs) = SeqExt!FlattenSeq(seqs)
BY DEF Flat, Lg!FlattenSeq, SeqExt!FlattenSeq

LEMMA PieceLength == \A p \in LogPiece : p.len \in Nat
BY DEF LogPiece

\* The length of a sequence of pieces, piece by piece.
Lengths(s, g) == /\ g \in [0 .. Len(s) -> Nat] /\ g[0] = 0
                 /\ \A n \in 1 .. Len(s) : g[n] = g[n - 1] + s[n].len

LEMMA LengthIs ==
  ASSUME NEW s \in Seq(LogPiece), NEW g, Lengths(s, g)
  PROVE  Lg!Length(s) = g[Len(s)]
<1> DEFINE L == Len(s)
           F(f) == f = [n \in 0 .. L |-> IF n = 0 THEN 0 ELSE f[n - 1] + s[n].len]
           u == CHOOSE f : F(f)
<1>0. L \in Nat
  OBVIOUS
<1>1. F(g)
  <2>1. \A n \in 0 .. L : n # 0 => n \in 1 .. L
    BY <1>0
  <2>2. \A n \in 0 .. L : g[n] = IF n = 0 THEN 0 ELSE g[n - 1] + s[n].len
    BY <2>1, Zenon DEF Lengths
  <2>3. g = [n \in 0 .. L |-> g[n]]
    BY DEF Lengths
  <2> QED BY <2>2, <2>3, Zenon
<1>2. F(u)
  <2> HIDE DEF F
  <2> QED BY <1>1
<1>3. Lg!Length(s) = u[L]
  BY Zenon DEF Lg!Length
<1> HIDE DEF u
<1>4. \A n \in 0 .. L : u[n] = IF n = 0 THEN 0 ELSE u[n - 1] + s[n].len
  <2>1. u = [n \in 0 .. L |-> IF n = 0 THEN 0 ELSE u[n - 1] + s[n].len]
    BY <1>2
  <2> SUFFICES ASSUME NEW n \in 0 .. L PROVE u[n] = IF n = 0 THEN 0 ELSE u[n - 1] + s[n].len
    OBVIOUS
  <2> QED BY <2>1, Zenon
<1> DEFINE T == {n \in 0 .. L : u[n] = g[n]}
<1>5. 0 \in T
  <2>1. 0 \in 0 .. L
    BY <1>0
  <2> QED BY <1>4, <2>1 DEF Lengths
<1>6. ASSUME NEW n \in 1 .. L, n - 1 \in T PROVE n \in T
  <2>1. n \in 0 .. L /\ n # 0
    BY <1>0
  <2>2. u[n] = u[n - 1] + s[n].len /\ g[n] = g[n - 1] + s[n].len /\ u[n - 1] = g[n - 1]
    BY <1>4, <1>6, <2>1 DEF Lengths
  <2> QED BY <2>1, <2>2
<1> HIDE DEF T
<1>7. \A n \in 0 .. L : n \in T
  BY <1>0, <1>5, <1>6, UpTo
<1>8. L \in T
  BY <1>0, <1>7
<1> QED BY <1>3, <1>8 DEF T

LEMMA LengthExists ==
  ASSUME NEW s \in Seq(LogPiece)
  PROVE  \E g : Lengths(s, g)
<1> DEFINE L == Len(s)
           f == [n \in 1 .. L |-> [x \in Nat |-> x + s[n].len]]
<1>1. L \in Nat /\ \A n \in 1 .. L : s[n].len \in Nat
  BY PieceLength
<1>2. Steps(L, Nat, f)
  BY <1>1 DEF Steps
<1>3. \A n \in 1 .. L, x \in Nat : f[n][x] = x + s[n].len
  OBVIOUS
<1> HIDE DEF f, L
<1>4. PICK g : Walk(L, Nat, 0, f, g)
  BY <1>1, <1>2, StepsTaken
<1>5. ASSUME NEW n \in 1 .. L PROVE g[n] = g[n - 1] + s[n].len
  <2>1. n - 1 \in 0 .. L
    BY <1>1
  <2>2. g[n - 1] \in Nat
    BY <1>4, <2>1 DEF Walk
  <2> QED BY <1>3, <1>4, <2>2 DEF Walk
<1> QED BY <1>4, <1>5 DEF Walk, Lengths, L

LEMMA LengthNone == Lg!Length(<< >>) = 0
<1> DEFINE e == << >>
<1>1. e \in Seq(LogPiece) /\ Len(e) = 0
  OBVIOUS
<1> HIDE DEF e
<1>2. PICK g : Lengths(e, g)
  BY <1>1, LengthExists
<1>3. Lg!Length(e) = g[Len(e)]
  BY <1>1, <1>2, LengthIs
<1> QED BY <1>1, <1>2, <1>3 DEF Lengths, e

LEMMA LengthAppend ==
  ASSUME NEW s \in Seq(LogPiece), NEW p \in LogPiece
  PROVE  Lg!Length(s) \in Nat /\ Lg!Length(Append(s, p)) = Lg!Length(s) + p.len
<1> DEFINE a == Append(s, p)
           L == Len(s)
<1>1. PICK g : Lengths(s, g)
  BY LengthExists
<1>2. /\ a \in Seq(LogPiece) /\ Len(a) = L + 1 /\ L \in Nat /\ a[L + 1] = p
      /\ \A n \in 1 .. L : a[n] = s[n]
  BY AppendProperties
<1> HIDE DEF a
<1>3. PICK h : Lengths(a, h)
  BY <1>2, LengthExists
<1>4. Lg!Length(s) = g[L] /\ Lg!Length(a) = h[L + 1]
  BY <1>1, <1>2, <1>3, LengthIs
<1> DEFINE T == {n \in 0 .. L : h[n] = g[n]}
<1>5. 0 \in T
  <2>1. 0 \in 0 .. L
    BY <1>2
  <2> QED BY <1>1, <1>3, <2>1 DEF Lengths
<1>6. ASSUME NEW n \in 1 .. L, n - 1 \in T PROVE n \in T
  <2>1. n \in 0 .. L /\ n \in 1 .. Len(a) /\ n \in 1 .. Len(s)
    BY <1>2
  <2>2. h[n] = h[n - 1] + a[n].len /\ g[n] = g[n - 1] + s[n].len
    BY <1>1, <1>3, <2>1 DEF Lengths
  <2> QED BY <1>2, <1>6, <2>1, <2>2
<1> HIDE DEF T
<1>7. \A n \in 0 .. L : n \in T
  BY <1>2, <1>5, <1>6, UpTo
<1>8. h[L] = g[L]
  <2>1. L \in T
    BY <1>2, <1>7
  <2> QED BY <2>1 DEF T
<1>9. h[L + 1] = h[L] + p.len
  <2>1. L + 1 \in 1 .. Len(a) /\ (L + 1) - 1 = L
    BY <1>2
  <2> QED BY <1>2, <1>3, <2>1 DEF Lengths
<1>10. g[L] \in Nat
  <2>1. L \in 0 .. L
    BY <1>2
  <2> QED BY <1>1, <2>1 DEF Lengths
<1> QED BY <1>4, <1>8, <1>9, <1>10 DEF a

\* The pieces of a message: its text, alone or between two colors.
IsMessage(pieces, n) ==
  /\ pieces \in Seq(LogPiece)
  /\ \E i \in 1 .. Len(pieces) : pieces[i].len = n
  /\ Lg!Length(pieces) \in Nat /\ Lg!Length(pieces) <= 2 * LogColor + n

LEMMA LogPieces ==
  ASSUME NEW k \in Nat, NEW n \in Nat, NEW c \in BOOLEAN
  PROVE  IsMessage(Lg!Pieces(k, n, c), n)
<1> DEFINE pieces == Lg!Pieces(k, n, c)
           text == [what |-> "text", msg |-> k, len |-> n]
           color == [what |-> "color", len |-> LogColor]
           e == << >>
           s1 == Append(e, color)
           s2 == Append(s1, text)
           s3 == Append(s2, color)
           t1 == Append(e, text)
<1>1. text \in LogPiece /\ color \in LogPiece /\ text.len = n /\ color.len = LogColor /\ LogColor \in Nat
  BY BusesAssumption DEF LogPiece
<1>2. pieces = s3 \/ pieces = t1
  <2>1. CASE c \/ gEnv.buffered
    <3>1. pieces = <<color>> \o <<text>> \o <<color>>
      BY <2>1, Zenon DEF Lg!Pieces
    <3> HIDE DEF text, color
    <3>2. <<color>> \o <<text>> \o <<color>> = s3
      OBVIOUS
    <3> QED BY <3>1, <3>2
  <2>2. CASE ~(c \/ gEnv.buffered)
    <3>1. pieces = << >> \o <<text>> \o << >>
      BY <2>2, Zenon DEF Lg!Pieces
    <3> HIDE DEF text
    <3>2. << >> \o <<text>> \o << >> = t1
      OBVIOUS
    <3> QED BY <3>1, <3>2
  <2> QED BY <2>1, <2>2
<1> HIDE DEF text, color, pieces
<1>3. /\ e \in Seq(LogPiece) /\ s1 \in Seq(LogPiece) /\ s2 \in Seq(LogPiece) /\ s3 \in Seq(LogPiece)
      /\ t1 \in Seq(LogPiece)
  BY <1>1
<1>4. /\ Len(s3) = 3 /\ s3[2] = text /\ Len(t1) = 1 /\ t1[1] = text
  BY <1>1
<1> HIDE DEF e
<1>5. Lg!Length(e) = 0
  BY LengthNone DEF e
<1>6. Lg!Length(s1) = LogColor /\ Lg!Length(t1) = n
  BY <1>1, <1>3, <1>5, LengthAppend
<1> HIDE DEF s1, t1
<1>7. Lg!Length(s2) = LogColor + n
  BY <1>1, <1>3, <1>6, LengthAppend
<1> HIDE DEF s2
<1>8. Lg!Length(s3) = LogColor + n + LogColor
  BY <1>1, <1>3, <1>7, LengthAppend
<1> HIDE DEF s3
<1>9. CASE pieces = s3
  <2>1. 2 \in 1 .. Len(pieces) /\ pieces[2] = text
    BY <1>4, <1>9
  <2>2. pieces[2].len = n
    BY <1>1, <2>1, Zenon
  <2> QED BY <1>1, <1>3, <1>8, <1>9, <2>1, <2>2, SMTT(60) DEF IsMessage, pieces
<1>10. CASE pieces = t1
  <2>1. 1 \in 1 .. Len(pieces) /\ pieces[1].len = n
    BY <1>1, <1>4, <1>10, SMTT(60)
  <2> QED BY <1>1, <1>3, <1>6, <1>10, <2>1 DEF IsMessage, pieces
<1> QED BY <1>2, <1>9, <1>10

\* What is written and what was there before is all in the sink and in buf; or
\* push failed, as the sink was full.
LogGood(s, h, w) ==
  /\ Len(s.out) <= LogQSize
  /\ \/ ~s.ok /\ Len(s.out) = LogQSize /\ s.buf # << >>
     \/ s.ok /\ Lg!Length(s.buf) < LogMAXLEN /\ (h \o Flat(s.out)) \o s.buf = w

LEMMA FlatGrown ==
  ASSUME NEW h \in Seq(LogPiece), NEW seqs \in Seq(Seq(LogPiece)), NEW b \in Seq(LogPiece)
  PROVE  /\ Flat(seqs) \in Seq(LogPiece) /\ h \o Flat(seqs) \in Seq(LogPiece)
         /\ Append(seqs, b) \in Seq(Seq(LogPiece))
         /\ h \o Flat(Append(seqs, b)) = (h \o Flat(seqs)) \o b
         /\ Len(Append(seqs, b)) = Len(seqs) + 1
<1> DEFINE f == Flat(seqs)
           a == Append(seqs, b)
<1>1. f \in Seq(LogPiece) /\ a \in Seq(Seq(LogPiece)) /\ Flat(a) = f \o b
  BY FlattenAppend, FlatIs
<1>2. Len(a) = Len(seqs) + 1
  BY AppendProperties
<1> HIDE DEF f, a
<1>3. h \o f \in Seq(LogPiece)
  BY <1>1, ConcatProperties
<1>4. \A s, t, u \in Seq(LogPiece) : (s \o t) \o u = s \o (t \o u)
  BY ConcatAssoc, SMTT(60)
<1>5. (h \o f) \o b = h \o (f \o b)
  BY <1>1, <1>4, Zenon
<1> QED BY <1>1, <1>2, <1>3, <1>5 DEF f, a

\* buf is handed over, when the sink has room.
LEMMA LogFlushed ==
  ASSUME NEW s \in LogObject, NEW h \in Seq(LogPiece), NEW w, LogGood(s, h, w), NEW t, t = Lg!Flushed(s)
  PROVE  /\ t \in LogObject /\ LogGood(t, h, w)
         /\ t.ok => t.buf = << >>
<1>1. /\ s.out \in Seq(Seq(LogPiece)) /\ s.buf \in Seq(LogPiece) /\ s.ok \in BOOLEAN
      /\ Len(s.out) \in Nat /\ LogQSize \in Nat
  BY BusesAssumption DEF LogObject
<1>2. CASE s.buf = << >>
  <2>1. t = s
    BY <1>2, Zenon DEF Lg!Flushed
  <2> QED BY <1>2, <2>1
<1>3. CASE s.buf # << >> /\ Len(s.out) = LogQSize
  <2>1. t = [s EXCEPT !.ok = FALSE]
    BY <1>3 DEF Lg!Flushed
  <2>2. t \in LogObject /\ t.out = s.out /\ t.buf = s.buf /\ ~t.ok
    BY <2>1 DEF LogObject
  <2> QED BY <1>1, <1>3, <2>2 DEF LogGood
<1>4. CASE s.buf # << >> /\ Len(s.out) # LogQSize
  <2> DEFINE a == Append(s.out, s.buf)
  <2>1. t = [s EXCEPT !.out = a, !.buf = << >>]
    BY <1>4 DEF Lg!Flushed
  <2>2. a \in Seq(Seq(LogPiece)) /\ Len(a) = Len(s.out) + 1 /\ h \o Flat(a) = (h \o Flat(s.out)) \o s.buf
        /\ h \o Flat(a) \in Seq(LogPiece)
    <3>1. a \in Seq(Seq(LogPiece)) /\ Len(a) = Len(s.out) + 1 /\ h \o Flat(a) = (h \o Flat(s.out)) \o s.buf
      BY <1>1, FlatGrown
    <3> HIDE DEF a
    <3> QED BY <3>1, FlatGrown
  <2> HIDE DEF a
  <2>3. t \in LogObject /\ t.out = a /\ t.buf = << >> /\ t.ok = s.ok
    <3>1. << >> \in Seq(LogPiece)
      OBVIOUS
    <3> QED BY <1>1, <2>1, <2>2, <3>1 DEF LogObject
  <2>4. s.ok /\ (h \o Flat(s.out)) \o s.buf = w /\ Len(s.out) <= LogQSize
    BY <1>4 DEF LogGood
  <2>5. (h \o Flat(a)) \o << >> = h \o Flat(a)
    BY <2>2, ConcatEmptySeq
  <2>6. Len(a) <= LogQSize /\ Lg!Length(<< >>) < LogMAXLEN
    BY <1>1, <1>4, <2>2, <2>4, LengthNone, BusesAssumption
  <2> QED BY <2>2, <2>3, <2>4, <2>5, <2>6 DEF LogGood
<1> QED BY <1>2, <1>3, <1>4

\* A piece is written; a piece that fits into buf leaves all that was written there.
LEMMA LogWritten ==
  ASSUME NEW s \in LogObject, NEW p \in LogPiece, NEW x, x = Lg!Written(s, p),
         NEW h \in Seq(LogPiece), NEW w \in Seq(LogPiece), LogGood(s, h, w), p.len < LogMAXLEN
  PROVE  x \in LogObject /\ LogGood(x, h, Append(w, p))
<1> DEFINE t == IF p.len >= LogMAXLEN - Lg!Length(s.buf) THEN Lg!Flushed(s) ELSE s
<1>1. x = [t EXCEPT !.buf = Append(@, p)]
  BY DEF Lg!Written
<1>2. /\ LogMAXLEN \in Nat /\ p.len \in Nat /\ Lg!Length(s.buf) \in Nat
      /\ s.out \in Seq(Seq(LogPiece)) /\ s.buf \in Seq(LogPiece)
  <2>1. s.buf \in Seq(LogPiece) /\ s.out \in Seq(Seq(LogPiece))
    BY DEF LogObject
  <2> QED BY <2>1, PieceLength, LengthAppend, BusesAssumption
<1>3. t \in LogObject /\ LogGood(t, h, w) /\ (t.ok => Lg!Length(t.buf) + p.len < LogMAXLEN)
  <2>1. CASE p.len >= LogMAXLEN - Lg!Length(s.buf)
    <3>1. t = Lg!Flushed(s)
      BY <2>1
    <3> HIDE DEF t
    <3>2. t \in LogObject /\ LogGood(t, h, w) /\ (t.ok => t.buf = << >>)
      BY <3>1, LogFlushed
    <3>3. t.ok => Lg!Length(t.buf) = 0
      BY <3>2, LengthNone
    <3> QED BY <1>2, <3>2, <3>3
  <2>2. CASE ~(p.len >= LogMAXLEN - Lg!Length(s.buf))
    <3>1. t = s
      BY <2>2
    <3> HIDE DEF t
    <3> QED BY <1>2, <2>2, <3>1
  <2> QED BY <2>1, <2>2
<1> HIDE DEF t
<1>4. t.out \in Seq(Seq(LogPiece)) /\ t.buf \in Seq(LogPiece) /\ t.ok \in BOOLEAN
  BY <1>3 DEF LogObject
<1> DEFINE a == Append(t.buf, p)
<1>5. /\ a \in Seq(LogPiece) /\ a # << >> /\ Lg!Length(a) = Lg!Length(t.buf) + p.len
      /\ Lg!Length(t.buf) \in Nat
  <2>1. a \in Seq(LogPiece) /\ a # << >>
    BY <1>4, AppendProperties
  <2> QED BY <1>4, <2>1, LengthAppend
<1>6. (h \o Flat(t.out)) \o a = Append((h \o Flat(t.out)) \o t.buf, p)
  <2> DEFINE b == h \o Flat(t.out)
             c == t.buf
  <2>1. b \in Seq(LogPiece) /\ c \in Seq(LogPiece)
    BY <1>4, FlatGrown
  <2> HIDE DEF b, c
  <2>2. b \o Append(c, p) = Append(b \o c, p)
    BY <2>1
  <2> QED BY <2>2 DEF b, c
<1> HIDE DEF a
<1>7. x \in LogObject /\ x.out = t.out /\ x.buf = a /\ x.ok = t.ok
  <2>1. x = [t EXCEPT !.buf = a]
    BY <1>1 DEF a
  <2> QED BY <1>3, <1>4, <1>5, <2>1 DEF LogObject
<1> QED BY <1>2, <1>3, <1>5, <1>6, <1>7 DEF LogGood

LEMMA LogFlushedType ==
  ASSUME NEW s \in LogObject
  PROVE  Lg!Flushed(s) \in LogObject
<1>1. /\ s.out \in Seq(Seq(LogPiece)) /\ s.buf \in Seq(LogPiece) /\ s.ok \in BOOLEAN
      /\ << >> \in Seq(LogPiece)
  BY DEF LogObject
<1>2. Append(s.out, s.buf) \in Seq(Seq(LogPiece))
  BY <1>1, AppendProperties
<1>3. CASE s.buf = << >>
  BY <1>3, Zenon DEF Lg!Flushed
<1>4. CASE s.buf # << >> /\ Len(s.out) = LogQSize
  BY <1>1, <1>4 DEF Lg!Flushed, LogObject
<1>5. CASE s.buf # << >> /\ Len(s.out) # LogQSize
  BY <1>1, <1>2, <1>5 DEF Lg!Flushed, LogObject
<1> QED BY <1>3, <1>4, <1>5

LEMMA LogWrittenType ==
  ASSUME NEW s \in LogObject, NEW p \in LogPiece
  PROVE  Lg!Written(s, p) \in LogObject
<1> DEFINE f == Lg!Flushed(s)
           t == IF p.len >= LogMAXLEN - Lg!Length(s.buf) THEN f ELSE s
<1>1. t \in LogObject
  BY LogFlushedType
<1>2. Lg!Written(s, p) = [t EXCEPT !.buf = Append(@, p)]
  BY DEF Lg!Written
<1> HIDE DEF t
<1>3. Append(t.buf, p) \in Seq(LogPiece)
  BY <1>1, AppendProperties DEF LogObject
<1> QED BY <1>1, <1>2, <1>3 DEF LogObject

\* All pieces of a message are written one after the other: what mklog leaves
\* is what u has at the end.
LEMMA LogLoop ==
  ASSUME NEW pieces \in Seq(LogPiece), Lg!mklogBuffered(pieces),
         gOut \in Seq(Seq(LogPiece)), gBuf \in Seq(LogPiece)
  PROVE  \E u : LET L == Len(pieces) IN
           /\ u \in [0 .. L -> LogObject]
           /\ u[0] = [out |-> gOut, buf |-> gBuf, ok |-> TRUE]
           /\ \A n \in 1 .. L : u[n] = Lg!Written(u[n - 1], pieces[n])
           /\ gOut' = u[L].out /\ gBuf' = u[L].buf
           /\ gState' = IF u[L].ok /\ Lg!Length(u[L].buf) < LogMAXLEN THEN "idle" ELSE "failed"
<1> DEFINE L == Len(pieces)
           s == [out |-> gOut, buf |-> gBuf, ok |-> TRUE]
           F(f) == f = [n \in 0 .. L |-> IF n = 0 THEN s ELSE Lg!Written(f[n - 1], pieces[n])]
           u == CHOOSE f : F(f)
           step == [n \in 1 .. L |-> [x \in LogObject |-> Lg!Written(x, pieces[n])]]
<1>1. L \in Nat /\ s \in LogObject /\ \A n \in 1 .. L : pieces[n] \in LogPiece
  BY DEF LogObject
<1>2. gOut' = u[L].out /\ gBuf' = u[L].buf
      /\ gState' = IF u[L].ok /\ Lg!Length(u[L].buf) < LogMAXLEN THEN "idle" ELSE "failed"
  BY Zenon DEF Lg!mklogBuffered
<1>3. Steps(L, LogObject, step)
  BY <1>1, LogWrittenType DEF Steps
<1>4. \A n \in 1 .. L, x \in LogObject : step[n][x] = Lg!Written(x, pieces[n])
  OBVIOUS
<1> HIDE DEF step, s, L
<1>5. PICK g : Walk(L, LogObject, s, step, g)
  BY <1>1, <1>3, StepsTaken
<1>6. F(g)
  <2>1. g \in [0 .. L -> LogObject] /\ g[0] = s
    BY <1>5 DEF Walk
  <2>2. \A n \in 0 .. L : g[n] = IF n = 0 THEN s ELSE Lg!Written(g[n - 1], pieces[n])
    <3> SUFFICES ASSUME NEW n \in 0 .. L PROVE g[n] = IF n = 0 THEN s ELSE Lg!Written(g[n - 1], pieces[n])
      OBVIOUS
    <3>1. CASE n = 0
      BY <2>1, <3>1
    <3>2. CASE n # 0
      <4>1. n \in 1 .. L /\ n - 1 \in 0 .. L
        BY <1>1, <3>2
      <4>2. g[n] = step[n][g[n - 1]] /\ g[n - 1] \in LogObject
        BY <1>5, <4>1 DEF Walk
      <4> QED BY <1>4, <3>2, <4>1, <4>2
    <3> QED BY <3>1, <3>2
  <2>3. g = [n \in 0 .. L |-> g[n]]
    BY <2>1
  <2> QED BY <2>2, <2>3, Zenon
<1>7. F(u)
  <2> HIDE DEF F
  <2> QED BY <1>6
<1> HIDE DEF u
<1>8. \A n \in 0 .. L : u[n] = IF n = 0 THEN s ELSE Lg!Written(u[n - 1], pieces[n])
  <2>1. u = [n \in 0 .. L |-> IF n = 0 THEN s ELSE Lg!Written(u[n - 1], pieces[n])]
    BY <1>7
  <2> SUFFICES ASSUME NEW n \in 0 .. L PROVE u[n] = IF n = 0 THEN s ELSE Lg!Written(u[n - 1], pieces[n])
    OBVIOUS
  <2> QED BY <2>1, Zenon
<1>9. u[0] = s /\ \A n \in 1 .. L : u[n] = Lg!Written(u[n - 1], pieces[n])
  <2>1. 0 \in 0 .. L /\ \A n \in 1 .. L : n \in 0 .. L /\ n # 0
    BY <1>1
  <2> QED BY <1>8, <2>1, Zenon
<1>10. u \in [0 .. L -> LogObject]
  <2> DEFINE T == {n \in 0 .. L : u[n] \in LogObject}
  <2>1. 0 \in T
    BY <1>1, <1>9
  <2>2. ASSUME NEW n \in 1 .. L, n - 1 \in T PROVE n \in T
    <3>1. n \in 0 .. L /\ u[n - 1] \in LogObject /\ pieces[n] \in LogPiece
      BY <1>1, <2>2
    <3>2. u[n] \in LogObject
      BY <1>9, <3>1, LogWrittenType
    <3> QED BY <3>1, <3>2
  <2> HIDE DEF T
  <2>3. \A n \in 0 .. L : n \in T
    BY <1>1, <2>1, <2>2, UpTo, ZenonT(60)
  <2>4. \A n \in 0 .. L : u[n] \in LogObject
    BY <2>3 DEF T
  <2>5. u = [n \in 0 .. L |-> u[n]]
    <3>1. u = [n \in 0 .. L |-> IF n = 0 THEN s ELSE Lg!Written(u[n - 1], pieces[n])]
      BY <1>7
    <3> QED BY <1>8, <3>1, ZenonT(60)
  <2> QED BY <2>4, <2>5
<1> QED BY <1>2, <1>9, <1>10 DEF s, L

\* When each of the pieces fits into buf, all of them are in the sink and in
\* buf, or push failed.
LEMMA LogAllWritten ==
  ASSUME NEW pieces \in Seq(LogPiece), Lg!mklogBuffered(pieces),
         gOut \in Seq(Seq(LogPiece)), gBuf \in Seq(LogPiece), gHeard \in Seq(LogPiece),
         NEW w \in Seq(LogPiece), (gHeard \o Flat(gOut)) \o gBuf = w,
         Len(gOut) <= LogQSize, Lg!Length(gBuf) < LogMAXLEN,
         \A i \in 1 .. Len(pieces) : pieces[i].len < LogMAXLEN
  PROVE  \/ gState' = "failed" /\ Len(gOut') = LogQSize
         \/ /\ gState' = "idle" /\ Lg!Length(gBuf') < LogMAXLEN /\ Len(gOut') <= LogQSize
            /\ (gHeard \o Flat(gOut')) \o gBuf' = w \o pieces
<1> DEFINE L == Len(pieces)
<1>1. PICK u : /\ u \in [0 .. L -> LogObject]
               /\ u[0] = [out |-> gOut, buf |-> gBuf, ok |-> TRUE]
               /\ \A n \in 1 .. L : u[n] = Lg!Written(u[n - 1], pieces[n])
               /\ gOut' = u[L].out /\ gBuf' = u[L].buf
               /\ gState' = IF u[L].ok /\ Lg!Length(u[L].buf) < LogMAXLEN THEN "idle" ELSE "failed"
  BY LogLoop
<1>2. /\ L \in Nat /\ \A i \in 1 .. L : pieces[i] \in LogPiece /\ pieces[i].len < LogMAXLEN
  OBVIOUS
<1> DEFINE said(n) == w \o SubSeq(pieces, 1, n)
           T == {n \in 0 .. L : LogGood(u[n], gHeard, said(n))}
<1>3. 0 \in T
  <2>1. u[0].out = gOut /\ u[0].buf = gBuf /\ u[0].ok
    BY <1>1
  <2>2. said(0) = w
    <3>1. SubSeq(pieces, 1, 0) = << >>
      OBVIOUS
    <3> QED BY <3>1, ConcatEmptySeq
  <2> HIDE DEF said
  <2>3. LogGood(u[0], gHeard, said(0))
    BY <2>1, <2>2 DEF LogGood
  <2> QED BY <1>2, <2>3
<1>4. ASSUME NEW n \in 1 .. L, n - 1 \in T PROVE n \in T
  <2>1. /\ n - 1 \in 0 .. L /\ n \in 0 .. L /\ LogGood(u[n - 1], gHeard, said(n - 1))
        /\ u[n - 1] \in LogObject /\ u[n] = Lg!Written(u[n - 1], pieces[n])
    BY <1>1, <1>2, <1>4
  <2> DEFINE p == SubSeq(pieces, 1, n - 1)
             r == SubSeq(pieces, 1, n)
  <2>2. p \in Seq(LogPiece) /\ r = Append(p, pieces[n])
    BY <1>2
  <2> HIDE DEF p, r
  <2>3. w \o p \in Seq(LogPiece) /\ w \o Append(p, pieces[n]) = Append(w \o p, pieces[n])
    BY <1>2, <2>2, SMTT(60)
  <2>4. LogGood(u[n], gHeard, Append(w \o p, pieces[n]))
    BY <1>2, <2>1, <2>3, LogWritten DEF p
  <2>5. said(n) = Append(w \o p, pieces[n])
    BY <2>2, <2>3 DEF r
  <2> QED BY <2>1, <2>4, <2>5
<1> HIDE DEF T
<1>5. L \in T
  <2>1. \A n \in 0 .. L : n \in T
    BY <1>2, <1>3, <1>4, UpTo
  <2> QED BY <1>2, <2>1
<1>6. LogGood(u[L], gHeard, w \o pieces)
  <2>1. SubSeq(pieces, 1, L) = pieces
    OBVIOUS
  <2> QED BY <1>5, <2>1 DEF T
<1> QED BY <1>1, <1>6 DEF LogGood

LogTypes ==
  /\ gEnv \in [buffered : BOOLEAN, drained : {"interrupt", "main"}]
  /\ gOut \in Seq(Seq(LogPiece)) /\ gBuf \in Seq(LogPiece)
  /\ gState \in {"idle", "spin", "failed"}
  /\ gSaid \in Seq(LogPiece) /\ gHeard \in Seq(LogPiece)

\* All that was logged is on its way, and a BufferedLogger has room for the
\* terminating zero; a Logger's buffer is empty unless it waits.
LogWhole ==
  /\ gState # "failed" /\ Len(gOut) <= LogQSize
  /\ (gHeard \o Flat(gOut)) \o gBuf = gSaid
  /\ gEnv.buffered => gState = "idle" /\ Lg!Length(gBuf) < LogMAXLEN
  /\ ~gEnv.buffered /\ gState = "idle" => gBuf = << >>

LogExcused == \/ Lg!TooLong \/ Lg!PastBuf
              \/ gState = "failed" /\ gEnv.buffered /\ Len(gOut) = LogQSize

LogInv == LogTypes /\ (LogExcused \/ LogWhole)

LEMMA LogImplies == LogInv => LogHeard
<1> SUFFICES ASSUME LogInv PROVE LogHeard
  OBVIOUS
<1>1. LogExcused \/ (gState # "failed" /\ (gHeard \o Flat(gOut)) \o gBuf = gSaid)
  BY DEF LogInv, LogWhole
<1>2. LogExcused => LogHeard
  BY DEF LogExcused, LogHeard, Lg!Heard, Lg!full
<1>3. ASSUME gState # "failed", (gHeard \o Flat(gOut)) \o gBuf = gSaid
      PROVE  LogHeard
  BY <1>3, Zenon DEF LogHeard, Lg!Heard, Flat
<1> QED BY <1>1, <1>2, <1>3

LEMMA LogStart == Lg!Init => LogInv
<1> SUFFICES ASSUME Lg!Init PROVE LogInv
  OBVIOUS
<1> USE DEF Lg!Init
<1>1. LogTypes
  BY DEF LogTypes
<1>2. Flat(<< >>) = << >>
  BY FlattenNone, FlatIs
<1>3. LogWhole
  <2>1. (gHeard \o Flat(gOut)) \o gBuf = gSaid
    <3>1. << >> \o << >> = << >>
      OBVIOUS
    <3> QED BY <1>2, <3>1
  <2>2. Lg!Length(gBuf) < LogMAXLEN /\ Len(gOut) <= LogQSize
    BY LengthNone, BusesAssumption
  <2> QED BY <2>1, <2>2 DEF LogWhole
<1> QED BY <1>1, <1>3 DEF LogInv

\* What was too long, or a filled buffer, is so for ever.
LEMMA LogSaidMore ==
  ASSUME LogTypes, NEW more \in Seq(LogPiece), gSaid' = gSaid \o more, UNCHANGED gEnv
  PROVE  /\ gSaid' \in Seq(LogPiece)
         /\ Lg!TooLong => Lg!TooLong'
         /\ Lg!PastBuf => Lg!PastBuf'
         /\ (~Lg!TooLong') => \A i \in 1 .. Len(more) :
              more[i].len + (IF gEnv.buffered THEN 0 ELSE 2 * LogColor) < LogMAXLEN
         /\ \A i \in 1 .. Len(more) : gEnv.buffered /\ more[i].what = "filled" => Lg!PastBuf'
<1>1. gSaid \in Seq(LogPiece) /\ Len(gSaid) \in Nat /\ Len(more) \in Nat
  BY DEF LogTypes
<1>2. gSaid' \in Seq(LogPiece) /\ Len(gSaid') = Len(gSaid) + Len(more)
  BY <1>1, ConcatProperties
<1>3. ASSUME NEW i \in 1 .. Len(gSaid) PROVE i \in DOMAIN gSaid' /\ gSaid'[i] = gSaid[i]
  <2>1. i \in 1 .. Len(gSaid) + Len(more) /\ i <= Len(gSaid)
    BY <1>1
  <2> QED BY <1>1, <1>2, <2>1, ConcatProperties
<1>4. ASSUME NEW i \in 1 .. Len(more)
      PROVE  /\ i + Len(gSaid) \in DOMAIN gSaid' /\ gSaid'[i + Len(gSaid)] = more[i]
             /\ more[i].len \in Nat
  <2>1. i + Len(gSaid) \in 1 .. Len(gSaid) + Len(more) /\ ~(i + Len(gSaid) <= Len(gSaid))
        /\ (i + Len(gSaid)) - Len(gSaid) = i
    BY <1>1
  <2>2. gSaid'[i + Len(gSaid)] = more[i]
    BY <1>1, <2>1, ConcatProperties
  <2>3. more[i].len \in Nat
    BY PieceLength
  <2> QED BY <1>2, <2>1, <2>2, <2>3
<1>5. DOMAIN gSaid = 1 .. Len(gSaid)
  BY <1>1
<1> DEFINE e == IF gEnv.buffered THEN 0 ELSE 2 * LogColor
<1>6. e \in Nat /\ LogMAXLEN \in Nat
  BY BusesAssumption
<1>7. /\ Lg!TooLong <=> \E k \in DOMAIN gSaid : gSaid[k].len + e >= LogMAXLEN
      /\ Lg!TooLong' <=> \E k \in DOMAIN gSaid' : gSaid'[k].len + e >= LogMAXLEN
      /\ Lg!PastBuf <=> gEnv.buffered /\ \E k \in DOMAIN gSaid : gSaid[k].what = "filled"
      /\ Lg!PastBuf' <=> gEnv.buffered /\ \E k \in DOMAIN gSaid' : gSaid'[k].what = "filled"
  BY Zenon DEF Lg!TooLong, Lg!PastBuf
<1> HIDE DEF e
<1>8. Lg!TooLong => Lg!TooLong'
  BY <1>3, <1>5, <1>7, Zenon
<1>9. Lg!PastBuf => Lg!PastBuf'
  BY <1>3, <1>5, <1>7, Zenon
<1>10. ASSUME ~Lg!TooLong', NEW i \in 1 .. Len(more) PROVE more[i].len + e < LogMAXLEN
  <2>1. ~(more[i].len + e >= LogMAXLEN)
    BY <1>4, <1>7, <1>10
  <2>2. more[i].len \in Nat
    BY <1>4
  <2> QED BY <1>6, <2>1, <2>2
<1>11. ASSUME NEW i \in 1 .. Len(more), gEnv.buffered, more[i].what = "filled" PROVE Lg!PastBuf'
  BY <1>4, <1>7, <1>11
<1> QED BY <1>2, <1>8, <1>9, <1>10, <1>11 DEF e

\* A message is logged.
LEMMA LogLog ==
  ASSUME LogInv, Lg!log
  PROVE  LogInv'
<1>0. LogTypes /\ gState = "idle" /\ UNCHANGED <<gEnv, gHeard>>
  BY DEF LogInv, Lg!log
<1> DEFINE m == Lg!messages + 1
<1>1. PICK n \in LogTexts, c \in BOOLEAN :
        /\ gSaid' = gSaid \o Lg!Pieces(m, n, c)
        /\ IF gEnv.buffered THEN Lg!mklogBuffered(Lg!Pieces(m, n, c))
                            ELSE Lg!mklogPlain(Lg!Pieces(m, n, c))
  BY Zenon DEF Lg!log
<1> DEFINE pieces == Lg!Pieces(m, n, c)
<1>2. m \in Nat
  <2>1. gSaid \in Seq(LogPiece) /\ IsFiniteSet(1 .. Len(gSaid)) /\ DOMAIN gSaid = 1 .. Len(gSaid)
    <3>1. gSaid \in Seq(LogPiece) /\ Len(gSaid) \in Nat
      BY <1>0 DEF LogTypes
    <3> QED BY <3>1, FS_Interval
  <2> DEFINE K == {k \in DOMAIN gSaid : gSaid[k].what # "color"}
  <2>2. K \in SUBSET (1 .. Len(gSaid))
    BY <2>1
  <2>3. Lg!messages = Cardinality(K)
    BY Zenon DEF Lg!messages, Lg!Cardinality, Cardinality
  <2> HIDE DEF K
  <2>4. Cardinality(K) \in Nat
    BY <2>1, <2>2, FS_Subset, FS_CardinalityType
  <2> QED BY <2>3, <2>4
<1>3. n \in Nat
  BY BusesAssumption
<1>4. /\ pieces \in Seq(LogPiece) /\ \E i \in 1 .. Len(pieces) : pieces[i].len = n
      /\ Lg!Length(pieces) \in Nat /\ Lg!Length(pieces) <= 2 * LogColor + n
  <2> HIDE DEF m
  <2>1. IsMessage(Lg!Pieces(m, n, c), n)
    BY <1>2, <1>3, LogPieces
  <2> QED BY <2>1 DEF IsMessage
<1> HIDE DEF pieces
<1>9. /\ gSaid' = gSaid \o pieces
      /\ IF gEnv.buffered THEN Lg!mklogBuffered(pieces) ELSE Lg!mklogPlain(pieces)
  BY <1>1 DEF pieces
<1>5. /\ gSaid' \in Seq(LogPiece) /\ (Lg!TooLong => Lg!TooLong') /\ (Lg!PastBuf => Lg!PastBuf')
      /\ (~Lg!TooLong') => \A i \in 1 .. Len(pieces) :
              pieces[i].len + (IF gEnv.buffered THEN 0 ELSE 2 * LogColor) < LogMAXLEN
  BY <1>0, <1>9, <1>4, LogSaidMore
<1>6. LogExcused => Lg!TooLong' \/ Lg!PastBuf'
  BY <1>0, <1>5 DEF LogExcused
<1>7. CASE gEnv.buffered
  <2>1. Lg!mklogBuffered(pieces)
    BY <1>9, <1>7
  <2>2. gOut' \in Seq(Seq(LogPiece)) /\ gBuf' \in Seq(LogPiece) /\ gState' \in {"idle", "failed"}
    <3>1. PICK u : LET L == Len(pieces) IN
           /\ u \in [0 .. L -> LogObject]
           /\ gOut' = u[L].out /\ gBuf' = u[L].buf
           /\ gState' = IF u[L].ok /\ Lg!Length(u[L].buf) < LogMAXLEN THEN "idle" ELSE "failed"
      BY <1>0, <1>4, <2>1, LogLoop DEF LogTypes
    <3>2. u[Len(pieces)] \in LogObject
      <4>1. Len(pieces) \in 0 .. Len(pieces)
        BY <1>4
      <4> QED BY <3>1, <4>1
    <3> QED BY <3>1, <3>2 DEF LogObject
  <2>3. LogTypes'
    BY <1>0, <1>5, <2>2 DEF LogTypes
  <2>4. ASSUME ~Lg!TooLong', LogWhole PROVE LogExcused' \/ LogWhole'
    <3>1. \A i \in 1 .. Len(pieces) : pieces[i].len < LogMAXLEN
      <4>1. \A i \in 1 .. Len(pieces) : pieces[i].len \in Nat
        BY <1>4, PieceLength
      <4> QED BY <1>5, <1>7, <2>4, <4>1
    <3>2. \/ gState' = "failed" /\ Len(gOut') = LogQSize
          \/ /\ gState' = "idle" /\ Lg!Length(gBuf') < LogMAXLEN /\ Len(gOut') <= LogQSize
             /\ (gHeard \o Flat(gOut')) \o gBuf' = gSaid \o pieces
      <4>1. /\ gOut \in Seq(Seq(LogPiece)) /\ gBuf \in Seq(LogPiece) /\ gHeard \in Seq(LogPiece)
            /\ gSaid \in Seq(LogPiece)
        BY <1>0 DEF LogTypes
      <4>2. /\ (gHeard \o Flat(gOut)) \o gBuf = gSaid /\ Len(gOut) <= LogQSize
            /\ Lg!Length(gBuf) < LogMAXLEN
        BY <1>7, <2>4 DEF LogWhole
      <4> QED BY <1>4, <2>1, <3>1, <4>1, <4>2, LogAllWritten
    <3>3. CASE gState' = "failed" /\ Len(gOut') = LogQSize
      BY <1>0, <1>7, <3>3 DEF LogExcused
    <3>4. CASE /\ gState' = "idle" /\ Lg!Length(gBuf') < LogMAXLEN /\ Len(gOut') <= LogQSize
               /\ (gHeard \o Flat(gOut')) \o gBuf' = gSaid \o pieces
      <4>1. (gHeard' \o Flat(gOut')) \o gBuf' = gSaid'
        BY <1>0, <1>9, <3>4, Zenon
      <4> QED BY <1>0, <1>7, <3>4, <4>1 DEF LogWhole, Flat
    <3> QED BY <3>2, <3>3, <3>4
  <2>5. LogExcused' \/ LogWhole'
    <3>1. Lg!TooLong' \/ Lg!PastBuf' => LogExcused'
      BY DEF LogExcused
    <3> QED BY <1>6, <2>4, <3>1 DEF LogInv
  <2> QED BY <2>3, <2>5 DEF LogInv
<1>8. CASE ~gEnv.buffered
  <2>1. gBuf' = pieces /\ gOut' = gOut /\ gState' = IF Lg!Length(pieces) < LogMAXLEN THEN "spin" ELSE "failed"
    BY <1>9, <1>8 DEF Lg!mklogPlain
  <2>2. LogTypes'
    BY <1>0, <1>4, <1>5, <2>1 DEF LogTypes
  <2>3. ASSUME ~Lg!TooLong', LogWhole PROVE LogWhole'
    <3>1. Lg!Length(pieces) < LogMAXLEN
      <4>1. n + 2 * LogColor < LogMAXLEN
        BY <1>4, <1>5, <1>8, <2>3
      <4> QED BY <1>3, <1>4, <4>1, BusesAssumption
    <3>2. gBuf = << >> /\ (gHeard \o Flat(gOut)) \o gBuf = gSaid /\ Len(gOut) <= LogQSize
      BY <1>0, <1>8, <2>3 DEF LogWhole
    <3>3. gHeard \o Flat(gOut) \in Seq(LogPiece)
      BY <1>0, FlatGrown DEF LogTypes
    <3>4. gHeard \o Flat(gOut) = gSaid
      BY <3>2, <3>3, ConcatEmptySeq
    <3>5. (gHeard' \o Flat(gOut')) \o gBuf' = gSaid'
      BY <1>0, <1>9, <2>1, <3>4, Zenon
    <3>6. gState' = "spin" /\ Len(gOut') <= LogQSize
      BY <2>1, <3>1, <3>2
    <3> QED BY <1>0, <1>8, <3>5, <3>6 DEF LogWhole, Flat
  <2>4. LogExcused' \/ LogWhole'
    <3>1. Lg!TooLong' \/ Lg!PastBuf' => LogExcused'
      BY DEF LogExcused
    <3> QED BY <1>6, <2>3, <3>1 DEF LogInv
  <2> QED BY <2>2, <2>4 DEF LogInv
<1> QED BY <1>7, <1>8

\* A filled buffer is pushed.
LEMMA LogPush ==
  ASSUME LogInv, Lg!push
  PROVE  LogInv'
<1>0. LogTypes /\ gState = "idle" /\ UNCHANGED <<gEnv, gBuf, gHeard>>
  BY DEF LogInv, Lg!push
<1> DEFINE filled(n) == [what |-> "filled", len |-> n]
<1>1. PICK n \in LogTexts :
        /\ gSaid' = Append(gSaid, filled(n))
        /\ IF Len(gOut) = LogQSize \/ n > LogMAXLEN THEN gState' = "failed" /\ UNCHANGED gOut
           ELSE gOut' = Append(gOut, <<filled(n)>>) /\ UNCHANGED gState
  BY Zenon DEF Lg!push, Lg!full
<1>2. gEnv.buffered \/ Len(gOut) # LogQSize
  BY Zenon DEF Lg!push, Lg!full
<1> DEFINE p == filled(n)
           more == <<p>>
<1>3. n \in Nat /\ p \in LogPiece /\ p.len = n /\ p.what = "filled"
  BY BusesAssumption DEF LogPiece
<1>4. /\ gSaid' = Append(gSaid, p)
      /\ IF Len(gOut) = LogQSize \/ n > LogMAXLEN THEN gState' = "failed" /\ gOut' = gOut
         ELSE gOut' = Append(gOut, more) /\ gState' = gState
  BY <1>1
<1> HIDE DEF p
<1>5. more \in Seq(LogPiece) /\ Len(more) = 1 /\ more[1] = p /\ gSaid' = gSaid \o more
  <2>1. gSaid \in Seq(LogPiece)
    BY <1>0 DEF LogTypes
  <2>2. Append(gSaid, p) = gSaid \o <<p>>
    BY <1>3, <2>1
  <2> QED BY <1>3, <1>4, <2>2
<1> HIDE DEF more
<1>6. /\ gSaid' \in Seq(LogPiece) /\ (Lg!TooLong => Lg!TooLong') /\ (Lg!PastBuf => Lg!PastBuf')
      /\ (~Lg!TooLong') => p.len + (IF gEnv.buffered THEN 0 ELSE 2 * LogColor) < LogMAXLEN
      /\ gEnv.buffered => Lg!PastBuf'
  <2>1. 1 \in 1 .. Len(more) /\ more[1].what = "filled" /\ more[1].len = p.len
    BY <1>3, <1>5
  <2> QED BY <1>0, <1>5, <2>1, LogSaidMore
<1>7. LogTypes'
  <2>1. gOut' \in Seq(Seq(LogPiece)) /\ gState' \in {"idle", "failed"}
    <3>1. gOut \in Seq(Seq(LogPiece)) /\ gState = "idle"
      BY <1>0 DEF LogTypes
    <3>2. Append(gOut, more) \in Seq(Seq(LogPiece))
      BY <1>5, <3>1, AppendProperties
    <3> QED BY <1>4, <3>1, <3>2
  <2> QED BY <1>0, <1>6, <2>1 DEF LogTypes
<1>8. LogExcused => Lg!TooLong' \/ Lg!PastBuf'
  BY <1>0, <1>6 DEF LogExcused
<1>9. ASSUME ~Lg!TooLong', ~gEnv.buffered, LogWhole PROVE LogWhole'
  <2>1. n <= LogMAXLEN /\ Len(gOut) # LogQSize
    BY <1>2, <1>3, <1>6, <1>9, BusesAssumption
  <2>2. gOut' = Append(gOut, more) /\ gState' = "idle"
    BY <1>0, <1>3, <1>4, <2>1, BusesAssumption
  <2>3. /\ gBuf = << >> /\ (gHeard \o Flat(gOut)) \o gBuf = gSaid /\ Len(gOut) <= LogQSize
        /\ gOut \in Seq(Seq(LogPiece)) /\ gHeard \in Seq(LogPiece)
    BY <1>0, <1>9 DEF LogWhole, LogTypes
  <2>4. /\ gHeard \o Flat(gOut) \in Seq(LogPiece)
        /\ gHeard \o Flat(gOut') = (gHeard \o Flat(gOut)) \o more
        /\ Len(gOut') = Len(gOut) + 1
    BY <1>5, <2>2, <2>3, FlatGrown
  <2>5. gHeard \o Flat(gOut') = gSaid'
    <3>1. gHeard \o Flat(gOut) = gSaid
      BY <2>3, <2>4, ConcatEmptySeq
    <3> QED BY <1>5, <2>4, <3>1, Zenon
  <2>6. (gHeard' \o Flat(gOut')) \o gBuf' = gSaid'
    <3>1. gSaid' \o << >> = gSaid'
      BY <1>6, ConcatEmptySeq
    <3> QED BY <1>0, <2>3, <2>5, <3>1, Zenon
  <2>7. Len(gOut') <= LogQSize
    BY <2>1, <2>3, <2>4, BusesAssumption
  <2> QED BY <1>0, <1>9, <2>2, <2>3, <2>6, <2>7 DEF LogWhole, Flat
<1>10. Lg!TooLong' \/ Lg!PastBuf' => LogExcused'
  BY DEF LogExcused
<1> QED BY <1>6, <1>7, <1>8, <1>9, <1>10 DEF LogInv

\* As long as nothing is logged, nothing changes about what was.
LEMMA LogStays ==
  ASSUME LogTypes, UNCHANGED <<gEnv, gSaid>>
  PROVE  (Lg!TooLong => Lg!TooLong') /\ (Lg!PastBuf => Lg!PastBuf')
BY Zenon DEF Lg!TooLong, Lg!PastBuf

LEMMA LogFlush ==
  ASSUME LogInv, Lg!flush
  PROVE  LogInv'
<1>0. LogTypes /\ gState = "idle" /\ gEnv.buffered /\ UNCHANGED <<gEnv, gSaid, gHeard>>
  BY DEF LogInv, Lg!flush
<1> DEFINE s == [out |-> gOut, buf |-> gBuf, ok |-> TRUE]
           t == Lg!Flushed(s)
<1>1. gOut' = t.out /\ gBuf' = t.buf /\ gState' = IF t.ok THEN "idle" ELSE "failed"
  BY Zenon DEF Lg!flush
<1>2. s \in LogObject /\ s.out = gOut /\ s.buf = gBuf /\ s.ok
  BY <1>0 DEF LogTypes, LogObject
<1> HIDE DEF s
<1>3. t \in LogObject
  BY <1>2, LogFlushedType
<1>4. LogTypes'
  BY <1>0, <1>1, <1>3 DEF LogTypes, LogObject
<1>5. ASSUME LogWhole PROVE LogExcused' \/ LogWhole'
  <2>1. LogGood(s, gHeard, gSaid)
    BY <1>0, <1>2, <1>5 DEF LogGood, LogWhole
  <2>2. LogGood(t, gHeard, gSaid)
    BY <1>0, <1>2, <2>1, LogFlushed DEF LogTypes
  <2> HIDE DEF t
  <2>3. CASE ~t.ok
    BY <1>0, <1>1, <2>2, <2>3 DEF LogGood, LogExcused
  <2>4. CASE t.ok
    BY <1>0, <1>1, <2>2, <2>4 DEF LogGood, LogWhole, Flat
  <2> QED BY <2>3, <2>4
<1>6. LogExcused => LogExcused'
  BY <1>0, LogStays DEF LogExcused
<1> QED BY <1>4, <1>5, <1>6 DEF LogInv

LEMMA LogSpin ==
  ASSUME LogInv, Lg!Spin
  PROVE  LogInv'
<1>0. /\ LogTypes /\ gState = "spin" /\ Len(gOut) # LogQSize /\ UNCHANGED <<gEnv, gSaid, gHeard>>
      /\ gOut' = Append(gOut, gBuf) /\ gBuf' = << >> /\ gState' = "idle"
  BY DEF LogInv, Lg!Spin, Lg!full
<1>1. gOut \in Seq(Seq(LogPiece)) /\ gBuf \in Seq(LogPiece) /\ gHeard \in Seq(LogPiece)
  BY <1>0 DEF LogTypes
<1>2. /\ gOut' \in Seq(Seq(LogPiece)) /\ Len(gOut') = Len(gOut) + 1
      /\ gHeard \o Flat(gOut') = (gHeard \o Flat(gOut)) \o gBuf
      /\ gHeard \o Flat(gOut') \in Seq(LogPiece)
  <2>1. /\ gOut' \in Seq(Seq(LogPiece)) /\ Len(gOut') = Len(gOut) + 1
        /\ gHeard \o Flat(gOut') = (gHeard \o Flat(gOut)) \o gBuf
    BY <1>0, <1>1, FlatGrown
  <2> QED BY <1>1, <2>1, FlatGrown
<1>3. LogTypes'
  <2>1. << >> \in Seq(LogPiece)
    OBVIOUS
  <2> QED BY <1>0, <1>2, <2>1 DEF LogTypes
<1>4. ASSUME LogWhole PROVE LogWhole'
  <2>1. Len(gOut) <= LogQSize /\ (gHeard \o Flat(gOut)) \o gBuf = gSaid /\ ~gEnv.buffered
    BY <1>0, <1>4 DEF LogWhole, LogTypes
  <2>2. Len(gOut') <= LogQSize
    BY <1>0, <1>1, <1>2, <2>1, BusesAssumption
  <2>3. (gHeard' \o Flat(gOut')) \o gBuf' = gSaid'
    <3>1. (gHeard \o Flat(gOut')) \o << >> = gHeard \o Flat(gOut')
      BY <1>2, ConcatEmptySeq
    <3> QED BY <1>0, <1>2, <2>1, <3>1, Zenon
  <2> QED BY <1>0, <2>1, <2>2, <2>3 DEF LogWhole, Flat
<1>5. LogExcused => LogExcused'
  BY <1>0, LogStays DEF LogExcused
<1> QED BY <1>3, <1>4, <1>5 DEF LogInv

LEMMA LogDrain ==
  ASSUME LogInv, Lg!Drain
  PROVE  LogInv'
<1>0. /\ LogTypes /\ gState \in {"idle", "spin"} /\ gOut # << >>
      /\ gHeard' = gHeard \o Head(gOut) /\ gOut' = Tail(gOut)
      /\ UNCHANGED <<gEnv, gBuf, gState, gSaid>>
  BY DEF LogInv, Lg!Drain
<1>1. gOut \in Seq(Seq(LogPiece)) /\ gBuf \in Seq(LogPiece) /\ gHeard \in Seq(LogPiece)
  BY <1>0 DEF LogTypes
<1> DEFINE a == Head(gOut)
           b == Tail(gOut)
<1>2. /\ a \in Seq(LogPiece) /\ b \in Seq(Seq(LogPiece)) /\ Flat(b) \in Seq(LogPiece)
      /\ Flat(gOut) = a \o Flat(b)
  BY <1>0, <1>1, FlattenTail, FlatIs
<1>3. Len(b) = Len(gOut) - 1
  BY <1>0, <1>1, HeadTailProperties
<1> HIDE DEF a, b
<1>4. gHeard' = gHeard \o a /\ gOut' = b
  BY <1>0 DEF a, b
<1>5. gHeard' \in Seq(LogPiece)
  BY <1>1, <1>2, <1>4, ConcatProperties
<1>6. LogTypes'
  BY <1>0, <1>2, <1>4, <1>5 DEF LogTypes
<1>7. gHeard' \o Flat(gOut') = gHeard \o Flat(gOut)
  <2>1. \A s, t, u \in Seq(LogPiece) : (s \o t) \o u = s \o (t \o u)
    BY ConcatAssoc
  <2>2. (gHeard \o a) \o Flat(b) = gHeard \o (a \o Flat(b))
    BY <1>1, <1>2, <2>1, Zenon
  <2> QED BY <1>2, <1>4, <2>2, Zenon
<1>8. ASSUME LogWhole PROVE LogWhole'
  <2>1. Len(gOut') <= LogQSize
    <3>1. Len(gOut) \in Nat /\ Len(gOut) <= LogQSize
      BY <1>1, <1>8 DEF LogWhole
    <3> QED BY <1>3, <1>4, <3>1, BusesAssumption
  <2>2. (gHeard' \o Flat(gOut')) \o gBuf' = gSaid'
    BY <1>0, <1>7, <1>8, Zenon DEF LogWhole
  <2> QED BY <1>0, <1>8, <2>1, <2>2 DEF LogWhole, Flat
<1>9. LogExcused => LogExcused'
  BY <1>0, LogStays DEF LogExcused
<1> QED BY <1>6, <1>8, <1>9 DEF LogInv

LEMMA LogNext == LogInv /\ [Lg!Next]_(Lg!vars) => LogInv'
<1> SUFFICES ASSUME LogInv, [Lg!Next]_(Lg!vars) PROVE LogInv'
  OBVIOUS
<1>1. CASE Lg!log
  BY <1>1, LogLog
<1>2. CASE Lg!push
  BY <1>2, LogPush
<1>3. CASE Lg!flush
  BY <1>3, LogFlush
<1>4. CASE Lg!Spin
  BY <1>4, LogSpin
<1>5. CASE Lg!Drain
  BY <1>5, LogDrain
<1>6. CASE UNCHANGED Lg!vars
  <2>1. UNCHANGED <<gEnv, gOut, gBuf, gState, gSaid, gHeard>>
    BY <1>6 DEF Lg!vars
  <2>2. LogTypes'
    BY <2>1 DEF LogInv, LogTypes
  <2>3. LogWhole => LogWhole'
    BY <2>1 DEF LogWhole, Flat
  <2>4. LogExcused => LogExcused'
    BY <2>1, LogStays DEF LogInv, LogExcused
  <2> QED BY <2>2, <2>3, <2>4 DEF LogInv
<1> QED BY <1>1, <1>2, <1>3, <1>4, <1>5, <1>6 DEF Lg!Next

\* Whatever is logged is heard, once and in order, for all lengths of texts,
\* colors, buffers and sinks.
THEOREM LogAlwaysHeard == Lg!Spec => []LogHeard
<1>1. Lg!Spec => []LogInv
  BY LogStart, LogNext, PTL DEF Lg!Spec
<1> QED BY <1>1, LogImplies, PTL

=============================================================================
