---------------------------- MODULE KernelProofs ----------------------------
(***************************************************************************)
(* What is proved of the Kernel for every registry and every queue size.   *)
(*                                                                         *)
(* Tasks are scheduled on the grid of their period, for every preemption   *)
(* by the clock.  It needs that the clock does not wrap (KernelWrap shows  *)
(* what happens when it does).                                             *)
(*                                                                         *)
(* What is scheduled is called, once and in order, and only a full queue   *)
(* ends the program.  It needs that no tick comes inside of an operation   *)
(* of the queue (KernelIsrLost shows what happens when one does).          *)
(***************************************************************************)
EXTENDS Kernel, Lemmas

\* within the horizon of the behaviour, next does not wrap
NoWrap == Horizon < TimeMod /\ \A i \in Tasks : Horizon + Dt[i] <= TimeMod

(***************************************************************************)
(* The inductive invariant: of a living kernel, next is the multiple of    *)
(* the period that follows the last scheduling, and since counts the ticks *)
(* from there.                                                             *)
(***************************************************************************)
ClockType == /\ time \in 0 .. Horizon
             /\ next \in [Tasks -> Nat]
             /\ since \in [Tasks -> Nat]
             /\ go \in BOOLEAN

Ahead(i) == time <= next[i] /\ next[i] < time + Dt[i]
OnGrid(i) == next[i] % Dt[i] = 0
Counted(i) == since[i] + next[i] = time + Dt[i]

ClockInv == ClockType /\ (go => \A i \in Tasks : Ahead(i) /\ OnGrid(i) /\ Counted(i))

LEMMA DtType == \A i \in Tasks : Dt[i] \in Nat \ {0}
BY KernelAssumption DEF Tasks, N

-----------------------------------------------------------------------------

LEMMA ClockInit == Init => ClockInv
<1> SUFFICES ASSUME Init PROVE ClockInv
  OBVIOUS
<1>1. ClockType
  BY KernelAssumption, DtType DEF Init, ClockType, Tasks, N
<1>2. ASSUME NEW i \in Tasks PROVE Ahead(i) /\ OnGrid(i) /\ Counted(i)
  BY KernelAssumption, DtType, ZeroMultiple DEF Init, Ahead, OnGrid, Counted, Tasks, N
<1> QED BY <1>1, <1>2 DEF ClockInv

(***************************************************************************)
(* A tick.  Of a living kernel a due task is exactly at its next time, so  *)
(* that a period later is in the future and on the grid.                   *)
(***************************************************************************)
LEMMA TickType ==
  ASSUME NoWrap, ClockType, TickBody, time < Horizon
  PROVE  ClockType' /\ time' = time + 1
<1>1. time + 1 \in 0 .. Horizon /\ time + 1 < TimeMod /\ TimeMod \in Nat \ {0}
  BY KernelAssumption DEF ClockType, NoWrap
<1>2. time' = time + 1 /\ time' \in 0 .. Horizon
  BY <1>1, SmallMod DEF TickBody
<1>3. next' \in [Tasks -> Nat]
  <2>1. \A i \in Tasks : (next[i] + Dt[i]) % TimeMod \in Nat
    BY <1>1, DtType DEF ClockType
  <2> QED BY <2>1 DEF TickBody, ClockType
<1>4. since' \in [Tasks -> Nat]
  BY DtType DEF TickBody, ClockType
<1>5. go' \in BOOLEAN
  BY DEF TickBody, ClockType
<1> QED BY <1>2, <1>3, <1>4, <1>5 DEF ClockType

\* a task that is due is scheduled, unless the queue was full before
LEMMA TakenAreDue == \A i \in Taken : i \in Tasks /\ Due(i)
  BY DEF Taken

\* what a tick does to a task the queue has room for
LEMMA TickOfTask ==
  ASSUME NoWrap, ClockType, TickBody, time < Horizon,
         NEW i \in Tasks, Reached(i), Ahead(i), OnGrid(i), Counted(i)
  PROVE  Ahead(i)' /\ OnGrid(i)' /\ Counted(i)'
<1>1. /\ time \in Nat /\ next[i] \in Nat /\ since[i] \in Nat /\ time' = time + 1
      /\ Dt[i] \in Nat \ {0} /\ Horizon + Dt[i] <= TimeMod /\ TimeMod \in Nat \ {0}
      /\ Horizon \in Nat
  BY TickType, DtType, KernelAssumption DEF ClockType, NoWrap
<1>2. next'[i] = IF i \in Taken THEN (next[i] + Dt[i]) % TimeMod ELSE next[i]
  BY DEF TickBody
<1>3. since'[i] = IF i \in Taken THEN 1
                  ELSE IF since[i] < Dt[i] THEN since[i] + 1 ELSE Dt[i]
  BY DEF TickBody
<1>4. CASE Due(i)
  <2>1. next[i] = time
    BY <1>1, <1>4 DEF Due, Ahead
  <2>2. next'[i] = next[i] + Dt[i]
    <3>1. next[i] + Dt[i] < TimeMod /\ next[i] + Dt[i] \in Nat
      BY <1>1, <2>1
    <3> QED BY <1>1, <1>2, <1>4, <3>1, SmallMod DEF Taken
  <2>3. since'[i] = 1
    BY <1>3, <1>4 DEF Taken
  <2>4. next'[i] % Dt[i] = 0
    BY <1>1, <2>2, NextMultiple DEF OnGrid
  <2> QED BY <1>1, <2>1, <2>2, <2>3, <2>4 DEF Ahead, OnGrid, Counted
<1>5. CASE ~Due(i)
  <2>1. next'[i] = next[i] /\ time < next[i]
    BY <1>1, <1>2, <1>5 DEF Due, Taken
  <2>2. since'[i] = since[i] + 1
    BY <1>1, <1>3, <1>5, <2>1 DEF Taken, Counted
  <2> QED BY <1>1, <2>1, <2>2 DEF Ahead, OnGrid, Counted
<1> QED BY <1>4, <1>5

LEMMA TickKeeps ==
  ASSUME NoWrap, ClockInv, TickBody, time < Horizon
  PROVE  ClockInv'
<1>1. ClockType'
  BY TickType DEF ClockInv
<1>2. ASSUME go', NEW i \in Tasks PROVE Ahead(i)' /\ OnGrid(i)' /\ Counted(i)'
  <2>1. go /\ Reached(i)
    BY <1>2 DEF TickBody, ClockInv, ClockType
  <2> QED BY <2>1, TickOfTask DEF ClockInv
<1> QED BY <1>1, <1>2 DEF ClockInv

\* every other step leaves the clock alone, and never revives the kernel
LEMMA OthersKeep ==
  ASSUME ClockInv, UNCHANGED clockVars, go' = go \/ go' = FALSE
  PROVE  ClockInv'
<1>1. time' = time /\ next' = next /\ since' = since
  BY DEF clockVars
<1>2. go' \in BOOLEAN /\ (go' => go)
  <2>1. go \in BOOLEAN
    BY DEF ClockInv, ClockType
  <2>2. CASE go' = go
    BY <2>1, <2>2, Zenon
  <2>3. CASE go' = FALSE
    BY <2>3, Zenon
  <2> QED BY <2>2, <2>3, Zenon
<1>4. ClockType'
  BY <1>1, <1>2 DEF ClockInv, ClockType
<1>3. ASSUME go', NEW i \in Tasks PROVE Ahead(i)' /\ OnGrid(i)' /\ Counted(i)'
  BY <1>1, <1>2, <1>3 DEF ClockInv, Ahead, OnGrid, Counted
<1> QED BY <1>3, <1>4 DEF ClockInv

-----------------------------------------------------------------------------

LEMMA StepKinds ==
  ASSUME [Next]_vars
  PROVE  \/ TickBody /\ time < Horizon
         \/ UNCHANGED clockVars /\ (go' = go \/ go' = FALSE)
<1>1. CASE Main
  BY <1>1 DEF Main, Loop, Run, Sleep, PopLoad, PopDec, PopHead, PopRead, Call, Return, Exit,
      Trigger, EvEnd, EvSchedule, EvPush, EvTail, EvSlot, EvLoad, EvStore
<1>2. CASE IdleTick
  BY <1>2 DEF IdleTick
<1>3. CASE SysTick
  BY <1>3 DEF SysTick
<1>4. CASE OtherInterrupt
  BY <1>4 DEF OtherInterrupt
<1>5. CASE Interrupted
  BY <1>5 DEF Interrupted
<1>6. CASE Crashed
  BY <1>6 DEF Crashed
<1>7. CASE UNCHANGED vars
  BY <1>7 DEF vars, clockVars
<1> QED BY <1>1, <1>2, <1>3, <1>4, <1>5, <1>6, <1>7 DEF Next

LEMMA ClockNext ==
  ASSUME NoWrap
  PROVE  ClockInv /\ [Next]_vars => ClockInv'
BY StepKinds, TickKeeps, OthersKeep

LEMMA ClockInvariant ==
  ASSUME NoWrap
  PROVE  Spec => []ClockInv
<1>1. ClockInv /\ [Next]_vars => ClockInv'
  BY ClockNext
<1> QED BY <1>1, ClockInit, PTL DEF Spec

(***************************************************************************)
(* Every task of a living kernel is scheduled on all the multiples of its  *)
(* period, and only there: Kernel::tick and Recurring::Schedulable, for    *)
(* every registry and every preemption of the main loop by the tick.       *)
(***************************************************************************)
THEOREM KernelOnTheGrid ==
  ASSUME NoWrap
  PROVE  Spec => []OnTheGrid
<1>1. ClockInv => OnTheGrid
  BY DEF ClockInv, OnTheGrid, Ahead, OnGrid
<1> QED BY <1>1, ClockInvariant, PTL

(***************************************************************************)
(* "only schedule if dt ms passed since last run" (timed.h): between two   *)
(* schedulings of a task the clock ticked at least dt times.               *)
(***************************************************************************)
THEOREM KernelSpacing ==
  ASSUME NoWrap
  PROVE  Spec => Spacing
<1> DEFINE Apart == \A i \in Tasks : go /\ next'[i] # next[i] => since[i] >= Dt[i]
<1>1. ClockInv /\ [Next]_vars => [Apart]_vars
  <2> SUFFICES ASSUME ClockInv, [Next]_vars, NEW i \in Tasks, go, next'[i] # next[i]
               PROVE  since[i] >= Dt[i]
    OBVIOUS
  <2>1. TickBody /\ i \in Taken
    <3>1. CASE TickBody BY <3>1 DEF TickBody
    <3>2. CASE UNCHANGED clockVars BY <3>2 DEF clockVars
    <3> QED BY <3>1, <3>2, StepKinds
  <2>2. Due(i)
    BY <2>1, TakenAreDue
  <2> QED BY <2>2, DtType DEF Due, ClockInv, ClockType, Ahead, Counted
<1> QED BY <1>1, ClockInvariant, PTL DEF Spec, Spacing

(***************************************************************************)
(* The queue of scheduled calls, when a tick leaves the operations of the  *)
(* queue alone (preempt is "idle" or "calls").  The inductive invariant    *)
(* says what the queue holds in the middle of an operation, too: where the *)
(* ring begins, where it ends and how many elements it has once the        *)
(* operation the main loop is in has finished its updates.                 *)
(***************************************************************************)
OffTheQueue == "any" \notin Preempts

Rings == [slot : [Ring!Slots(QSize) -> Schedulables \cup {Nobody}], len : 0 .. QSize,
          size : {QSize}, head : Ring!Slots(QSize), tail : Ring!Slots(QSize), wrap : {QSize}]

Whos(p) == [k \in 1 .. Len(p) |-> p[k].who]

HeadOf == IF pc = "popHead" THEN At(QSize, q.head, 1) ELSE q.head
TailOf == IF pc = "evSlot" THEN reg ELSE q.tail
LenOf  == IF pc \in {"evLoad", "evStore"} THEN q.len + 1 ELSE q.len

\* the ring holds what was scheduled and not yet popped
RingPart == /\ q \in Rings /\ pending \in Seq(Calls)
            /\ Len(pending) = LenOf /\ LenOf <= QSize
            /\ TailOf = At(QSize, HeadOf, LenOf)
            /\ Holds(QSize, q.slot, HeadOf, Whos(pending))

Popping == {"popHead", "popRead"}
Pushing == {"evPush", "evTail", "evSlot", "evLoad", "evStore"}
Busy    == {"call", "body", "ev"} \cup Pushing
Calm    == {"loop", "run", "sleep", "idle", "done"} \cup {"call", "body", "ev"}

\* what the registers of the main loop hold in the middle of an operation
StepPart ==
  /\ pc \in Calm \cup {"pop", "popDec"} \cup Popping \cup Pushing
  /\ reg \in 0 .. QSize /\ ev \in 0 .. M + 1
  /\ pc \in {"pop", "popDec"} => q.len # 0
  /\ pc \in {"popDec", "evStore"} => reg = q.len
  /\ pc = "popHead" => q.slot[q.head] = owed.who
  /\ pc = "popRead" => reg \in 0 .. QSize - 1 /\ q.slot[reg] = owed.who
  /\ pc \in Pushing => q.len < QSize /\ ev \in 1 .. M
  /\ pc = "evTail" => reg = q.tail
  /\ pc = "evSlot" => reg \in 0 .. QSize - 1 /\ q.tail = At(QSize, reg, 1)
  /\ pc = "ev" => ev \in 1 .. M + 1

\* the call being made is the one taken off the queue
CallPart == /\ owed \in Calls \cup {Nothing} /\ cur \in Schedulables \cup {Nobody}
            /\ pc \in Popping \cup Busy => owed \in Calls
            /\ pc \in Busy => cur = owed.who

ValuePart == /\ preempt \in Preempts
             /\ time \in 0 .. TimeMod - 1 /\ next \in [Tasks -> 0 .. TimeMod - 1]
             /\ stime \in [Schedulables -> 0 .. TimeMod - 1] /\ arg \in 0 .. TimeMod - 1
             /\ go \in BOOLEAN /\ exitCode \in {0, 127, -1}
             /\ since \in [Tasks -> Nat] /\ \A i \in Tasks : since[i] \in 0 .. Dt[i]

QueueInv == RingPart /\ StepPart /\ CallPart /\ ValuePart

-----------------------------------------------------------------------------
(* Sequences of calls                                                      *)

LEMMA KernelNumbers ==
  /\ N \in Nat /\ M \in Nat /\ QSize \in Nat \ {0} /\ TimeMod \in Nat \ {0}
  /\ Tasks \subseteq Nat /\ Tasks \subseteq Schedulables /\ IsFiniteSet(Tasks)
  /\ 0 \in 0 .. TimeMod - 1 /\ \A x \in Nat : x % TimeMod \in 0 .. TimeMod - 1
<1>1. N \in Nat /\ M \in Nat /\ QSize \in Nat \ {0} /\ TimeMod \in Nat \ {0}
  BY KernelAssumption DEF N
<1>2. IsFiniteSet(Tasks)
  BY <1>1, FS_Interval DEF Tasks
<1>3. \A x \in Nat : x % TimeMod \in 0 .. TimeMod - 1
  BY <1>1, DivMod
<1> QED BY <1>1, <1>2, <1>3 DEF Tasks, Schedulables

LEMMA WhosSeq ==
  ASSUME NEW p \in Seq(Calls)
  PROVE  Whos(p) \in Seq(Schedulables) /\ Len(Whos(p)) = Len(p)
<1>1. Len(p) \in Nat /\ \A k \in 1 .. Len(p) : p[k] \in Calls
  BY ElementOfSeq, LenProperties
<1>2. \A c \in Calls : c.who \in Schedulables
  BY DEF Calls
<1> QED BY <1>1, <1>2 DEF Whos

LEMMA WhosTail ==
  ASSUME NEW p \in Seq(Calls), p # << >>
  PROVE  /\ Tail(p) \in Seq(Calls) /\ Head(p) \in Calls /\ Len(Tail(p)) = Len(p) - 1
         /\ Whos(p) # << >> /\ Whos(Tail(p)) = Tail(Whos(p)) /\ Head(p).who = Head(Whos(p))
<1>1. /\ Tail(p) \in Seq(Calls) /\ Head(p) \in Calls /\ Len(Tail(p)) = Len(p) - 1
      /\ Head(p) = p[1] /\ Len(p) \in Nat \ {0}
      /\ \A i \in 1 .. Len(p) - 1 : Tail(p)[i] = p[i + 1]
  BY HeadTailProperties, EmptySeq
<1>2. Whos(p) \in Seq(Schedulables) /\ Len(Whos(p)) = Len(p) /\ Whos(p) # << >>
  BY <1>1, WhosSeq, EmptySeq
<1>3. /\ Tail(Whos(p)) \in Seq(Schedulables) /\ Len(Tail(Whos(p))) = Len(p) - 1
      /\ Head(Whos(p)) = Whos(p)[1]
      /\ \A i \in 1 .. Len(p) - 1 : Tail(Whos(p))[i] = Whos(p)[i + 1]
  BY <1>2, HeadTailProperties
<1>4. Whos(Tail(p)) \in Seq(Schedulables) /\ Len(Whos(Tail(p))) = Len(p) - 1
  BY <1>1, WhosSeq
<1>5. ASSUME NEW i \in 1 .. Len(p) - 1 PROVE Whos(Tail(p))[i] = Tail(Whos(p))[i]
  <2>1. i + 1 \in 1 .. Len(p) /\ i \in 1 .. Len(Tail(p))
    BY <1>1
  <2> QED BY <1>1, <1>3, <2>1 DEF Whos
<1>6. Whos(Tail(p)) = Tail(Whos(p))
  BY <1>3, <1>4, <1>5, SeqEqual
<1> QED BY <1>1, <1>2, <1>3, <1>6 DEF Whos

LEMMA WhosAppend ==
  ASSUME NEW p \in Seq(Calls), NEW c \in Calls
  PROVE  /\ Append(p, c) \in Seq(Calls) /\ Len(Append(p, c)) = Len(p) + 1
         /\ Whos(Append(p, c)) = Append(Whos(p), c.who)
<1>1. /\ Append(p, c) \in Seq(Calls) /\ Len(Append(p, c)) = Len(p) + 1 /\ Len(p) \in Nat
      /\ \A i \in 1 .. Len(p) : Append(p, c)[i] = p[i] /\ Append(p, c)[Len(p) + 1] = c
  BY AppendProperties
<1>2. Whos(p) \in Seq(Schedulables) /\ Len(Whos(p)) = Len(p) /\ c.who \in Schedulables
  BY WhosSeq DEF Calls
<1>3. /\ Append(Whos(p), c.who) \in Seq(Schedulables) /\ Len(Append(Whos(p), c.who)) = Len(p) + 1
      /\ \A i \in 1 .. Len(p) : Append(Whos(p), c.who)[i] = Whos(p)[i]
      /\ Append(Whos(p), c.who)[Len(p) + 1] = c.who
  BY <1>2, AppendProperties
<1>4. Whos(Append(p, c)) \in Seq(Schedulables) /\ Len(Whos(Append(p, c))) = Len(p) + 1
  BY <1>1, WhosSeq
<1>5. ASSUME NEW i \in 1 .. Len(p) + 1
      PROVE  Whos(Append(p, c))[i] = Append(Whos(p), c.who)[i]
  <2>1. CASE i = Len(p) + 1
    BY <1>1, <1>3, <2>1, AppendProperties DEF Whos
  <2>2. CASE i # Len(p) + 1
    <3>1. i \in 1 .. Len(p)
      BY <1>1, <2>2
    <3> QED BY <1>1, <1>3, <3>1 DEF Whos
  <2> QED BY <2>1, <2>2
<1> QED BY <1>1, <1>3, <1>4, <1>5, SeqEqual

LEMMA WhosConcat ==
  ASSUME NEW p \in Seq(Calls), NEW b \in Seq(Calls)
  PROVE  /\ p \o b \in Seq(Calls) /\ Len(p \o b) = Len(p) + Len(b)
         /\ Whos(p \o b) = Whos(p) \o Whos(b)
<1>1. /\ p \o b \in Seq(Calls) /\ Len(p \o b) = Len(p) + Len(b)
      /\ Len(p) \in Nat /\ Len(b) \in Nat
      /\ \A i \in 1 .. Len(p) + Len(b) :
           (p \o b)[i] = IF i <= Len(p) THEN p[i] ELSE b[i - Len(p)]
  BY ConcatProperties
<1>2. /\ Whos(p) \in Seq(Schedulables) /\ Len(Whos(p)) = Len(p)
      /\ Whos(b) \in Seq(Schedulables) /\ Len(Whos(b)) = Len(b)
  BY WhosSeq
<1>3. /\ Whos(p) \o Whos(b) \in Seq(Schedulables)
      /\ Len(Whos(p) \o Whos(b)) = Len(p) + Len(b)
      /\ \A i \in 1 .. Len(p) + Len(b) :
           (Whos(p) \o Whos(b))[i] = IF i <= Len(p) THEN Whos(p)[i] ELSE Whos(b)[i - Len(p)]
  <2> DEFINE s == Whos(p)
             t == Whos(b)
  <2>1. s \in Seq(Schedulables) /\ t \in Seq(Schedulables) /\ Len(s) = Len(p) /\ Len(t) = Len(b)
    BY <1>2
  <2> HIDE DEF s, t
  <2>2. /\ s \o t \in Seq(Schedulables) /\ Len(s \o t) = Len(s) + Len(t)
        /\ \A i \in 1 .. Len(s) + Len(t) :
             (s \o t)[i] = IF i <= Len(s) THEN s[i] ELSE t[i - Len(s)]
    BY <2>1, ConcatProperties
  <2> QED BY <2>1, <2>2 DEF s, t
<1>4. Whos(p \o b) \in Seq(Schedulables) /\ Len(Whos(p \o b)) = Len(p) + Len(b)
  BY <1>1, WhosSeq
<1>5. ASSUME NEW i \in 1 .. Len(p) + Len(b)
      PROVE  Whos(p \o b)[i] = (Whos(p) \o Whos(b))[i]
  <2>1. Whos(p \o b)[i] = (p \o b)[i].who
    BY <1>1 DEF Whos
  <2>2. CASE i <= Len(p)
    <3>1. i \in 1 .. Len(p)
      BY <1>1, <2>2
    <3> QED BY <1>1, <1>3, <2>1, <2>2, <3>1 DEF Whos
  <2>3. CASE ~(i <= Len(p))
    <3>1. i - Len(p) \in 1 .. Len(b)
      BY <1>1, <2>3
    <3> QED BY <1>1, <1>3, <2>1, <2>3, <3>1 DEF Whos
  <2> QED BY <2>2, <2>3
<1> QED BY <1>1, <1>3, <1>4, <1>5, SeqEqual

-----------------------------------------------------------------------------
(* The batch a tick schedules                                              *)

DueTasks == {i \in Tasks : Due(i)}

LEMMA TakenAreFirst ==
  ASSUME NEW c \in Nat, c = q.size - q.len
  PROVE  /\ Taken = {i \in DueTasks : Rank(DueTasks, i) < c}
         /\ DueTasks \subseteq Nat /\ IsFiniteSet(DueTasks) /\ DueTasks \in SUBSET Tasks
         /\ \A i \in Tasks : {j \in 1 .. i - 1 : Due(j)} = Below(DueTasks, i)
<1>1. DueTasks \subseteq Nat /\ IsFiniteSet(DueTasks) /\ DueTasks \in SUBSET Tasks
  BY KernelNumbers, FS_Subset DEF DueTasks
<1>2. ASSUME NEW i \in Tasks PROVE {j \in 1 .. i - 1 : Due(j)} = Below(DueTasks, i)
  <2>1. N \in Nat /\ i \in 1 .. N
    BY KernelNumbers DEF Tasks
  <2>2. \A j \in 1 .. i - 1 : j \in 1 .. N /\ j < i
    BY <2>1
  <2>3. \A j \in 1 .. N : j < i => j \in 1 .. i - 1
    BY <2>1
  <2> QED BY <2>2, <2>3 DEF DueTasks, Below, Tasks
<1>3. \A i \in Tasks : Reached(i) <=> Rank(DueTasks, i) < c
  BY <1>2 DEF Reached, Rank
<1> QED BY <1>1, <1>2, <1>3 DEF Taken, DueTasks

\* The batch is a sequence of due tasks that fits into the queue; when the
\* scheduler gave up on an entry, the batch fills the queue.
LEMMA BatchFits ==
  ASSUME NEW c \in Nat, c = q.size - q.len
  PROVE  /\ Batch \in Seq(Tasks) /\ Len(Batch) <= c
         /\ \A k \in 1 .. Len(Batch) : Batch[k] \in Taken
         /\ (\E i \in Tasks : ~Reached(i)) => Len(Batch) = c /\ c < N
<1> DEFINE n == Cardinality(Taken)
<1>1. /\ Taken = {i \in DueTasks : Rank(DueTasks, i) < c}
      /\ DueTasks \subseteq Nat /\ IsFiniteSet(DueTasks) /\ DueTasks \in SUBSET Tasks
  BY TakenAreFirst
<1>2. /\ IsFiniteSet(Taken) /\ n \in Nat /\ n <= c
      /\ (\E i \in DueTasks : i \notin Taken) => n = c
  <2>1. /\ DueTasks \subseteq Nat /\ IsFiniteSet(DueTasks)
        /\ \A i : i \in Taken <=> (i \in DueTasks /\ Rank(DueTasks, i) < c)
    BY <1>1
  <2>2. IsFiniteSet(Taken) /\ Cardinality(Taken) \in Nat
    BY <2>1, FirstMembers
  <2>3. Cardinality(Taken) <= c
    BY <2>1, FirstMembers
  <2>4. ASSUME NEW i \in DueTasks, i \notin Taken PROVE Cardinality(Taken) = c
    BY <2>1, <2>4, FirstMembers
  <2> QED BY <2>2, <2>3, <2>4
<1>3. Taken \subseteq Nat /\ Taken \subseteq Tasks
  BY <1>1
<1>4. ASSUME NEW k \in 1 .. n PROVE Batch[k] \in Taken
  <2>1. k - 1 \in Nat /\ k - 1 < n
    BY <1>2
  <2>2. \E i \in Taken : Rank(Taken, i) = k - 1
    BY <1>2, <1>3, <2>1, RankExists
  <2>3. \E i \in Taken : Cardinality({j \in Taken : j < i}) = k - 1
    BY <2>2 DEF Rank, Below
  <2>4. Nth(k) \in Taken
    BY <2>3 DEF Nth
  <2> QED BY <2>4 DEF Batch
<1>5. Batch \in Seq(Tasks) /\ Len(Batch) = n
  <2>1. Batch \in [1 .. n -> Tasks]
    <3>1. \A k \in 1 .. n : Nth(k) \in Tasks
      BY <1>3, <1>4 DEF Batch
    <3> QED BY <3>1 DEF Batch
  <2> HIDE DEF n
  <2> QED BY <1>2, <2>1
<1>6. ASSUME NEW i \in Tasks, ~Reached(i) PROVE n = c /\ c < N
  <2>1. /\ {j \in 1 .. i - 1 : Due(j)} = Below(DueTasks, i)
        /\ i \in 1 .. N /\ N \in Nat
    BY TakenAreFirst, KernelNumbers DEF Tasks
  <2>2. c <= Rank(DueTasks, i) /\ Rank(DueTasks, i) \in Nat
        /\ Rank(DueTasks, i) <= Cardinality(DueTasks)
    <3>1. ~(Rank(DueTasks, i) < c)
      BY <1>6, <2>1 DEF Reached, Rank
    <3>2. Rank(DueTasks, i) \in Nat /\ Rank(DueTasks, i) <= Cardinality(DueTasks)
      BY <1>1, RankType
    <3> QED BY <3>1, <3>2
  <2>3. Rank(DueTasks, i) <= i - 1
    <3>1. IsFiniteSet(1 .. i - 1) /\ Cardinality(1 .. i - 1) = i - 1
      <4>1. i - 1 \in Int /\ 1 \in Int /\ (1 > i - 1 => i - 1 = 0) /\ (i - 1) - 1 + 1 = i - 1
        BY <2>1
      <4> QED BY <4>1, FS_Interval
    <3> QED BY <2>1, <3>1, FS_Subset DEF Rank
  <2>4. c < N
    BY <2>1, <2>2, <2>3
  <2>5. CASE DueTasks = Taken
    <3>1. c <= n /\ n <= c /\ n \in Nat
      BY <1>2, <2>2, <2>5
    <3> HIDE DEF n
    <3> QED BY <2>4, <3>1
  <2>6. CASE DueTasks # Taken
    <3>1. \E j \in DueTasks : j \notin Taken
      BY <1>1, <2>6
    <3> QED BY <1>2, <2>4, <3>1
  <2> QED BY <2>4, <2>5, <2>6
<1> QED BY <1>2, <1>4, <1>5, <1>6

-----------------------------------------------------------------------------
(* The steps                                                               *)

LEMMA QueueInit == OffTheQueue /\ Init => QueueInv
<1> SUFFICES ASSUME Init PROVE QueueInv
  OBVIOUS
<1>1. RingPart
  <2>1. /\ q.slot \in [Ring!Slots(QSize) -> Schedulables \cup {Nobody}] /\ q.len = 0
        /\ q.size = QSize /\ q.head = 0 /\ q.tail = 0 /\ q.wrap = QSize /\ q \in Rings
        /\ 0 \in 0 .. QSize - 1
    <3>1. 0 \in Ring!Slots(QSize) /\ 0 \in 0 .. QSize
      BY KernelNumbers DEF Ring!Slots
    <3> QED BY <3>1 DEF Init, Ring!Fresh, Rings, Ring!Slots
  <2>2. pending = << >> /\ pending \in Seq(Calls) /\ Len(pending) = 0
    BY EmptySeq DEF Init
  <2>3. HeadOf = 0 /\ TailOf = 0 /\ LenOf = 0
    BY <2>1 DEF Init, HeadOf, TailOf, LenOf
  <2>4. At(QSize, 0, 0) = 0
    BY <2>1, KernelNumbers, AtRange
  <2>5. Holds(QSize, q.slot, 0, Whos(pending))
    <3>1. Len(Whos(pending)) = 0
      BY <2>2, WhosSeq
    <3> QED BY <3>1 DEF Holds
  <2> QED BY <2>1, <2>2, <2>3, <2>4, <2>5, KernelNumbers DEF RingPart
<1>2. StepPart
  BY KernelNumbers DEF Init, StepPart, Calm, Pushing, Popping
<1>3. CallPart
  BY DEF Init, CallPart, Popping, Busy, Pushing
<1>4. ValuePart
  <2>1. since \in [Tasks -> Nat] /\ \A i \in Tasks : since[i] \in 0 .. Dt[i]
    BY DtType, KernelAssumption DEF Init, Tasks, N
  <2>2. next \in [Tasks -> 0 .. TimeMod - 1] /\ stime \in [Schedulables -> 0 .. TimeMod - 1]
    BY KernelNumbers DEF Init
  <2> QED BY <2>1, <2>2, KernelNumbers DEF Init, ValuePart
<1> QED BY <1>1, <1>2, <1>3, <1>4 DEF QueueInv

\* A step that leaves the queue alone leaves the ring as it is, if neither it
\* comes from the middle of an operation nor goes into one.
LEMMA RingStays ==
  ASSUME RingPart, UNCHANGED <<q, pending>>,
         HeadOf' = HeadOf, TailOf' = TailOf, LenOf' = LenOf
  PROVE  RingPart'
<1>1. q' = q /\ pending' = pending
  OBVIOUS
<1>2. Whos(pending)' = Whos(pending)
  BY <1>1 DEF Whos
<1> QED BY <1>1, <1>2 DEF RingPart

Between(p) == p \notin {"popHead", "evSlot", "evLoad", "evStore"}

LEMMA RingBetween ==
  ASSUME RingPart, UNCHANGED <<q, pending>>, Between(pc), Between(pc')
  PROVE  RingPart'
<1>1. HeadOf' = HeadOf /\ TailOf' = TailOf /\ LenOf' = LenOf
  BY DEF HeadOf, TailOf, LenOf, Between
<1> QED BY <1>1, RingStays

\* what the invariant says between two operations
LEMMA RingThere ==
  ASSUME RingPart, Between(pc)
  PROVE  /\ q \in Rings /\ pending \in Seq(Calls) /\ Len(pending) = q.len
         /\ q.len \in 0 .. QSize /\ q.head \in 0 .. QSize - 1 /\ q.tail \in 0 .. QSize - 1
         /\ q.tail = At(QSize, q.head, q.len) /\ q.size = QSize /\ q.wrap = QSize
         /\ q.slot \in [0 .. QSize - 1 -> Schedulables \cup {Nobody}]
         /\ Holds(QSize, q.slot, q.head, Whos(pending))
<1>1. HeadOf = q.head /\ TailOf = q.tail /\ LenOf = q.len
  BY DEF HeadOf, TailOf, LenOf, Between
<1>2. q \in Rings
  BY DEF RingPart
<1>3. /\ q.len \in 0 .. QSize /\ q.head \in 0 .. QSize - 1 /\ q.tail \in 0 .. QSize - 1
      /\ q.size = QSize /\ q.wrap = QSize
      /\ q.slot \in [0 .. QSize - 1 -> Schedulables \cup {Nobody}]
  BY <1>2 DEF Rings, Ring!Slots
<1> QED BY <1>1, <1>2, <1>3 DEF RingPart

\* A tick appends its batch to the queue.
LEMMA TickRing ==
  ASSUME RingPart, ValuePart, TickBody, Between(pc), Between(pc')
  PROVE  /\ RingPart' /\ Batch \in Seq(Tasks) /\ Len(pending') = Len(pending) + Len(Batch)
         /\ Len(Batch) <= QSize - Len(pending)
         /\ (\E i \in Tasks : ~Reached(i)) =>
              Len(pending') = QSize /\ QSize - Len(pending) < N
<1> DEFINE c == q.size - q.len
           b == Batch
           made == [k \in 1 .. Len(b) |-> [who |-> b[k], at |-> time]]
           n == QSize
<1>1. /\ q \in Rings /\ pending \in Seq(Calls) /\ Len(pending) = q.len
      /\ q.len \in 0 .. n /\ q.head \in 0 .. n - 1 /\ q.tail \in 0 .. n - 1
      /\ q.tail = At(n, q.head, q.len) /\ q.size = n /\ q.wrap = n
      /\ q.slot \in [0 .. n - 1 -> Schedulables \cup {Nobody}]
      /\ Holds(n, q.slot, q.head, Whos(pending)) /\ n \in Nat \ {0}
  BY RingThere, KernelNumbers
<1>2. c \in Nat /\ c = n - q.len
  BY <1>1
<1>3. /\ b \in Seq(Tasks) /\ b \in Seq(Schedulables) /\ Len(b) \in Nat /\ Len(b) <= c
      /\ \A k \in 1 .. Len(b) : b[k] \in Schedulables
      /\ (\E i \in Tasks : ~Reached(i)) => Len(b) = c /\ c < N
  <2>1. /\ b \in Seq(Tasks) /\ Len(b) <= c
        /\ (\E i \in Tasks : ~Reached(i)) => Len(b) = c /\ c < N
    BY <1>2, BatchFits
  <2> HIDE DEF b, c
  <2>2. Len(b) \in Nat /\ \A k \in 1 .. Len(b) : b[k] \in Tasks
    BY <2>1, LenProperties, ElementOfSeq
  <2>3. b \in Seq(Schedulables)
    BY <2>1, <2>2, KernelNumbers, SeqMonotonic
  <2> QED BY <2>1, <2>2, <2>3, KernelNumbers
<1>4. q' = PushedAll(q, b) /\ pending' = pending \o made
  BY DEF TickBody
<1> HIDE DEF b, c
<1>5. made \in Seq(Calls) /\ Len(made) = Len(b) /\ Whos(made) = b
  <2>1. \A k \in 1 .. Len(b) : [who |-> b[k], at |-> time] \in Calls
    BY <1>3 DEF ValuePart, Calls
  <2>2. made \in Seq(Calls) /\ Len(made) = Len(b)
    BY <1>3, <2>1
  <2>3. Whos(made) \in Seq(Schedulables) /\ Len(Whos(made)) = Len(b)
    BY <2>2, WhosSeq
  <2>4. \A k \in 1 .. Len(b) : Whos(made)[k] = b[k]
    BY <2>2 DEF Whos
  <2> HIDE DEF made
  <2> QED BY <1>3, <2>2, <2>3, <2>4, SeqEqual
<1> HIDE DEF made
<1>6. /\ pending' \in Seq(Calls) /\ Len(pending') = q.len + Len(b)
      /\ Whos(pending') = Whos(pending) \o b
  BY <1>1, <1>4, <1>5, WhosConcat
<1>7. \A k \in 0 .. n - 1 : (k - q.tail) % n \in 0 .. n - 1
  <2>1. \A k \in 0 .. n - 1 : (k - q.tail) % n = IF q.tail <= k THEN k - q.tail ELSE k - q.tail + n
    BY <1>1, StepsIs
  <2> QED BY <1>1, <2>1
<1>8. /\ q'.len = q.len + Len(b) /\ q'.head = q.head /\ q'.size = n /\ q'.wrap = n
      /\ q'.tail = At(n, q.tail, Len(b))
      /\ \A k \in 0 .. n - 1 :
           q'.slot[k] = IF (k - q.tail) % n < Len(b) THEN b[((k - q.tail) % n) + 1] ELSE q.slot[k]
      /\ q' \in Rings
  <2> DEFINE slot == [k \in 0 .. n - 1 |->
                        IF (k - q.tail) % n < Len(b) THEN b[((k - q.tail) % n) + 1] ELSE q.slot[k]]
             tail == At(n, q.tail, Len(b))
             len  == q.len + Len(b)
  <2>1. q' = [q EXCEPT !.slot = slot, !.tail = tail, !.len = len]
    BY <1>1, <1>4 DEF PushedAll, Ring!Slots, At, Rings
  <2>2. len \in 0 .. n
    BY <1>1, <1>2, <1>3
  <2>3. tail \in 0 .. n - 1
    <3>1. Len(b) \in 0 .. n
      BY <1>1, <1>2, <1>3
    <3> QED BY <1>1, <3>1, AtRange
  <2>4. slot \in [0 .. n - 1 -> Schedulables \cup {Nobody}]
    <3>1. ASSUME NEW k \in 0 .. n - 1, (k - q.tail) % n < Len(b)
          PROVE  b[((k - q.tail) % n) + 1] \in Schedulables
      BY <1>3, <1>7, <3>1, ((k - q.tail) % n) + 1 \in 1 .. Len(b)
    <3> QED BY <1>1, <3>1
  <2>5. \A k \in 0 .. n - 1 :
           slot[k] = IF (k - q.tail) % n < Len(b) THEN b[((k - q.tail) % n) + 1] ELSE q.slot[k]
    OBVIOUS
  <2> HIDE DEF slot, tail, len
  <2>6. /\ q'.slot = slot /\ q'.tail = tail /\ q'.len = len
        /\ q'.head = q.head /\ q'.size = n /\ q'.wrap = n /\ q' \in Rings
    BY <1>1, <2>1, <2>2, <2>3, <2>4 DEF Rings, Ring!Slots
  <2> QED BY <2>5, <2>6 DEF tail, len
<1>9. Holds(n, q'.slot, q.head, Whos(pending) \o b)
  <2> DEFINE s == Whos(pending)
  <2>1. s \in Seq(Schedulables) /\ Len(s) = q.len /\ Holds(n, q.slot, q.head, s)
    BY <1>1, WhosSeq
  <2>2. Len(s) + Len(b) <= n /\ q.tail = At(n, q.head, Len(s))
    BY <1>1, <1>2, <1>3, <2>1
  <2> DEFINE new == q'.slot
             old == q.slot
             h == q.head
             t == q.tail
  <2>3. \A k \in 0 .. n - 1 : new[k] = IF (k - At(n, h, Len(s))) % n < Len(b)
                                         THEN b[((k - At(n, h, Len(s))) % n) + 1] ELSE old[k]
    BY <1>8, <2>2
  <2>4. h \in 0 .. n - 1 /\ Holds(n, old, h, s) /\ n \in Nat \ {0}
    BY <1>1, <2>1
  <2> HIDE DEF s, new, old, h, n
  <2>5. Holds(n, new, h, s \o b)
    BY <1>3, <2>1, <2>2, <2>3, <2>4, HoldsConcat
  <2> QED BY <2>5 DEF s, new, h
<1>10. q'.tail = At(n, q.head, q.len + Len(b))
  <2>1. Len(b) \in 0 .. n /\ q.len + Len(b) <= n
    BY <1>1, <1>2, <1>3
  <2>2. At(n, At(n, q.head, q.len), Len(b)) = At(n, q.head, q.len + Len(b))
    BY <1>1, <2>1, AtSum
  <2> QED BY <1>1, <1>8, <2>2
<1>11. HeadOf' = q.head /\ TailOf' = q'.tail /\ LenOf' = q.len + Len(b)
  BY <1>8 DEF HeadOf, TailOf, LenOf, Between
<1>12. RingPart'
  <2>1. q.len + Len(b) <= QSize
    BY <1>1, <1>2, <1>3
  <2> QED BY <1>6, <1>8, <1>9, <1>10, <1>11, <2>1 DEF RingPart
<1>13. Len(b) <= QSize - Len(pending)
  BY <1>1, <1>2, <1>3
<1>14. ASSUME \E i \in Tasks : ~Reached(i)
       PROVE  Len(pending') = QSize /\ QSize - Len(pending) < N
  BY <1>1, <1>2, <1>3, <1>6, <1>14
<1> QED BY <1>1, <1>3, <1>6, <1>12, <1>13, <1>14 DEF b

LEMMA TickValues ==
  ASSUME ValuePart, TickBody, preempt' = preempt, arg' = arg
  PROVE  ValuePart'
<1>1. time' \in 0 .. TimeMod - 1
  <2>1. time' = (time + 1) % TimeMod /\ time + 1 \in Nat
    BY KernelNumbers DEF TickBody, ValuePart
  <2> QED BY <2>1, KernelNumbers
<1>2. next' \in [Tasks -> 0 .. TimeMod - 1]
  <2>1. \A i \in Tasks : (next[i] + Dt[i]) % TimeMod \in 0 .. TimeMod - 1
    <3>1. \A i \in Tasks : next[i] \in Nat /\ next[i] + Dt[i] \in Nat
      BY DtType, KernelNumbers DEF ValuePart
    <3> QED BY <3>1, KernelNumbers
  <2> QED BY <2>1 DEF TickBody, ValuePart
<1>3. stime' \in [Schedulables -> 0 .. TimeMod - 1]
  BY DEF TickBody, ValuePart
<1>4. since' \in [Tasks -> Nat] /\ \A i \in Tasks : since'[i] \in 0 .. Dt[i]
  <2>1. \A i \in Tasks : since'[i] = IF i \in Taken THEN 1
                                     ELSE IF since[i] < Dt[i] THEN since[i] + 1 ELSE Dt[i]
    BY DEF TickBody
  <2>2. \A i \in Tasks : Dt[i] \in Nat \ {0} /\ since[i] \in 0 .. Dt[i]
    BY DtType DEF ValuePart
  <2>3. \A i \in Tasks : since'[i] \in 0 .. Dt[i]
    BY <2>1, <2>2
  <2>4. since' \in [Tasks -> Nat]
    <3>1. \A i \in Tasks : since'[i] \in Nat
      BY <2>2, <2>3
    <3>2. since' = [i \in Tasks |-> since'[i]]
      BY DEF TickBody
    <3> QED BY <3>1, <3>2
  <2> QED BY <2>3, <2>4
<1>5. go' \in BOOLEAN /\ exitCode' \in {0, 127, -1}
  BY DEF TickBody, ValuePart
<1> QED BY <1>1, <1>2, <1>3, <1>4, <1>5 DEF ValuePart

\* where a tick may come, the queue is between two operations
LEMMA TickCalm ==
  ASSUME OffTheQueue, QueueInv, IdleTick \/ SysTick
  PROVE  /\ TickBody /\ Between(pc) /\ Between(pc')
         /\ pc' \in {"loop", "run", "call", "body", "ev", "sleep"} /\ (pc' = pc \/ pc' = "loop")
         /\ UNCHANGED <<preempt, reg, cur, arg, ev, owed>>
<1>1. preempt \in {"idle", "calls"}
  BY KernelAssumption DEF QueueInv, ValuePart, OffTheQueue
<1>2. CASE IdleTick
  BY <1>2 DEF IdleTick, Between
<1>3. CASE SysTick
  BY <1>1, <1>3 DEF SysTick, Interruptible, Between
<1> QED BY <1>2, <1>3

LEMMA TickKeepsQueue ==
  ASSUME OffTheQueue, QueueInv, IdleTick \/ SysTick
  PROVE  QueueInv'
<1>1. RingPart /\ StepPart /\ CallPart /\ ValuePart
  BY DEF QueueInv
<1>2. /\ TickBody /\ Between(pc) /\ Between(pc')
      /\ pc' \in {"loop", "run", "call", "body", "ev", "sleep"} /\ (pc' = pc \/ pc' = "loop")
      /\ UNCHANGED <<preempt, reg, cur, arg, ev, owed>>
  BY TickCalm
<1>3. RingPart'
  BY <1>1, <1>2, TickRing
<1>4. StepPart'
  BY <1>1, <1>2 DEF StepPart, Calm, Popping, Pushing
<1>5. CallPart'
  BY <1>1, <1>2 DEF CallPart, Popping, Busy, Pushing
<1>6. ValuePart'
  BY <1>1, <1>2, TickValues
<1> QED BY <1>3, <1>4, <1>5, <1>6 DEF QueueInv

(***************************************************************************)
(* pop() of the main loop.                                                 *)
(***************************************************************************)
LEMMA PopDecKeeps ==
  ASSUME QueueInv, PopDec
  PROVE  QueueInv'
<1> DEFINE n == QSize
           h == q.head
<1>1. RingPart /\ StepPart /\ CallPart /\ ValuePart /\ pc = "popDec" /\ pc' = "popHead"
  BY DEF QueueInv, PopDec
<1>2. /\ q \in Rings /\ pending \in Seq(Calls) /\ Len(pending) = q.len
      /\ q.len \in 0 .. n /\ q.head \in 0 .. n - 1 /\ q.tail \in 0 .. n - 1
      /\ q.tail = At(n, q.head, q.len) /\ Holds(n, q.slot, q.head, Whos(pending))
      /\ n \in Nat \ {0} /\ q.len # 0 /\ reg = q.len
  BY <1>1, RingThere, KernelNumbers DEF Between, StepPart
<1>3. /\ q' = [q EXCEPT !.len = reg - 1] /\ owed' = Head(pending) /\ pending' = Tail(pending)
      /\ UNCHANGED <<reg, cur, ev, arg, go, exitCode, stime>> /\ UNCHANGED clockVars
  BY DEF PopDec
<1>4. /\ q'.len = q.len - 1 /\ q'.head = q.head /\ q'.tail = q.tail /\ q'.slot = q.slot
      /\ q' \in Rings
  <2> DEFINE l == reg - 1
  <2>1. l \in 0 .. n /\ l = q.len - 1
    BY <1>2
  <2>2. q' = [q EXCEPT !.len = l]
    BY <1>3
  <2> HIDE DEF l
  <2> QED BY <1>2, <2>1, <2>2 DEF Rings
<1>5. pending # << >>
  BY <1>2, EmptySeq
<1>6. /\ pending' \in Seq(Calls) /\ owed' \in Calls /\ Len(pending') = q.len - 1
      /\ Whos(pending) \in Seq(Schedulables) /\ Whos(pending) # << >>
      /\ Whos(pending') = Tail(Whos(pending)) /\ owed'.who = Head(Whos(pending))
      /\ Len(Whos(pending)) <= n
  BY <1>2, <1>3, <1>5, WhosTail, WhosSeq
<1>7. q.slot[h] = Head(Whos(pending)) /\ Holds(n, q.slot, At(n, h, 1), Tail(Whos(pending)))
  <2> DEFINE s == Whos(pending)
             slot == q.slot
  <2>1. s \in Seq(Schedulables) /\ s # << >> /\ Len(s) <= n /\ Holds(n, slot, h, s)
        /\ h \in 0 .. n - 1
    BY <1>2, <1>6
  <2> HIDE DEF s, slot, h
  <2>2. slot[h] = Head(s) /\ Holds(n, slot, At(n, h, 1), Tail(s))
    BY <1>2, <2>1, HoldsTail
  <2> QED BY <2>2 DEF s, slot
<1>8. q.tail = At(n, At(n, h, 1), q.len - 1)
  <2> DEFINE l == q.len - 1
  <2>1. l \in 0 .. n /\ 1 \in 0 .. n /\ 1 + l <= n /\ 1 + l = q.len /\ h \in 0 .. n - 1
    BY <1>2
  <2> HIDE DEF l, h
  <2>2. At(n, At(n, h, 1), l) = At(n, h, 1 + l)
    BY <1>2, <2>1, AtSum
  <2> QED BY <1>2, <2>1, <2>2 DEF l, h
<1>9. HeadOf' = At(n, h, 1) /\ TailOf' = q.tail /\ LenOf' = q.len - 1
  BY <1>1, <1>4 DEF HeadOf, TailOf, LenOf
<1>10. RingPart'
  BY <1>2, <1>4, <1>6, <1>7, <1>8, <1>9 DEF RingPart
<1>11. StepPart'
  <2>1. q'.slot[q'.head] = owed'.who
    BY <1>4, <1>6, <1>7
  <2> QED BY <1>1, <1>3, <2>1 DEF StepPart, Calm, Popping, Pushing
<1>12. CallPart'
  BY <1>1, <1>3, <1>6 DEF CallPart, Popping, Busy, Pushing
<1>13. ValuePart'
  BY <1>1, <1>3 DEF ValuePart, clockVars
<1> QED BY <1>10, <1>11, <1>12, <1>13 DEF QueueInv

LEMMA PopHeadKeeps ==
  ASSUME QueueInv, PopHead
  PROVE  QueueInv'
<1> DEFINE n == QSize
<1>1. RingPart /\ StepPart /\ CallPart /\ ValuePart /\ pc = "popHead" /\ pc' = "popRead"
  BY DEF QueueInv, PopHead
<1>2. /\ q \in Rings /\ q.head \in 0 .. n - 1 /\ n \in Nat \ {0} /\ q.wrap = n
      /\ q.slot[q.head] = owed.who
  BY <1>1, KernelNumbers DEF RingPart, Rings, Ring!Slots, StepPart
<1>3. /\ q' = [q EXCEPT !.head = At(n, q.head, 1)] /\ reg' = q.head
      /\ UNCHANGED <<cur, ev, arg, go, exitCode, stime, pending, owed>> /\ UNCHANGED clockVars
  BY <1>2 DEF PopHead, Ring!After, At
<1>4. At(n, q.head, 1) \in 0 .. n - 1
  BY <1>2, AtRange, 1 \in 0 .. n
<1>5. /\ q'.len = q.len /\ q'.head = At(n, q.head, 1) /\ q'.tail = q.tail /\ q'.slot = q.slot
      /\ q' \in Rings
  BY <1>2, <1>3, <1>4 DEF Rings, Ring!Slots
<1>6. HeadOf' = HeadOf /\ TailOf' = TailOf /\ LenOf' = LenOf
  BY <1>1, <1>5 DEF HeadOf, TailOf, LenOf
<1>7. RingPart'
  <2>1. Whos(pending)' = Whos(pending)
    BY <1>3 DEF Whos
  <2> QED BY <1>1, <1>3, <1>5, <1>6, <2>1 DEF RingPart
<1>8. StepPart'
  BY <1>1, <1>2, <1>3, <1>5 DEF StepPart, Calm, Popping, Pushing
<1>9. CallPart'
  BY <1>1, <1>3 DEF CallPart, Popping, Busy, Pushing
<1>10. ValuePart'
  BY <1>1, <1>3 DEF ValuePart, clockVars
<1> QED BY <1>7, <1>8, <1>9, <1>10 DEF QueueInv

(***************************************************************************)
(* push() of a call from a task.                                           *)
(***************************************************************************)
LEMMA EvTailKeeps ==
  ASSUME QueueInv, EvTail
  PROVE  QueueInv'
<1> DEFINE n == QSize
<1>1. RingPart /\ StepPart /\ CallPart /\ ValuePart /\ pc = "evTail" /\ pc' = "evSlot"
  BY DEF QueueInv, EvTail
<1>2. /\ q \in Rings /\ q.tail \in 0 .. n - 1 /\ n \in Nat \ {0} /\ q.wrap = n /\ reg = q.tail
      /\ q.len < n
  BY <1>1, KernelNumbers DEF RingPart, Rings, Ring!Slots, StepPart, Pushing
<1>3. /\ q' = [q EXCEPT !.tail = At(n, reg, 1)]
      /\ UNCHANGED <<reg, cur, ev, arg, go, exitCode, stime, pending, owed>> /\ UNCHANGED clockVars
  BY <1>2 DEF EvTail, Ring!After, At
<1>4. At(n, reg, 1) \in 0 .. n - 1
  BY <1>2, AtRange, 1 \in 0 .. n
<1>5. /\ q'.len = q.len /\ q'.tail = At(n, reg, 1) /\ q'.head = q.head /\ q'.slot = q.slot
      /\ q' \in Rings
  BY <1>2, <1>3, <1>4 DEF Rings, Ring!Slots
<1>6. HeadOf' = HeadOf /\ TailOf' = TailOf /\ LenOf' = LenOf
  BY <1>1, <1>2, <1>3, <1>5 DEF HeadOf, TailOf, LenOf
<1>7. RingPart'
  <2>1. Whos(pending)' = Whos(pending)
    BY <1>3 DEF Whos
  <2> QED BY <1>1, <1>3, <1>5, <1>6, <2>1 DEF RingPart
<1>8. StepPart'
  BY <1>1, <1>2, <1>3, <1>5 DEF StepPart, Calm, Popping, Pushing
<1>9. CallPart'
  BY <1>1, <1>3 DEF CallPart, Popping, Busy, Pushing
<1>10. ValuePart'
  BY <1>1, <1>3 DEF ValuePart, clockVars
<1> QED BY <1>7, <1>8, <1>9, <1>10 DEF QueueInv

LEMMA EventsAreSchedulables == \A i \in 1 .. M : N + i \in Schedulables
BY KernelNumbers DEF Schedulables, Events, Tasks

LEMMA EvSlotKeeps ==
  ASSUME QueueInv, EvSlot
  PROVE  QueueInv'
<1> DEFINE n == QSize
           made == [who |-> N + ev, at |-> arg]
<1>1. RingPart /\ StepPart /\ CallPart /\ ValuePart /\ pc = "evSlot" /\ pc' = "evLoad"
  BY DEF QueueInv, EvSlot
<1>2. HeadOf = q.head /\ TailOf = reg /\ LenOf = q.len
  BY <1>1 DEF HeadOf, TailOf, LenOf
<1>3. /\ q \in Rings /\ q.head \in 0 .. n - 1 /\ n \in Nat \ {0} /\ reg \in 0 .. n - 1
      /\ q.len < n /\ q.len \in Nat /\ ev \in 1 .. M /\ q.tail = At(n, reg, 1)
      /\ q.slot \in [0 .. n - 1 -> Schedulables \cup {Nobody}]
      /\ pending \in Seq(Calls) /\ Len(pending) = q.len /\ reg = At(n, q.head, q.len)
      /\ Holds(n, q.slot, q.head, Whos(pending))
  <2>1. /\ q \in Rings /\ pending \in Seq(Calls) /\ Len(pending) = q.len
        /\ reg = At(n, q.head, q.len) /\ Holds(n, q.slot, q.head, Whos(pending))
    BY <1>1, <1>2 DEF RingPart
  <2>2. reg \in 0 .. n - 1 /\ q.len < n /\ ev \in 1 .. M /\ q.tail = At(n, reg, 1)
    BY <1>1 DEF StepPart, Pushing
  <2>3. /\ q.head \in 0 .. n - 1 /\ q.len \in Nat
        /\ q.slot \in [0 .. n - 1 -> Schedulables \cup {Nobody}]
    BY <2>1, KernelNumbers DEF Rings, Ring!Slots
  <2> QED BY <2>1, <2>2, <2>3, KernelNumbers
<1>4. /\ q' = [q EXCEPT !.slot[reg] = N + ev] /\ pending' = Append(pending, made)
      /\ UNCHANGED <<reg, cur, ev, arg, go, exitCode, stime, owed>> /\ UNCHANGED clockVars
  BY DEF EvSlot
<1>5. N + ev \in Schedulables /\ made \in Calls /\ made.who = N + ev
  BY <1>1, <1>3, EventsAreSchedulables DEF Calls, ValuePart
<1> HIDE DEF made
<1>6. /\ q'.slot = [q.slot EXCEPT ![reg] = N + ev] /\ q'.len = q.len /\ q'.head = q.head
      /\ q'.tail = q.tail /\ q' \in Rings
  BY <1>3, <1>4, <1>5 DEF Rings, Ring!Slots
<1>7. /\ pending' \in Seq(Calls) /\ Len(pending') = q.len + 1
      /\ Whos(pending') = Append(Whos(pending), N + ev)
  BY <1>3, <1>4, <1>5, WhosAppend
<1>8. Holds(n, q'.slot, q.head, Whos(pending'))
  <2> DEFINE s == Whos(pending)
             slot == q.slot
             h == q.head
             v == N + ev
  <2>1. /\ s \in Seq(Schedulables) /\ Len(s) < n /\ Holds(n, slot, h, s) /\ h \in 0 .. n - 1
        /\ reg = At(n, h, Len(s)) /\ v \in Schedulables
        /\ slot \in [0 .. n - 1 -> Schedulables \cup {Nobody}]
    BY <1>3, <1>5, WhosSeq
  <2> HIDE DEF s, slot, h, v
  <2>2. Holds(n, [slot EXCEPT ![reg] = v], h, Append(s, v))
    BY <1>3, <2>1, HoldsAppend
  <2> QED BY <1>6, <1>7, <2>2 DEF s, slot, h, v
<1>9. At(n, reg, 1) = At(n, q.head, q.len + 1)
  <2> DEFINE l == q.len
             h == q.head
  <2>1. l \in 0 .. n /\ 1 \in 0 .. n /\ l + 1 <= n /\ h \in 0 .. n - 1 /\ reg = At(n, h, l)
    BY <1>3
  <2> HIDE DEF l, h
  <2>2. At(n, At(n, h, l), 1) = At(n, h, l + 1)
    BY <1>3, <2>1, AtSum
  <2> QED BY <2>1, <2>2 DEF l, h
<1>10. HeadOf' = q.head /\ TailOf' = q.tail /\ LenOf' = q.len + 1
  BY <1>1, <1>6 DEF HeadOf, TailOf, LenOf
<1>11. RingPart'
  BY <1>3, <1>6, <1>7, <1>8, <1>9, <1>10 DEF RingPart
<1>12. StepPart'
  BY <1>1, <1>3, <1>4, <1>6 DEF StepPart, Calm, Popping, Pushing
<1>13. CallPart'
  BY <1>1, <1>4 DEF CallPart, Popping, Busy, Pushing
<1>14. ValuePart'
  BY <1>1, <1>4 DEF ValuePart, clockVars
<1> QED BY <1>11, <1>12, <1>13, <1>14 DEF QueueInv

LEMMA EvStoreKeeps ==
  ASSUME QueueInv, EvStore
  PROVE  QueueInv'
<1> DEFINE n == QSize
           l == reg + 1
<1>1. RingPart /\ StepPart /\ CallPart /\ ValuePart /\ pc = "evStore" /\ pc' = "ev"
  BY DEF QueueInv, EvStore
<1>2. /\ q \in Rings /\ reg = q.len /\ q.len \in Nat /\ q.len < n /\ n \in Nat
      /\ ev \in 1 .. M /\ M \in Nat
  BY <1>1, KernelNumbers DEF RingPart, Rings, StepPart, Pushing
<1>3. /\ q' = [q EXCEPT !.len = l] /\ ev' = ev + 1
      /\ UNCHANGED <<reg, cur, arg, go, exitCode, stime, pending, owed>> /\ UNCHANGED clockVars
  BY DEF EvStore
<1>4. l \in 0 .. n /\ l = q.len + 1
  BY <1>2
<1> HIDE DEF l
<1>5. /\ q'.len = q.len + 1 /\ q'.tail = q.tail /\ q'.head = q.head /\ q'.slot = q.slot
      /\ q' \in Rings
  BY <1>2, <1>3, <1>4 DEF Rings
<1>6. HeadOf' = HeadOf /\ TailOf' = TailOf /\ LenOf' = LenOf
  BY <1>1, <1>5 DEF HeadOf, TailOf, LenOf
<1>7. RingPart'
  <2>1. Whos(pending)' = Whos(pending)
    BY <1>3 DEF Whos
  <2> QED BY <1>1, <1>3, <1>5, <1>6, <2>1 DEF RingPart
<1>8. StepPart'
  BY <1>1, <1>2, <1>3, <1>5 DEF StepPart, Calm, Popping, Pushing
<1>9. CallPart'
  BY <1>1, <1>3 DEF CallPart, Popping, Busy, Pushing
<1>10. ValuePart'
  BY <1>1, <1>3 DEF ValuePart, clockVars
<1> QED BY <1>7, <1>8, <1>9, <1>10 DEF QueueInv

(***************************************************************************)
(* The steps that leave the queue alone.                                   *)
(***************************************************************************)
LEMMA LoadsKeep ==
  ASSUME QueueInv, PopLoad \/ PopRead \/ EvPush \/ EvLoad
  PROVE  QueueInv'
<1>1. RingPart /\ StepPart /\ CallPart /\ ValuePart
  BY DEF QueueInv
<1>2. /\ q \in Rings /\ q.len \in 0 .. QSize /\ q.tail \in 0 .. QSize - 1 /\ q.size = QSize
      /\ QSize \in Nat \ {0}
  BY <1>1, KernelNumbers DEF RingPart, Rings, Ring!Slots
<1>3. UNCHANGED <<clockVars, stime, queueVars, go, exitCode, arg, ev>>
  BY DEF PopLoad, PopRead, EvPush, EvLoad
<1>4. q' = q /\ pending' = pending /\ owed' = owed /\ ev' = ev
  BY <1>3 DEF queueVars
<1>5. /\ \/ pc = "pop" /\ pc' = "popDec" /\ reg' = q.len /\ cur' = cur
         \/ pc = "popRead" /\ pc' = "call" /\ reg' = reg /\ cur' = q.slot[reg]
         \/ pc = "evPush" /\ pc' = "evTail" /\ reg' = q.tail /\ cur' = cur
         \/ pc = "evLoad" /\ pc' = "evStore" /\ reg' = q.len /\ cur' = cur
  BY <1>1, <1>2 DEF PopLoad, PopRead, EvPush, EvLoad, StepPart, Pushing
<1>6. RingPart'
  <2>1. HeadOf' = HeadOf /\ TailOf' = TailOf /\ LenOf' = LenOf
    BY <1>4, <1>5 DEF HeadOf, TailOf, LenOf
  <2> QED BY <1>1, <1>4, <2>1, RingStays
<1>7. StepPart'
  BY <1>1, <1>2, <1>4, <1>5 DEF StepPart, Calm, Popping, Pushing
<1>8. CallPart'
  <2>1. \A c \in Calls : c.who \in Schedulables
    BY DEF Calls
  <2> QED BY <1>1, <1>4, <1>5, <2>1 DEF CallPart, StepPart, Popping, Busy, Pushing
<1>9. ValuePart'
  BY <1>1, <1>3 DEF ValuePart, clockVars
<1> QED BY <1>6, <1>7, <1>8, <1>9 DEF QueueInv

LEMMA OthersKeepQueue ==
  ASSUME QueueInv,
         \/ Loop \/ Run \/ Sleep \/ Call \/ Return \/ Exit \/ Trigger \/ EvEnd \/ EvSchedule
         \/ OtherInterrupt \/ Interrupted \/ Crashed
  PROVE  QueueInv'
<1>1. RingPart /\ StepPart /\ CallPart /\ ValuePart
  BY DEF QueueInv
<1>2. QSize \in Nat \ {0} /\ M \in Nat /\ q.len \in 0 .. QSize /\ q.size = QSize
  BY <1>1, KernelNumbers DEF RingPart, Rings
<1>3. q' = q /\ pending' = pending /\ UNCHANGED clockVars
  BY DEF queueVars, Loop, Run, Sleep, Call, Return, Exit, Trigger, EvEnd, EvSchedule,
         OtherInterrupt, Interrupted, Crashed
<1>4. RingPart'
  <2>1. CASE Interrupted
    <3>1. HeadOf' = HeadOf /\ TailOf' = TailOf /\ LenOf' = LenOf
      BY <1>3, <2>1 DEF Interrupted, HeadOf, TailOf, LenOf
    <3> QED BY <1>1, <1>3, <3>1, RingStays
  <2>2. CASE ~Interrupted
    <3>1. Between(pc) /\ Between(pc')
      BY <2>2 DEF Loop, Run, Sleep, Call, Return, Exit, Trigger, EvEnd, EvSchedule,
                  OtherInterrupt, Crashed, Between
    <3> QED BY <1>1, <1>3, <3>1, RingBetween
  <2> QED BY <2>1, <2>2
<1>5. StepPart'
  <2>1. CASE Interrupted
    BY <1>1, <1>3, <2>1 DEF Interrupted, StepPart, queueVars
  <2>2. CASE Loop \/ Sleep \/ OtherInterrupt \/ Call
    BY <1>1, <1>3, <2>2 DEF Loop, Sleep, OtherInterrupt, Call, StepPart, Calm, Popping, Pushing
  <2>3. CASE Run
    BY <1>1, <1>3, <2>3 DEF Run, Ring!Empty, StepPart, Calm, Popping, Pushing
  <2>4. CASE Return \/ Crashed \/ Exit
    BY <1>1, <1>2, <1>3, <2>4 DEF Return, Crashed, Exit, StepPart, Calm, Popping, Pushing
  <2>5. CASE Trigger \/ EvEnd
    BY <1>1, <1>2, <1>3, <2>5 DEF Trigger, EvEnd, StepPart, Calm, Popping, Pushing
  <2>6. CASE EvSchedule
    BY <1>1, <1>2, <1>3, <2>6 DEF EvSchedule, Ring!Full, StepPart, Calm, Popping, Pushing
  <2> QED BY <2>1, <2>2, <2>3, <2>4, <2>5, <2>6
<1>6. CallPart'
  <2>1. CASE Return \/ Crashed
    BY <1>1, <2>1 DEF Return, Crashed, CallPart, Popping, Busy, Pushing
  <2>2. CASE ~(Return \/ Crashed)
    <3>1. owed' = owed /\ cur' = cur
      BY <2>2 DEF queueVars, Loop, Run, Sleep, Call, Exit, Trigger, EvEnd, EvSchedule,
                  OtherInterrupt, Interrupted
    <3>2. pc' \in Popping \cup Busy => pc \in Popping \cup Busy /\ (pc' \in Busy => pc \in Busy)
      BY <2>2 DEF Loop, Run, Sleep, Call, Exit, Trigger, EvEnd, EvSchedule,
                  OtherInterrupt, Interrupted, Popping, Busy, Pushing
    <3> QED BY <1>1, <3>1, <3>2 DEF CallPart
  <2> QED BY <2>1, <2>2
<1>7. ValuePart'
  <2>1. preempt' = preempt /\ time' = time /\ next' = next /\ since' = since
    BY <1>3 DEF clockVars
  <2>2. go' \in BOOLEAN /\ exitCode' \in {0, 127, -1}
    BY <1>1 DEF ValuePart, Loop, Run, Sleep, Call, Return, Exit, Trigger, EvEnd, EvSchedule,
                OtherInterrupt, Interrupted, Crashed
  <2>3. arg' \in 0 .. TimeMod - 1
    <3>1. CASE Call
      <4>1. \A c \in Calls : c.who \in Schedulables
        BY DEF Calls
      <4> QED BY <1>1, <3>1, <4>1 DEF Call, ValuePart, CallPart, Busy
    <3>2. CASE ~Call
      BY <1>1, <3>2, KernelNumbers DEF ValuePart, Loop, Run, Sleep, Return, Exit, Trigger, EvEnd,
                     EvSchedule, OtherInterrupt, Interrupted, Crashed
    <3> QED BY <3>1, <3>2
  <2>4. stime' \in [Schedulables -> 0 .. TimeMod - 1]
    BY <1>1 DEF ValuePart, Loop, Run, Sleep, Call, Return, Exit, Trigger, EvEnd, EvSchedule,
                OtherInterrupt, Interrupted, Crashed
  <2> QED BY <1>1, <2>1, <2>2, <2>3, <2>4 DEF ValuePart
<1> QED BY <1>4, <1>5, <1>6, <1>7 DEF QueueInv

LEMMA QueueNext ==
  ASSUME OffTheQueue, QueueInv, [Next]_vars
  PROVE  QueueInv'
<1>1. CASE IdleTick \/ SysTick
  BY <1>1, TickKeepsQueue
<1>2. CASE PopDec \/ PopHead
  BY <1>2, PopDecKeeps, PopHeadKeeps
<1>3. CASE EvTail \/ EvSlot \/ EvStore
  BY <1>3, EvTailKeeps, EvSlotKeeps, EvStoreKeeps
<1>4. CASE PopLoad \/ PopRead \/ EvPush \/ EvLoad
  BY <1>4, LoadsKeep
<1>5. CASE \/ Loop \/ Run \/ Sleep \/ Call \/ Return \/ Exit \/ Trigger \/ EvEnd \/ EvSchedule
           \/ OtherInterrupt \/ Interrupted \/ Crashed
  BY <1>5, OthersKeepQueue
<1>6. CASE UNCHANGED vars
  <2>1. RingPart'
    <3>1. HeadOf' = HeadOf /\ TailOf' = TailOf /\ LenOf' = LenOf /\ UNCHANGED <<q, pending>>
      BY <1>6 DEF vars, HeadOf, TailOf, LenOf
    <3> QED BY <3>1, RingStays DEF QueueInv
  <2>2. StepPart' /\ CallPart' /\ ValuePart'
    BY <1>6 DEF vars, QueueInv, StepPart, CallPart, ValuePart
  <2> QED BY <2>1, <2>2 DEF QueueInv
<1> QED BY <1>1, <1>2, <1>3, <1>4, <1>5, <1>6 DEF Next, Main

LEMMA QueueInvariant ==
  ASSUME OffTheQueue
  PROVE  Spec => []QueueInv
<1>1. Init => QueueInv
  BY QueueInit
<1>2. QueueInv /\ [Next]_vars => QueueInv'
  BY QueueNext
<1> QED BY <1>1, <1>2, PTL DEF Spec

(***************************************************************************)
(* No scheduled call is lost and none is queued twice, for every registry, *)
(* every queue size and every interleaving of the clock with the main loop *)
(* that leaves the operations of the queue alone.                          *)
(***************************************************************************)
THEOREM KernelRingMatches ==
  ASSUME OffTheQueue
  PROVE  Spec => []RingMatches
<1>1. QueueInv => RingMatches
  <2> SUFFICES ASSUME QueueInv PROVE RingMatches
    OBVIOUS
  <2>1. RingPart /\ StepPart /\ CallPart /\ ValuePart
    BY DEF QueueInv
  <2>2. TypeOK
    <3>1. q \in Rings /\ pending \in Seq(Calls) /\ Len(pending) <= QSize
      BY <2>1, KernelNumbers DEF RingPart
    <3>2. \A k \in DOMAIN pending : pending[k] \in Calls
      BY <3>1, ElementOfSeq, LenProperties
    <3>3. Len(pending) <= QSize + 1
      BY <3>1, KernelNumbers, LenProperties
    <3> QED BY <2>1, <3>1, <3>2, <3>3 DEF TypeOK, ValuePart, CallPart, StepPart, Rings
  <2>3. ASSUME Between(pc)
        PROVE  Ring!Items(q) = [k \in 1 .. Len(pending) |-> pending[k].who]
    <3>1. /\ Len(pending) = q.len /\ q.wrap = QSize
          /\ Holds(QSize, q.slot, q.head, Whos(pending))
          /\ Len(Whos(pending)) = Len(pending)
      BY <2>1, <2>3, RingThere, WhosSeq
    <3>2. \A k \in 1 .. Len(pending) : q.slot[(q.head + (k - 1)) % q.wrap] = pending[k].who
      BY <3>1 DEF Holds, At, Whos
    <3> QED BY <3>1, <3>2 DEF Ring!Items, Ring!GetAt
  <2> QED BY <2>2, <2>3 DEF RingMatches, Between
<1> QED BY <1>1, QueueInvariant, PTL

(***************************************************************************)
(* The order of the calls, and the times they are given.  In a single      *)
(* thread all calls of a drain of the queue carry the time of the tick     *)
(* that began it, which is still the one their schedulables recorded.      *)
(***************************************************************************)
Same(t) == \A k \in 1 .. Len(pending) : pending[k].at = t /\ stime[pending[k].who] = t

SinglePart ==
  preempt = "idle" =>
    /\ pc \in {"sleep", "idle"} => pending = << >>
    /\ pc \in {"loop", "run", "pop", "popDec"} => \E t \in Nat : Same(t)
    /\ pc \in Popping \cup {"call"} => Same(owed.at) /\ stime[owed.who] = owed.at
    /\ pc \in {"body", "ev"} \cup Pushing => arg = owed.at /\ Same(owed.at)
    /\ pc \in {"evPush", "evTail", "evSlot"} => stime[N + ev] = arg

LEMMA SingleInit == Init => SinglePart
<1> SUFFICES ASSUME Init PROVE SinglePart
  OBVIOUS
<1>1. Same(0)
  <2>1. Len(pending) = 0
    BY EmptySeq DEF Init
  <2> QED BY <2>1 DEF Same
<1>2. \E t \in Nat : Same(t)
  BY <1>1
<1> QED BY <1>2 DEF Init, SinglePart, Popping, Pushing

LEMMA SameStays ==
  ASSUME UNCHANGED <<pending, stime>>, NEW t
  PROVE  Same(t)' <=> Same(t)
BY DEF Same

\* The tick of a single thread finds the queue empty.
LEMMA SingleTick ==
  ASSUME OffTheQueue, QueueInv, SinglePart, IdleTick \/ SysTick
  PROVE  /\ SinglePart'
         /\ preempt = "idle" => pending = << >>
<1> SUFFICES ASSUME preempt = "idle" PROVE SinglePart' /\ pending = << >>
  BY TickCalm DEF SinglePart
<1>1. TickBody /\ pc = "idle" /\ pc' = "loop" /\ pending = << >> /\ Len(pending) = 0
  BY EmptySeq DEF SinglePart, IdleTick, SysTick, Interruptible
<1>2. /\ q.size - q.len \in Nat /\ pending \in Seq(Calls) /\ RingPart /\ ValuePart
  <2>1. Between(pc)
    BY <1>1 DEF Between
  <2>2. RingPart /\ ValuePart
    BY DEF QueueInv
  <2>3. q.size = QSize /\ q.len \in 0 .. QSize /\ pending \in Seq(Calls)
    BY <2>2 DEF RingPart, Rings
  <2> DEFINE c == q.len
  <2>4. q.size = QSize /\ c \in 0 .. QSize /\ QSize \in Nat
    BY <2>3, KernelNumbers
  <2> HIDE DEF c
  <2>5. QSize - c \in Nat
    BY <2>4
  <2>6. q.size - q.len = QSize - c
    BY <2>4 DEF c
  <2> QED BY <2>2, <2>3, <2>5, <2>6
<1>3. Batch \in Seq(Tasks) /\ \A k \in 1 .. Len(Batch) : Batch[k] \in Taken
  BY <1>2, BatchFits
<1> DEFINE b == Batch
           made == [k \in 1 .. Len(b) |-> [who |-> b[k], at |-> time]]
<1>4. pending' = pending \o made
  BY <1>1 DEF TickBody
<1>5. \A i \in Taken : stime'[i] = time /\ i \in Schedulables
  <2>1. Taken \subseteq Schedulables
    BY TakenAreDue, KernelNumbers
  <2>2. stime' = [s \in Schedulables |-> IF s \in Taken THEN time ELSE stime[s]]
    BY <1>1 DEF TickBody
  <2> QED BY <2>1, <2>2
<1> HIDE DEF b
<1>6. pending' = made
  <2>1. Len(b) \in Nat /\ \A k \in 1 .. Len(b) : b[k] \in Tasks
    BY <1>3, LenProperties, ElementOfSeq DEF b
  <2>2. \A k \in 1 .. Len(b) : [who |-> b[k], at |-> time] \in Calls
    BY <1>2, <2>1, KernelNumbers DEF ValuePart, Calls
  <2>3. made \in Seq(Calls)
    BY <2>1, <2>2
  <2> HIDE DEF made
  <2> QED BY <1>1, <1>4, <2>3, ConcatEmptySeq
<1>7. PICK t \in Nat : t = time
  BY <1>2, KernelNumbers DEF ValuePart
<1>8. Same(t)'
  <2>1. Len(made) = Len(b)
    BY <1>3, LenProperties DEF b
  <2>2. \A k \in 1 .. Len(b) : made[k].at = time /\ made[k].who = b[k]
    OBVIOUS
  <2>3. \A k \in 1 .. Len(b) : stime'[b[k]] = time
    BY <1>3, <1>5 DEF b
  <2> HIDE DEF made
  <2>4. \A k \in 1 .. Len(pending') : pending'[k].at = time /\ stime'[pending'[k].who] = time
    BY <1>6, <2>1, <2>2, <2>3
  <2> QED BY <1>7, <2>4 DEF Same
<1>9. \E u \in Nat : Same(u)'
  BY <1>7, <1>8
<1> QED BY <1>1, <1>9 DEF SinglePart, Popping, Pushing

\* In every drain there is one time that all calls carry.
LEMMA SomeTime ==
  ASSUME RingPart, NEW t, Same(t)
  PROVE  \E u \in Nat : Same(u)
<1>1. CASE Len(pending) = 0
  <2>1. Same(0)
    BY <1>1 DEF Same
  <2> QED BY <2>1
<1>2. CASE Len(pending) # 0
  <2>1. pending \in Seq(Calls) /\ 1 \in 1 .. Len(pending)
    BY <1>2, LenProperties DEF RingPart
  <2>2. pending[1] \in Calls /\ pending[1].at = t
    BY <2>1, ElementOfSeq DEF Same
  <2>3. pending[1].at \in Nat
    BY <2>2, KernelNumbers DEF Calls
  <2> QED BY <2>2, <2>3
<1> QED BY <1>1, <1>2

\* A push of a task's call carries the time the task was given.
LEMMA SamePush ==
  ASSUME QueueInv, SinglePart, preempt = "idle", EvSchedule \/ EvSlot
  PROVE  Same(owed.at)' /\ owed' = owed /\ arg' = arg /\ arg = owed.at /\ stime'[N + ev] = arg
<1>1. /\ pending \in Seq(Calls) /\ Len(pending) \in Nat /\ arg = owed.at /\ owed' = owed
      /\ arg' = arg /\ Same(owed.at) /\ stime \in [Schedulables -> 0 .. TimeMod - 1]
      /\ arg \in 0 .. TimeMod - 1
  BY LenProperties DEF QueueInv, RingPart, ValuePart, SinglePart, EvSchedule, EvSlot, queueVars,
     Pushing
<1>2. ev \in 1 .. M
  BY KernelNumbers DEF QueueInv, StepPart, EvSchedule, EvSlot, Pushing
<1>3. N + ev \in Schedulables
  BY <1>2, EventsAreSchedulables
<1>4. CASE EvSchedule
  <2>1. stime' = [stime EXCEPT ![N + ev] = arg] /\ pending' = pending
    BY <1>4 DEF EvSchedule, queueVars
  <2>2. stime'[N + ev] = arg
    BY <1>1, <1>3, <2>1
  <2>3. ASSUME NEW k \in 1 .. Len(pending)
        PROVE  pending[k].at = owed.at /\ stime'[pending[k].who] = owed.at
    <3>1. pending[k].at = owed.at /\ stime[pending[k].who] = owed.at
      BY <1>1 DEF Same
    <3>2. pending[k] \in Calls
      BY <1>1, ElementOfSeq
    <3>3. pending[k].who \in Schedulables
      BY <3>2 DEF Calls
    <3> QED BY <1>1, <1>3, <2>1, <3>1, <3>3
  <2> QED BY <1>1, <2>1, <2>2, <2>3 DEF Same
<1>5. CASE EvSlot
  <2> DEFINE made == [who |-> N + ev, at |-> arg]
  <2>1. stime' = stime /\ pending' = Append(pending, made) /\ made.at = arg /\ made.who = N + ev
    BY <1>5 DEF EvSlot
  <2>2. stime[N + ev] = arg
    BY <1>5 DEF SinglePart, EvSlot
  <2>3. made \in Calls
    BY <1>1, <1>3 DEF Calls
  <2> HIDE DEF made
  <2>4. /\ Len(pending') = Len(pending) + 1
        /\ \A k \in 1 .. Len(pending) : pending'[k] = pending[k]
        /\ pending'[Len(pending) + 1] = made
    BY <1>1, <2>1, <2>3, AppendProperties
  <2>5. \A k \in 1 .. Len(pending') : k \in 1 .. Len(pending) \/ k = Len(pending) + 1
    BY <1>1, <2>4
  <2>6. \A k \in 1 .. Len(pending') : pending'[k].at = owed.at /\ stime[pending'[k].who] = owed.at
    BY <1>1, <2>1, <2>2, <2>4, <2>5 DEF Same
  <2> QED BY <1>1, <2>1, <2>2, <2>6 DEF Same
<1> QED BY <1>4, <1>5

LEMMA SingleNext ==
  ASSUME OffTheQueue, QueueInv, SinglePart, [Next]_vars
  PROVE  SinglePart'
<1> SUFFICES ASSUME preempt = "idle", ~(IdleTick \/ SysTick) PROVE SinglePart'
  <2>1. preempt' = preempt \/ IdleTick \/ SysTick
    BY DEF Next, Main, vars, clockVars, Loop, Run, Sleep, PopLoad, PopDec, PopHead, PopRead, Call,
           Return, Exit, Trigger, EvEnd, EvSchedule, EvPush, EvTail, EvSlot, EvLoad, EvStore,
           OtherInterrupt, Interrupted, Crashed
  <2> QED BY <2>1, SingleTick DEF SinglePart
<1>1. RingPart /\ StepPart /\ CallPart /\ ValuePart
  BY DEF QueueInv
<1> DEFINE S == \E t \in Nat : Same(t)
<1>2. ASSUME UNCHANGED <<pending, stime>> PROVE (S' <=> S) /\ \A t : Same(t)' <=> Same(t)
  BY <1>2, SameStays
<1>3. Same(owed.at) => S
  BY <1>1, SomeTime
<1> HIDE DEF S
<1>4. CASE UNCHANGED vars \/ Interrupted
  <2>1. UNCHANGED <<pc, owed, arg, ev, stime, pending, preempt>>
    BY <1>4 DEF vars, Interrupted, queueVars, clockVars
  <2> QED BY <1>2, <2>1 DEF SinglePart, S
<1>5. CASE Return \/ Crashed
  <2>1. pc = "body" /\ pc' \in {"run", "loop"} /\ UNCHANGED <<pending, stime>>
    BY <1>5 DEF Return, Crashed
  <2>2. S'
    BY <1>2, <1>3, <2>1 DEF SinglePart
  <2> QED BY <2>1, <2>2 DEF SinglePart, S, Popping, Pushing
<1>6. CASE Loop \/ Run \/ Sleep \/ PopLoad
  <2>1. /\ UNCHANGED <<pending, stime>>
        /\ \/ pc = "loop" /\ pc' \in {"run", "done"}
           \/ pc = "run" /\ pc' = "pop"
           \/ pc = "run" /\ pc' = "sleep" /\ q.len = 0
           \/ pc = "sleep" /\ pc' = "idle"
           \/ pc = "pop" /\ pc' = "popDec"
    BY <1>6 DEF Loop, Run, Sleep, PopLoad, queueVars, Ring!Empty
  <2>2. pc' = "sleep" => pending = << >>
    <3> SUFFICES ASSUME pc' = "sleep" PROVE pending = << >>
      OBVIOUS
    <3>1. pc = "run" /\ q.len = 0
      BY <2>1
    <3>2. Len(pending) = 0 /\ pending \in Seq(Calls)
      BY <1>1, <3>1, RingThere DEF Between
    <3> QED BY <3>2, EmptySeq
  <2>3. pc \in {"loop", "run", "pop"} => S
    BY DEF SinglePart, S
  <2>4. pc' \in {"loop", "run", "pop", "popDec"} => S'
    BY <1>2, <2>1, <2>3
  <2>5. pc = "sleep" => pending = << >>
    BY DEF SinglePart
  <2>6. pc' \in {"sleep", "idle"} => pending' = << >>
    BY <2>1, <2>2, <2>5
  <2>7. pc' \in {"loop", "run", "pop", "popDec", "sleep", "idle", "done"}
    BY <2>1
  <2> QED BY <2>4, <2>6, <2>7 DEF SinglePart, S, Popping, Pushing
<1>7. CASE PopDec
  <2>1. /\ pc = "popDec" /\ pc' = "popHead" /\ stime' = stime
        /\ owed' = Head(pending) /\ pending' = Tail(pending)
    BY <1>7 DEF PopDec
  <2>2. pending \in Seq(Calls) /\ Len(pending) = q.len /\ q.len # 0
    BY <1>1, <2>1, RingThere DEF Between, StepPart
  <2>3. pending # << >>
    BY <2>2, EmptySeq
  <2>4. PICK t \in Nat : Same(t)
    BY <2>1 DEF SinglePart
  <2>5. /\ Head(pending) = pending[1] /\ 1 \in 1 .. Len(pending) /\ Len(pending) \in Nat
        /\ Len(pending') = Len(pending) - 1
        /\ \A k \in 1 .. Len(pending) - 1 : pending'[k] = pending[k + 1]
    BY <2>1, <2>2, <2>3, HeadTailProperties, EmptySeq, LenProperties
  <2>6. owed'.at = t /\ stime[owed'.who] = t
    BY <2>1, <2>4, <2>5 DEF Same
  <2>7. \A k \in 1 .. Len(pending') : pending'[k].at = t /\ stime[pending'[k].who] = t
    <3>1. \A k \in 1 .. Len(pending) - 1 : k + 1 \in 1 .. Len(pending)
      BY <2>5
    <3> QED BY <2>4, <2>5, <3>1 DEF Same
  <2>8. Same(t)'
    BY <2>1, <2>7 DEF Same
  <2> QED BY <2>1, <2>6, <2>8 DEF SinglePart, Popping, Pushing
<1>8. CASE PopHead \/ PopRead \/ Call
  <2>1. /\ UNCHANGED <<pending, stime, owed>> /\ pc \in Popping \cup {"call"}
        /\ \/ pc' \in {"popRead", "call"}
           \/ pc = "call" /\ pc' = "body" /\ arg' = stime[cur]
    BY <1>8 DEF PopHead, PopRead, Call, queueVars, Popping
  <2>2. Same(owed.at) /\ stime[owed.who] = owed.at
    BY <2>1 DEF SinglePart
  <2>3. Same(owed.at)' /\ stime'[owed'.who] = owed'.at
    BY <1>2, <2>1, <2>2
  <2>4. pc' = "body" => arg' = owed'.at
    BY <1>1, <2>1, <2>2 DEF CallPart, Busy
  <2>5. pc' \in {"popRead", "call", "body"}
    BY <2>1
  <2> QED BY <2>3, <2>4, <2>5 DEF SinglePart, Popping, Pushing
<1>9. CASE Exit \/ Trigger \/ EvEnd \/ EvPush \/ EvTail \/ EvLoad \/ EvStore
  <2>1. /\ UNCHANGED <<pending, stime, owed, arg>>
        /\ pc \in {"body", "ev"} \cup Pushing /\ pc' \in {"body", "ev", "halt"} \cup Pushing
        /\ pc' \in {"evPush", "evTail", "evSlot"} =>
             pc \in {"evPush", "evTail", "evSlot"} /\ ev' = ev
    BY <1>9 DEF Exit, Trigger, EvEnd, EvPush, EvTail, EvLoad, EvStore, queueVars, Pushing
  <2>2. arg = owed.at /\ Same(owed.at)
    BY <2>1 DEF SinglePart
  <2>3. arg' = owed'.at /\ Same(owed.at)'
    BY <1>2, <2>1, <2>2
  <2>4. pc' \in {"evPush", "evTail", "evSlot"} => stime'[N + ev'] = arg'
    BY <2>1 DEF SinglePart
  <2> QED BY <2>1, <2>3, <2>4 DEF SinglePart, Popping, Pushing
<1>10. CASE EvSchedule \/ EvSlot
  <2>1. Same(owed.at)' /\ owed' = owed /\ arg' = arg /\ arg = owed.at /\ stime'[N + ev] = arg
    BY <1>10, SamePush
  <2>2. pc' \in {"evPush", "evLoad"} /\ ev' = ev
    BY <1>10 DEF EvSchedule, EvSlot
  <2> QED BY <2>1, <2>2 DEF SinglePart, Popping, Pushing
<1> QED BY <1>4, <1>5, <1>6, <1>7, <1>8, <1>9, <1>10 DEF Next, Main, OtherInterrupt

LEMMA SingleInvariant ==
  ASSUME OffTheQueue
  PROVE  Spec => [](QueueInv /\ SinglePart)
<1>1. Init => QueueInv /\ SinglePart
  BY QueueInit, SingleInit
<1>2. QueueInv /\ SinglePart /\ [Next]_vars => (QueueInv /\ SinglePart)'
  BY QueueNext, SingleNext
<1> QED BY <1>1, <1>2, PTL DEF Spec

(***************************************************************************)
(* pop() returns the calls in the order they were scheduled, and in a      *)
(* single thread each is given the time at which it was scheduled.         *)
(***************************************************************************)
THEOREM KernelCalledInOrder ==
  ASSUME OffTheQueue
  PROVE  Spec => []CalledInOrder
<1>1. QueueInv /\ SinglePart => CalledInOrder
  BY DEF QueueInv, CallPart, SinglePart, CalledInOrder, Busy
<1> QED BY <1>1, SingleInvariant, PTL

(***************************************************************************)
(* Kernel::tick exits with 127 only when the queue is full, and in a       *)
(* single thread only if the registry is larger than the queue.            *)
(***************************************************************************)
THEOREM KernelDiesOnlyWhenFull ==
  ASSUME OffTheQueue
  PROVE  Spec => DiesOnlyWhenFull
<1> DEFINE Full == exitCode' = 127 /\ exitCode # 127 =>
                     Len(pending') = QSize /\ ~(preempt = "idle" /\ N <= QSize)
<1>1. QueueInv /\ SinglePart /\ [Next]_vars => [Full]_vars
  <2> SUFFICES ASSUME QueueInv, SinglePart, [Next]_vars, exitCode' = 127, exitCode # 127
               PROVE  Len(pending') = QSize /\ ~(preempt = "idle" /\ N <= QSize)
    OBVIOUS
  <2>1. IdleTick \/ SysTick
    BY DEF Next, Main, vars, Loop, Run, Sleep, PopLoad, PopDec, PopHead, PopRead, Call,
           Return, Exit, Trigger, EvEnd, EvSchedule, EvPush, EvTail, EvSlot, EvLoad, EvStore,
           OtherInterrupt, Interrupted, Crashed
  <2>2. TickBody /\ Between(pc) /\ Between(pc') /\ RingPart /\ ValuePart
    BY <2>1, TickCalm DEF QueueInv
  <2>3. \E i \in Tasks : ~Reached(i)
    BY <2>2 DEF TickBody
  <2>4. Len(pending') = QSize /\ QSize - Len(pending) < N
    BY <2>2, <2>3, TickRing
  <2>5. preempt = "idle" => Len(pending) = 0
    BY <2>1, SingleTick, EmptySeq
  <2> QED BY <2>4, <2>5, KernelNumbers
<1> QED BY <1>1, SingleInvariant, PTL DEF Spec, DiesOnlyWhenFull

(***************************************************************************)
(* The main loop goes to sleep only when every scheduled call was made,    *)
(* provided that no tick comes in the middle of an operation of the queue: *)
(* KernelIsrLost shows what happens when one does.                         *)
(***************************************************************************)
THEOREM KernelEmptyMeansAllCalled ==
  ASSUME OffTheQueue
  PROVE  Spec => EmptyMeansAllCalled
<1> DEFINE Called == pc = "run" /\ pc' = "sleep" => pending = << >>
<1>1. QueueInv /\ [Next]_vars => [Called]_vars
  <2> SUFFICES ASSUME QueueInv, [Next]_vars, pc = "run", pc' = "sleep"
               PROVE  pending = << >>
    OBVIOUS
  <2>1. Run
    BY DEF Next, Main, vars, Loop, Run, Sleep, PopLoad, PopDec, PopHead, PopRead, Call,
           Return, Exit, Trigger, EvEnd, EvSchedule, EvPush, EvTail, EvSlot, EvLoad, EvStore,
           OtherInterrupt, Interrupted, Crashed, IdleTick, SysTick
  <2>2. q.len = 0
    BY <2>1 DEF Run, Ring!Empty
  <2>3. Len(pending) = 0 /\ pending \in Seq(Calls)
    BY <2>2, RingThere DEF QueueInv, Between
  <2> QED BY <2>3, EmptySeq
<1> QED BY <1>1, QueueInvariant, PTL DEF Spec, EmptyMeansAllCalled

=============================================================================
