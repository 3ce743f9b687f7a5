------------------------------- MODULE Kernel -------------------------------
(***************************************************************************)
(* core/kern.h, schedule.h, timed.h, evented.h: the kernel's main loop,    *)
(* its queue of scheduled calls, and the clock tick that fills the queue.  *)
(*                                                                         *)
(* Two flows of control share the object:                                  *)
(*   - the main loop, Kernel::run -> Scheduler::run -> pop() -> call(),    *)
(*     one step per access to the shared queue; a called task may itself   *)
(*     schedule a registry of events (as the Experiment does) or exit;     *)
(*   - Kernel::tick, which is atomic for the main loop: idle() calls it in *)
(*     the same thread on Linux, the SysTick interrupt calls it on STM.    *)
(* The variable preempt says between which steps of the main loop a tick   *)
(* may come; a behaviour keeps one of these values:                        *)
(*   "idle"   only where idle() waits                  (linux/hal.cpp)     *)
(*   "calls"  also anywhere outside an operation of the queue              *)
(*   "any"    between any two steps                    (stm/hal.cpp)       *)
(***************************************************************************)
EXTENDS Integers, Sequences, FiniteSets

CONSTANTS
  Dt,        \* periods of the recurring tasks, in the order of k.every(...)
  M,         \* number of evented schedulables a task may schedule
  Triggers,  \* the tasks that schedule them
  Exiters,   \* the tasks that may call k.exit()
  QSize,     \* slots of Scheduler::q
  TimeMod,   \* the clock wraps here: 2^32
  Horizon,   \* bound: no tick once the clock reads Horizon
  Preempts   \* values of preempt to look at

N == Len(Dt)
Tasks == 1 .. N
Events == N + 1 .. N + M
Schedulables == Tasks \cup Events
Nobody == 0

ASSUME KernelAssumption ==
  /\ Dt \in Seq(Nat \ {0}) /\ M \in Nat
  /\ Triggers \subseteq Tasks /\ Exiters \subseteq Tasks
  /\ QSize \in Nat \ {0} /\ TimeMod \in Nat \ {0} /\ Horizon \in Nat
  /\ Preempts \subseteq {"idle", "calls", "any"}

Ring == INSTANCE RingQueue WITH Elem <- Schedulables, Garbage <- Nobody

VARIABLES
  preempt,   \* constant in a behaviour: when a tick may interrupt the main loop
  time,      \* Kernel::time_
  next,      \* Recurring::Schedulable::next of every task
  stime,     \* Schedulable::time, what call() will pass on
  q,         \* Scheduler::q
  go, exitCode,
  pc,        \* where the main loop is
  reg,       \* the register of a read-modify-write of the main loop
  cur,       \* the schedulable pop() returned
  arg,       \* the time the running call was given
  ev,        \* the entry Scheduler::schedule is at, in a call from a task
  pending,   \* history: calls scheduled and not yet popped, [who, at]
  owed,      \* history: the entry of pending the current call stands for
  since      \* history: ticks since a task was last scheduled, up to its dt

queueVars == <<q, pending, owed>>
clockVars == <<preempt, time, next, since>>
vars == <<preempt, time, next, stime, q, go, exitCode, pc, reg, cur, arg, ev, pending, owed,
          since>>

Nothing == [who |-> Nobody, at |-> 0]

Init == /\ preempt \in Preempts
        /\ time = 0 /\ next = [i \in Tasks |-> 0]
        /\ stime = [s \in Schedulables |-> 0]
        /\ q = Ring!Fresh(QSize)
        /\ go = TRUE /\ exitCode = 0
        /\ pc = "loop" /\ reg = 0 /\ cur = Nobody /\ arg = 0 /\ ev = 0
        /\ pending = << >> /\ owed = Nothing /\ since = Dt

-----------------------------------------------------------------------------
(* Kernel::tick                                                            *)

\* mutants: <= instead of <; a millisecond early
DueLate(i)  == ~(time <= next[i])
DueEarly(i) == ~(time + 1 < next[i])

\* Recurring::Schedulable::schedule would return true
Due(i) == ~(time < next[i])

\* mutant: the last slot is not used
ReachedEarly(i) == Cardinality({j \in 1 .. i - 1 : Due(j)}) < q.size - q.len - 1

\* Scheduler::schedule comes to entry i: the queue was not full before
Reached(i) == Cardinality({j \in 1 .. i - 1 : Due(j)}) < q.size - q.len

\* mutant: returns after the first push
TakenFirst == {i \in Tasks : Reached(i) /\ Due(i) /\ \A j \in 1 .. i - 1 : ~Due(j)}

Taken == {i \in Tasks : Reached(i) /\ Due(i)}

\* the tasks taken, in the order of the registry
Nth(k) == CHOOSE i \in Taken : Cardinality({j \in Taken : j < i}) = k - 1
Batch  == [k \in 1 .. Cardinality(Taken) |-> Nth(k)]

\* mutant: q[++tail] = val
PushedAllPreIncrement(r, b) ==
  [r EXCEPT !.slot = [s \in Ring!Slots(r.size) |->
                        LET k == (s - r.tail - 1) % r.wrap
                        IN  IF k < Len(b) THEN b[k + 1] ELSE @[s]],
            !.tail = (@ + Len(b)) % r.wrap,
            !.len = @ + Len(b)]

\* the successive pushes of a batch
PushedAll(r, b) ==
  [r EXCEPT !.slot = [s \in Ring!Slots(r.size) |->
                        LET k == (s - r.tail) % r.wrap
                        IN  IF k < Len(b) THEN b[k + 1] ELSE @[s]],
            !.tail = (@ + Len(b)) % r.wrap,
            !.len = @ + Len(b)]

\* tick(1): schedule the registry, exit(127) if that failed, advance time
TickBody ==
  /\ next' = [i \in Tasks |-> IF i \in Taken THEN (next[i] + Dt[i]) % TimeMod ELSE next[i]]
  /\ stime' = [s \in Schedulables |-> IF s \in Taken THEN time ELSE stime[s]]
  /\ q' = PushedAll(q, Batch)
  /\ pending' = pending \o [k \in 1 .. Len(Batch) |-> [who |-> Batch[k], at |-> time]]
  /\ IF \A i \in Tasks : Reached(i)
       THEN UNCHANGED <<go, exitCode>>
       ELSE go' = FALSE /\ exitCode' = 127
  /\ time' = (time + 1) % TimeMod
  /\ since' = [i \in Tasks |-> IF i \in Taken THEN 1
                               ELSE IF since[i] < Dt[i] THEN since[i] + 1 ELSE Dt[i]]

\* idle() ends with a tick: Linux calls it, on STM it is what ends wfi
IdleTick == /\ pc = "idle" /\ time < Horizon
            /\ TickBody
            /\ pc' = "loop"
            /\ UNCHANGED <<preempt, reg, cur, arg, ev, owed>>

\* SysTick_Handler preempts the main loop
Interruptible == CASE preempt = "idle"  -> {}
                   [] preempt = "calls" -> {"loop", "run", "call", "body", "ev", "sleep"}
                   [] preempt = "any"   -> {"loop", "run", "call", "body", "ev", "sleep",
                                            "pop", "popDec", "popHead", "popRead", "evPush",
                                            "evTail", "evSlot", "evLoad", "evStore"}

SysTick == /\ pc \in Interruptible /\ time < Horizon
           /\ TickBody
           /\ UNCHANGED <<preempt, pc, reg, cur, arg, ev, owed>>

\* another interrupt ends wfi
OtherInterrupt == /\ preempt # "idle" /\ pc = "idle"
                  /\ pc' = "loop"
                  /\ UNCHANGED <<clockVars, stime, queueVars, go, exitCode, reg, cur, arg, ev>>

-----------------------------------------------------------------------------
(* Kernel::run and Scheduler::run                                          *)

\* mutant: while (true)
LoopForever == /\ pc = "loop"
               /\ pc' = "run"
               /\ UNCHANGED <<clockVars, stime, queueVars, go, exitCode, reg, cur, arg, ev>>

\* while (go)
Loop == /\ pc = "loop"
        /\ pc' = IF go THEN "run" ELSE "done"
        /\ UNCHANGED <<clockVars, stime, queueVars, go, exitCode, reg, cur, arg, ev>>

\* while (!q.empty())
Run == /\ pc = "run"
       /\ pc' = IF Ring!Empty(q) THEN "sleep" ELSE "pop"
       /\ UNCHANGED <<clockVars, stime, queueVars, go, exitCode, reg, cur, arg, ev>>

\* idle(): from the empty check to the instruction that waits
Sleep == /\ pc = "sleep"
         /\ pc' = "idle"
         /\ UNCHANGED <<clockVars, stime, queueVars, go, exitCode, reg, cur, arg, ev>>

\* pop(): load len, store len - 1, advance head, read the slot
PopLoad == /\ pc = "pop"
           /\ reg' = q.len
           /\ pc' = "popDec"
           /\ UNCHANGED <<clockVars, stime, queueVars, go, exitCode, cur, arg, ev>>

PopDec == /\ pc = "popDec"
          /\ q' = [q EXCEPT !.len = reg - 1]
          /\ owed' = Head(pending) /\ pending' = Tail(pending)
          /\ pc' = "popHead"
          /\ UNCHANGED <<clockVars, stime, go, exitCode, reg, cur, arg, ev>>

PopHead == /\ pc = "popHead"
           /\ reg' = q.head
           /\ q' = [q EXCEPT !.head = Ring!After(q, @)]
           /\ pc' = "popRead"
           /\ UNCHANGED <<clockVars, stime, go, exitCode, cur, arg, ev, pending, owed>>

PopRead == /\ pc = "popRead"
           /\ cur' = q.slot[reg]
           /\ pc' = "call"
           /\ UNCHANGED <<clockVars, stime, queueVars, go, exitCode, reg, arg, ev>>

\* mutant: passes the current time
CallNow == /\ pc = "call"
           /\ arg' = time
           /\ pc' = "body"
           /\ UNCHANGED <<clockVars, stime, queueVars, go, exitCode, reg, cur, ev>>

\* s->call() passes on the time the schedulable recorded
Call == /\ pc = "call"
        /\ arg' = stime[cur]
        /\ pc' = "body"
        /\ UNCHANGED <<clockVars, stime, queueVars, go, exitCode, reg, cur, ev>>

-----------------------------------------------------------------------------
(* What a called task does                                                 *)

Return == /\ pc = "body"
          /\ pc' = "run" /\ cur' = Nobody /\ arg' = 0 /\ reg' = 0 /\ ev' = 0 /\ owed' = Nothing
          /\ UNCHANGED <<clockVars, stime, q, pending, go, exitCode>>

\* k.exit(): the call goes on, and so does Scheduler::run
Exit == /\ pc = "body" /\ cur \in Exiters
        /\ go' = FALSE /\ exitCode' = 0
        /\ UNCHANGED <<clockVars, stime, queueVars, pc, reg, cur, arg, ev>>

\* k.schedule(time, registry of events), from inside the call
Trigger == /\ pc = "body" /\ cur \in Triggers /\ ev = 0
           /\ ev' = 1
           /\ pc' = "ev"
           /\ UNCHANGED <<clockVars, stime, queueVars, go, exitCode, reg, cur, arg>>

\* for (auto &c: reg.list): the end, or return false on a full queue
EvEnd == /\ pc = "ev"
         /\ ev > M \/ Ring!Full(q)
         /\ ev' = M + 1
         /\ pc' = "body"
         /\ UNCHANGED <<clockVars, stime, queueVars, go, exitCode, reg, cur, arg>>

\* c->schedule(time): Evented::Schedulable records the time
EvSchedule == /\ pc = "ev" /\ ev <= M /\ ~Ring!Full(q)
              /\ stime' = [stime EXCEPT ![N + ev] = arg]
              /\ pc' = "evPush"
              /\ UNCHANGED <<clockVars, queueVars, go, exitCode, reg, cur, arg, ev>>

\* q.push(c): assert(len < size), q[tail++] = c, len++
EvPush == /\ pc = "evPush"
          /\ IF q.len < q.size THEN reg' = q.tail /\ pc' = "evTail"
                               ELSE pc' = "halt" /\ UNCHANGED reg
          /\ UNCHANGED <<clockVars, stime, queueVars, go, exitCode, cur, arg, ev>>

EvTail == /\ pc = "evTail"
          /\ q' = [q EXCEPT !.tail = Ring!After(q, reg)]
          /\ pc' = "evSlot"
          /\ UNCHANGED <<clockVars, stime, pending, owed, go, exitCode, reg, cur, arg, ev>>

EvSlot == /\ pc = "evSlot"
          /\ q' = [q EXCEPT !.slot[reg] = N + ev]
          /\ pending' = Append(pending, [who |-> N + ev, at |-> arg])
          /\ pc' = "evLoad"
          /\ UNCHANGED <<clockVars, stime, owed, go, exitCode, reg, cur, arg, ev>>

EvLoad == /\ pc = "evLoad"
          /\ reg' = q.len
          /\ pc' = "evStore"
          /\ UNCHANGED <<clockVars, stime, queueVars, go, exitCode, cur, arg, ev>>

EvStore == /\ pc = "evStore"
           /\ q' = [q EXCEPT !.len = reg + 1]
           /\ ev' = ev + 1
           /\ pc' = "ev"
           /\ UNCHANGED <<clockVars, stime, pending, owed, go, exitCode, reg, cur, arg>>

\* sighandler on SIGINT: k.exit(0), wherever the program is, unless it comes
\* from a crash: longjmp leaves the handler with every signal still blocked
Interrupted == /\ preempt = "idle" /\ pc # "done" /\ exitCode # -1
               /\ go' = FALSE /\ exitCode' = 0
               /\ UNCHANGED <<clockVars, stime, queueVars, pc, reg, cur, arg, ev>>

\* sighandler on SIGSEGV or SIGABRT raised by a task: k.exit(-1), longjmp
Crashed == /\ preempt = "idle" /\ pc = "body"
           /\ go' = FALSE /\ exitCode' = -1
           /\ pc' = "loop" /\ cur' = Nobody /\ arg' = 0 /\ reg' = 0 /\ owed' = Nothing /\ ev' = 0
           /\ UNCHANGED <<clockVars, stime, q, pending>>

-----------------------------------------------------------------------------

Main == \/ Loop \/ Run \/ Sleep \/ PopLoad \/ PopDec \/ PopHead \/ PopRead \/ Call
        \/ Return \/ Exit \/ Trigger
        \/ EvEnd \/ EvSchedule \/ EvPush \/ EvTail \/ EvSlot \/ EvLoad \/ EvStore

Next == Main \/ IdleTick \/ SysTick \/ OtherInterrupt \/ Interrupted \/ Crashed

Spec == Init /\ [][Next]_vars

(***************************************************************************)
(* Fairness: the processor runs the main loop, every task returns, and the *)
(* clock ticks.                                                            *)
(***************************************************************************)
FairSpec == Spec /\ WF_vars(Main) /\ WF_vars(IdleTick \/ SysTick)

-----------------------------------------------------------------------------
(* Properties                                                              *)

Calls == [who : Schedulables, at : 0 .. TimeMod - 1]

\* Type of the kernel's state.
TypeOK ==
  /\ preempt \in Preempts
  /\ time \in 0 .. TimeMod - 1 /\ next \in [Tasks -> 0 .. TimeMod - 1]
  /\ stime \in [Schedulables -> 0 .. TimeMod - 1]
  /\ q \in [slot : [Ring!Slots(QSize) -> Schedulables \cup {Nobody}], len : 0 .. QSize,
            size : {QSize}, head : Ring!Slots(QSize), tail : Ring!Slots(QSize), wrap : {QSize}]
  /\ go \in BOOLEAN /\ exitCode \in {0, 127, -1}
  /\ reg \in 0 .. QSize /\ cur \in Schedulables \cup {Nobody}
  /\ arg \in 0 .. TimeMod - 1 /\ ev \in 0 .. M + 1
  /\ Len(pending) <= QSize + 1 /\ \A k \in DOMAIN pending : pending[k] \in Calls
  /\ owed \in Calls \cup {Nothing}
  /\ \A i \in Tasks : since[i] \in 0 .. Dt[i]

\* The state has its type, and between two operations of the queue, its ring
\* holds exactly the calls that were scheduled and not yet popped, in the order
\* they were scheduled: no scheduled call is lost, none is queued twice
\* (schedule.h, queue.h).
RingMatches ==
  /\ TypeOK
  /\ pc \notin {"popHead", "evSlot", "evLoad", "evStore"} =>
       Ring!Items(q) = [k \in 1 .. Len(pending) |-> pending[k].who]

\* Calls are made in the order they were scheduled, by the tick and by tasks:
\* what pop() returns is the front of the queue (queue.h, "remove front of
\* queue and return it").  In a single thread a call is given the time at which
\* it was scheduled (timed.h, evented.h), though that time is kept in the
\* schedulable and not in the queue, where a tick between the two overwrites it.
CalledInOrder == /\ pc \in {"call", "body"} => cur = owed.who
                 /\ preempt = "idle" /\ pc = "body" => arg = owed.at

\* As long as the kernel lives, every task is scheduled on the multiples of its
\* period, all of them, whatever the other tasks do: the next time is never in
\* the past, less than a period ahead, and on the grid (tests/experiment.cpp).
OnTheGrid == go => \A i \in Tasks : /\ time <= next[i] /\ next[i] < time + Dt[i]
                                    /\ next[i] % Dt[i] = 0

\* A task is scheduled only if dt ms passed since it last was (timed.h).
Spacing == [][\A i \in Tasks : go /\ next'[i] # next[i] => since[i] >= Dt[i]]_vars

\* The kernel kills itself only over a queue that really is full; never in a
\* single thread, where the queue is empty whenever the clock ticks, if the
\* registry fits into the queue.
DiesOnlyWhenFull ==
  [][exitCode' = 127 /\ exitCode # 127 =>
       Len(pending') = QSize /\ ~(preempt = "idle" /\ N <= QSize)]_vars

\* The main loop finds its queue empty only when every call that was scheduled
\* has been made: a function is called every dt ms (timed.h).
EmptyMeansAllCalled == [][pc = "run" /\ pc' = "sleep" => pending = << >>]_vars

\* Round robin is fair: as long as the kernel lives, every task is called again
\* and again, however many others are due more often.
EveryTaskRuns == \A i \in Tasks : [](go => <>(~go \/ (pc = "body" /\ cur = i)))

\* Once told to exit, the kernel returns: the queue is drained in a bounded
\* number of calls when nothing refills it meanwhile.
ExitEnds == ~go /\ preempt = "idle" ~> pc = "done"

=============================================================================
