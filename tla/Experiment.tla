----------------------------- MODULE Experiment -----------------------------
(***************************************************************************)
(* core/experiment.h: the experiment state machine, driven every           *)
(* millisecond by the kernel and by the frames of the other side, and the  *)
(* callbacks it schedules through the kernel's queue.                      *)
(*                                                                         *)
(* The kernel's queue is a bounded sequence here (what RingQueue           *)
(* implements), and a call of a schedulable is one step.  The variable isr *)
(* says whether the clock may tick between two calls (STM) or only when    *)
(* the queue has been drained (Linux); a behaviour keeps it.               *)
(***************************************************************************)
EXTENDS Integers, Sequences, FiniteSets

CONSTANTS
  IdleDt, RunDt,     \* periods of the callbacks registered during IDLE and RUN
  NInit, NStop,      \* callbacks registered on INIT and STOP, the log's included
  Others,            \* other tasks the kernel calls every millisecond
  QSize,             \* slots of the kernel's queue
  Timeouts,          \* values passed to setHeartbeatTimeout
  Isr,               \* values of isr to look at
  Horizon,           \* bound: no tick once the experiment's time is there
  MaxLate,           \* bound: ticks the main loop may be behind
  MaxSet             \* bound: calls of setHeartbeatTimeout

ASSUME ExperimentAssumption ==
  /\ IdleDt \in Seq(Nat \ {0}) /\ RunDt \in Seq(Nat \ {0})
  /\ NInit \in Nat \ {0} /\ NStop \in Nat \ {0} /\ Others \in Nat
  /\ QSize \in Nat \ {0} /\ Timeouts \subseteq Nat /\ Isr \subseteq BOOLEAN
  /\ Horizon \in Nat /\ MaxLate \in Nat \ {0} /\ MaxSet \in Nat

VARIABLES
  isr,       \* constant in a behaviour: the clock is an interrupt
  state,     \* State: "IDLE" or "RUN"
  alive,     \* what the last frame asked for
  time,      \* Experiment::time_
  timeout,   \* heartbeat.timeout, 0: no heartbeat
  when,      \* heartbeat.when, 0: not armed
  notify,    \* entries setHeartbeatTimeout added to the timeout registry
  next,      \* Recurring::Schedulable::next
  stime,     \* Schedulable::time
  q,         \* the kernel's queue
  go,        \* FALSE once the kernel was told to exit
  pc,        \* "run": draining the queue, "idle": waiting, "done"
  lost,      \* history: a schedulable was dropped because the queue was full
  missed,    \* history: TIMEOUT was scheduled by the last tick
  quiet,     \* history: ticks since the heartbeat was armed, up to a bound
  since,     \* history: ticks since an idle callback was last scheduled
  ran,       \* history: calls of each running callback in this run
  last       \* history: the callback called last, until one is lost

heartbeatVars == <<timeout, when, notify>>
queueVars == <<next, stime, q, lost>>
historyVars == <<missed, quiet, since, ran, last>>
vars == <<isr, state, alive, time, heartbeatVars, queueVars, go, pc, historyVars>>

Entries(r) == CASE r = "idle" -> Len(IdleDt) [] r = "run" -> Len(RunDt)
                [] r = "init" -> NInit [] r = "stop" -> NStop
                [] r = "timeout" -> 1 + notify

\* a schedulable: its registry and its place there
Recurring == ({"idle"} \X (1 .. Len(IdleDt))) \cup ({"run"} \X (1 .. Len(RunDt)))
Evented   == ({"init"} \X (1 .. NInit)) \cup ({"stop"} \X (1 .. NStop))
             \cup ({"timeout"} \X (1 .. 1 + MaxSet))
Callables == Recurring \cup Evented
DtOf(c)   == IF c[1] = "idle" THEN IdleDt[c[2]] ELSE RunDt[c[2]]
TickCall  == <<"tick", 1>>
KernelCalls == {TickCall} \cup ({"other"} \X (1 .. Others))

Init == /\ isr \in Isr
        /\ state = "IDLE" /\ alive = FALSE /\ time = 0
        /\ timeout = 0 /\ when = 0 /\ notify = 0
        /\ next = [c \in Recurring |-> 0] /\ stime = [c \in Callables |-> 0]
        /\ q = << >> /\ go = TRUE /\ pc = "run" /\ lost = FALSE
        /\ missed = FALSE /\ quiet = 0 /\ since = IdleDt
        /\ ran = [k \in 1 .. Len(RunDt) |-> 0] /\ last = <<"none", 0>>

-----------------------------------------------------------------------------
(* k.schedule(t, registry), on s = [q, next, stime, lost]; its result is   *)
(* not looked at                                                           *)

\* mutant: one entry too many
RoomOffByOne(queue) == QSize - Len(queue) + 1

Room(queue) == QSize - Len(queue)

\* entry k of the registry wants to be scheduled
Due(s, r, t, k) == r \in {"idle", "run"} => ~(t < s.next[<<r, k>>])

\* the scheduler comes to entry k: the queue was not full before
Reached(s, r, t, k) == Cardinality({j \in 1 .. k - 1 : Due(s, r, t, j)}) < Room(s.q)

Taken(s, r, t) == {k \in 1 .. Entries(r) : Reached(s, r, t, k) /\ Due(s, r, t, k)}

\* the entries taken, in the order of the registry
Nth(T, i)   == CHOOSE k \in T : Cardinality({j \in T : j < k}) = i - 1
Batch(r, T) == [i \in 1 .. Cardinality(T) |-> <<r, Nth(T, i)>>]

Scheduled(s, r, t) ==
  LET taken  == Taken(s, r, t)
      hit(c) == c[1] = r /\ c[2] \in taken
  IN  [q     |-> s.q \o Batch(r, taken),
       next  |-> [c \in Recurring |-> IF hit(c) THEN s.next[c] + DtOf(c) ELSE s.next[c]],
       stime |-> [c \in Callables |-> IF hit(c) THEN t ELSE s.stime[c]],
       lost  |-> s.lost \/ \E k \in 1 .. Entries(r) : ~Reached(s, r, t, k)]

\* mutant: the registries are not reset
RegistriesKept(s) == s

\* idle.reset(); running.reset()
RegistriesReset(s) == [s EXCEPT !.next = [c \in Recurring |-> 0]]

\* mutant: <= instead of <
HeartbeatMissedLate(t) == timeout # 0 /\ when # 0 /\ ~(t <= when)

\* heartbeat && heartbeat(t)
HeartbeatMissed(t) == timeout # 0 /\ when # 0 /\ ~(t < when)

\* mutant: the deadline is not relative to now
DeadlineAbsolute(now, ms) == ms

\* heartbeat.reset(now)
DeadlineFrom(now, ms) == now + ms

Starts == state = "IDLE" /\ alive
Stops  == state = "RUN" /\ ~alive

\* mutant: the time of the last run goes on
StartTimeKept == time

\* time_ = 0 when a run starts
StartTime == IF Starts THEN 0 ELSE time

\* mutant: STOP is scheduled when the run starts
EventSwapped(s) == CASE Starts -> RegistriesReset(Scheduled(s, "stop", StartTime))
                     [] Stops  -> Scheduled(s, "init", StartTime)
                     [] OTHER  -> s

\* handle state transitions
Event(s) == CASE Starts -> RegistriesReset(Scheduled(s, "init", StartTime))
              [] Stops  -> Scheduled(s, "stop", StartTime)
              [] OTHER  -> s

\* handle states; on a missed heartbeat the state machine goes on with TIMEOUT
During(s) == IF alive THEN Scheduled(s, "run", StartTime)
                      ELSE Scheduled(s, "idle", StartTime)

CapQuiet == Horizon + 1

\* Experiment::tick: statemachine(), then time_ += dt
Tick ==
  /\ pc = "run" /\ q # << >> /\ Head(q) = TickCall
  /\ LET popped == [q |-> Tail(q), next |-> next, stime |-> stime, lost |-> lost]
         during == During(Event(popped))
         misses == alive /\ HeartbeatMissed(StartTime)
         final  == IF misses THEN Scheduled(during, "timeout", StartTime) ELSE during
         called(c) == \E i \in Len(q) .. Len(final.q) : final.q[i] = c
     IN  /\ state' = IF alive THEN "RUN" ELSE "IDLE"
         /\ alive' = (alive /\ ~misses)
         /\ when' = IF misses THEN 0 ELSE when
         /\ q' = final.q /\ next' = final.next /\ stime' = final.stime /\ lost' = final.lost
         /\ time' = StartTime + 1
         /\ missed' = misses
         /\ quiet' = IF quiet < CapQuiet THEN quiet + 1 ELSE quiet
         /\ since' = [k \in 1 .. Len(IdleDt) |->
                        IF called(<<"idle", k>>) THEN 1
                        ELSE IF since[k] < IdleDt[k] THEN since[k] + 1 ELSE IdleDt[k]]
  /\ UNCHANGED <<isr, timeout, notify, go, pc, ran, last>>

-----------------------------------------------------------------------------
(* The kernel                                                              *)

\* Kernel::tick: every entry of the kernel's registry is due each millisecond
KernelTick ==
  /\ time < Horizon
  /\ Cardinality({i \in DOMAIN q : q[i] = TickCall}) < MaxLate
  /\ LET tasks == <<TickCall>> \o [k \in 1 .. Others |-> <<"other", k>>]
         fits  == IF Room(q) < Len(tasks) THEN Room(q) ELSE Len(tasks)
     IN  /\ q' = q \o SubSeq(tasks, 1, fits)
         /\ go' = (go /\ fits = Len(tasks))
  /\ \/ pc = "idle" /\ pc' = IF go' THEN "run" ELSE "done"
     \/ isr /\ pc = "run" /\ UNCHANGED pc
  /\ UNCHANGED <<isr, state, alive, time, heartbeatVars, next, stime, lost, historyVars>>

\* the queue is drained: idle()
Idle == /\ pc = "run" /\ q = << >>
        /\ pc' = "idle"
        /\ UNCHANGED <<isr, state, alive, time, heartbeatVars, queueVars, go, historyVars>>

\* a task of the kernel that is not the experiment's
OtherCall == /\ pc = "run" /\ q # << >> /\ Head(q) \in KernelCalls \ {TickCall}
             /\ q' = Tail(q)
             /\ UNCHANGED <<isr, state, alive, time, heartbeatVars, next, stime, lost, go, pc,
                            historyVars>>

\* a callback the experiment scheduled
Callback ==
  /\ pc = "run" /\ q # << >> /\ Head(q) \in Callables
  /\ q' = Tail(q)
  /\ last' = IF lost THEN last ELSE Head(q)
  /\ ran' = CASE Head(q)[1] = "run"  -> [ran EXCEPT ![Head(q)[2]] = @ + 1]
              [] Head(q)[1] = "init" -> [k \in DOMAIN ran |-> 0]
              [] OTHER -> ran
  /\ UNCHANGED <<isr, state, alive, time, heartbeatVars, next, stime, lost, go, pc,
                 missed, quiet, since>>

-----------------------------------------------------------------------------
(* The other side and the application                                      *)

\* handleFrame, no heartbeat bit: start or stop
AliveFrame(b) == /\ pc = "run"
                 /\ alive' = b
                 /\ UNCHANGED <<isr, state, time, heartbeatVars, queueVars, go, pc, historyVars>>

\* handleFrame, heartbeat bit
HeartbeatFrame == /\ pc = "run" /\ timeout # 0
                  /\ when' = DeadlineFrom(time, timeout)
                  /\ quiet' = 0
                  /\ UNCHANGED <<isr, state, alive, time, timeout, notify, queueVars, go, pc,
                                 missed, since, ran, last>>

\* setHeartbeatTimeout(ms, notify)
SetHeartbeatTimeout(ms) ==
  /\ pc = "run" /\ notify < MaxSet
  /\ timeout' = ms /\ when' = DeadlineFrom(time, ms)
  /\ notify' = notify + 1
  /\ quiet' = 0
  /\ UNCHANGED <<isr, state, alive, time, queueVars, go, pc, missed, since, ran, last>>

Next == \/ Tick \/ KernelTick \/ Idle \/ OtherCall \/ Callback \/ HeartbeatFrame
        \/ \E b \in BOOLEAN : AliveFrame(b)
        \/ \E ms \in Timeouts : SetHeartbeatTimeout(ms)

Spec == Init /\ [][Next]_vars

-----------------------------------------------------------------------------
(* Properties                                                              *)

\* Type invariant; the queue never outgrows its slots.
TypeOK ==
  /\ isr \in Isr /\ state \in {"IDLE", "RUN"} /\ alive \in BOOLEAN /\ time \in Nat
  /\ timeout \in Timeouts \cup {0} /\ when \in Nat /\ notify \in 0 .. MaxSet
  /\ next \in [Recurring -> Nat] /\ stime \in [Callables -> Nat]
  /\ q \in Seq(Callables \cup KernelCalls) /\ Len(q) <= QSize
  /\ go \in BOOLEAN /\ pc \in {"run", "idle", "done"}
  /\ lost \in BOOLEAN /\ missed \in BOOLEAN /\ quiet \in Nat
  /\ since \in [1 .. Len(IdleDt) -> Nat] /\ ran \in [1 .. Len(RunDt) -> Nat]
  /\ last \in Callables \cup {<<"none", 0>>}

\* As long as the queue never dropped a callback, they come in the order the
\* state diagram promises, through the kernel's queue and however start, stop
\* and heartbeat frames interleave with the ticks: INIT, then the run's
\* callbacks, then STOP (experiment.h).
User == INSTANCE Callbacks WITH NTimeout <- 1 + MaxSet, NIdle <- Len(IdleDt), NRun <- Len(RunDt)
CallbackOrder == User!Spec

\* During a run every running callback is scheduled on all the multiples of its
\* period, in experiment time, which starts anew with each run.
RunOnTheGrid ==
  state = "RUN" /\ ~lost =>
    \A k \in 1 .. Len(RunDt) : /\ time <= next[<<"run", k>>]
                               /\ next[<<"run", k>>] < time + RunDt[k]
                               /\ next[<<"run", k>>] % RunDt[k] = 0

\* In a single thread the n-th call of a running callback is given the time
\* n * dt of its run (tests/experiment.cpp: time % dt == 0, time / dt == count++).
RunTimes ==
  [][\A k \in 1 .. Len(RunDt) :
       Callback /\ ~isr /\ Head(q) = <<"run", k>> => stime[<<"run", k>>] = ran[k] * RunDt[k]]_vars

\* While an experiment runs, an armed heartbeat deadline is never overrun.
ArmedDeadline == state = "RUN" /\ timeout # 0 /\ when # 0 => time <= when

\* TIMEOUT is never a false alarm: it is scheduled only if no heartbeat came for
\* the whole timeout, though experiment time jumps back with each run.
NoFalseTimeout == [][missed' /\ Tick => quiet >= timeout]_vars

\* A missed heartbeat is noticed: no run goes on for longer than the timeout
\* without a heartbeat ("Event generated on missed heartbeat").
HeartbeatNoticed ==
  state = "RUN" /\ timeout # 0 => ~(time > timeout + 1 /\ quiet > timeout + 1)

\* An idle callback is scheduled only if dt ms passed since it last was.
IdleSpacing ==
  [][\A k \in 1 .. Len(IdleDt) :
       state' = "IDLE" /\ next'[<<"idle", k>>] > next[<<"idle", k>>] => since[k] >= IdleDt[k]]_vars
=============================================================================
