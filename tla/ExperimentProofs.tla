-------------------------- MODULE ExperimentProofs --------------------------
(***************************************************************************)
(* What is proved of the Experiment for every registry, queue and timeout. *)
(*                                                                         *)
(* On both platforms: an armed deadline is not overrun by a run, TIMEOUT   *)
(* is no false alarm, running callbacks are scheduled on the grid of their *)
(* period, and callbacks are called in the order of the state diagram.     *)
(*                                                                         *)
(* In a single thread whose queue has room for one tick: no callback is    *)
(* lost, and each is given its time of the run.                            *)
(***************************************************************************)
EXTENDS Experiment, Lemmas

\* the history variable quiet counts far enough
Counts == \A ms \in Timeouts : ms <= CapQuiet

HeartbeatType == /\ time \in Nat /\ when \in Nat /\ quiet \in 0 .. CapQuiet
                 /\ timeout \in Timeouts \cup {0}

\* As long as it is armed, the deadline is timeout ticks after the heartbeat,
\* or later, when the clock was set back in between.
Relative == timeout # 0 /\ when # 0 => quiet = CapQuiet \/ time + timeout <= when + quiet

HeartbeatInv == HeartbeatType /\ ArmedDeadline /\ Relative

LEMMA HeartbeatInit == Init => HeartbeatInv
BY ExperimentAssumption DEF Init, HeartbeatInv, HeartbeatType, ArmedDeadline, Relative, CapQuiet

\* The clock a tick works with is not ahead of the one before it.
LEMMA StartTimeBound ==
  ASSUME HeartbeatType
  PROVE  StartTime \in Nat /\ StartTime <= time
BY DEF StartTime, HeartbeatType

\* What a tick does to the heartbeat.
LEMMA TickEffect ==
  ASSUME Tick
  PROVE  LET misses == alive /\ HeartbeatMissed(StartTime)
         IN  /\ state' = IF alive THEN "RUN" ELSE "IDLE"
             /\ when' = IF misses THEN 0 ELSE when
             /\ missed' = misses
             /\ time' = StartTime + 1
             /\ quiet' = IF quiet < CapQuiet THEN quiet + 1 ELSE quiet
             /\ timeout' = timeout
BY DEF Tick

LEMMA TickKeeps ==
  ASSUME HeartbeatInv, Tick
  PROVE  HeartbeatInv'
<1> CapQuiet \in Nat
  BY ExperimentAssumption DEF CapQuiet
<1>1. HeartbeatType'
  BY TickEffect, StartTimeBound DEF HeartbeatInv, HeartbeatType
<1>2. ArmedDeadline'
  <2> SUFFICES ASSUME state' = "RUN", timeout' # 0, when' # 0
               PROVE  time' <= when'
    BY DEF ArmedDeadline
  <2>1. ~HeartbeatMissed(StartTime) /\ when' = when /\ timeout # 0
    BY TickEffect
  <2>2. StartTime < when
    BY <2>1 DEF HeartbeatMissed
  <2> QED BY <2>1, <2>2, TickEffect, StartTimeBound DEF HeartbeatInv, HeartbeatType
<1>3. Relative'
  <2> SUFFICES ASSUME timeout' # 0, when' # 0, quiet' # CapQuiet
               PROVE  time' + timeout' <= when' + quiet'
    BY DEF Relative
  <2>1. when' = when /\ timeout' = timeout /\ time' = StartTime + 1
    BY TickEffect
  <2>2. quiet # CapQuiet /\ quiet' = quiet + 1
    BY TickEffect DEF HeartbeatInv, HeartbeatType
  <2>3. time + timeout <= when + quiet
    BY <2>1, <2>2 DEF HeartbeatInv, Relative
  <2> QED
    BY <2>1, <2>2, <2>3, StartTimeBound, ExperimentAssumption DEF HeartbeatInv, HeartbeatType
<1> QED BY <1>1, <1>2, <1>3 DEF HeartbeatInv

\* The heartbeat is armed, from now on.
LEMMA ArmingKeeps ==
  ASSUME HeartbeatInv, NEW ms \in Timeouts \cup {0},
         time' = time /\ quiet' = 0 /\ timeout' = ms /\ when' = time + ms
  PROVE  HeartbeatInv'
<1>1. ms \in Nat /\ time \in Nat /\ CapQuiet \in Nat
  BY ExperimentAssumption DEF HeartbeatInv, HeartbeatType, CapQuiet
<1>2. HeartbeatType'
  BY <1>1 DEF HeartbeatInv, HeartbeatType
<1>3. ArmedDeadline'
  <2>1. time' <= when'
    BY <1>1
  <2> QED BY <2>1 DEF ArmedDeadline
<1>4. Relative'
  <2>1. time' + timeout' <= when' + quiet'
    BY <1>1
  <2> QED BY <2>1 DEF Relative
<1> QED BY <1>2, <1>3, <1>4 DEF HeartbeatInv

\* The steps that have nothing to do with the heartbeat.
LEMMA OthersKeep ==
  ASSUME HeartbeatInv, UNCHANGED <<state, time, timeout, when, quiet>>
  PROVE  HeartbeatInv'
BY DEF HeartbeatInv, HeartbeatType, ArmedDeadline, Relative

LEMMA HeartbeatNext == HeartbeatInv /\ [Next]_vars => HeartbeatInv'
<1> SUFFICES ASSUME HeartbeatInv, [Next]_vars
             PROVE  HeartbeatInv'
  OBVIOUS
<1>1. CASE Tick
  BY <1>1, TickKeeps
<1>2. CASE KernelTick
  BY <1>2, OthersKeep DEF KernelTick, heartbeatVars, historyVars
<1>3. CASE Idle
  BY <1>3, OthersKeep DEF Idle, heartbeatVars, historyVars
<1>4. CASE OtherCall
  BY <1>4, OthersKeep DEF OtherCall, heartbeatVars, historyVars
<1>5. CASE Callback
  BY <1>5, OthersKeep DEF Callback, heartbeatVars
<1>6. ASSUME NEW b \in BOOLEAN, AliveFrame(b)
      PROVE  HeartbeatInv'
  BY <1>6, OthersKeep DEF AliveFrame, heartbeatVars, historyVars
<1>7. CASE HeartbeatFrame
  BY <1>7, ArmingKeeps DEF HeartbeatFrame, DeadlineFrom, HeartbeatInv, HeartbeatType
<1>8. ASSUME NEW ms \in Timeouts, SetHeartbeatTimeout(ms)
      PROVE  HeartbeatInv'
  BY <1>8, ArmingKeeps DEF SetHeartbeatTimeout, DeadlineFrom
<1>9. CASE UNCHANGED vars
  BY <1>9, OthersKeep DEF vars, heartbeatVars, historyVars
<1> QED BY <1>1, <1>2, <1>3, <1>4, <1>5, <1>6, <1>7, <1>8, <1>9 DEF Next

LEMMA HeartbeatInvariant == Spec => []HeartbeatInv
BY HeartbeatInit, HeartbeatNext, PTL DEF Spec

\* While an experiment runs, an armed heartbeat deadline is not overrun: the
\* first tick at it sends TIMEOUT and ends the run (experiment.h:138-141).
THEOREM ExperimentArmedDeadline == Spec => []ArmedDeadline
<1>1. HeartbeatInv => ArmedDeadline
  BY DEF HeartbeatInv
<1> QED BY <1>1, HeartbeatInvariant, PTL

\* TIMEOUT is no false alarm: no heartbeat came for the whole timeout, whatever
\* starts and stops set the clock back meanwhile (experiment.h:124, 153-157).
THEOREM ExperimentNoFalseTimeout ==
  ASSUME Counts
  PROVE  Spec => NoFalseTimeout
<1>1. HeartbeatInv /\ [Next]_vars => [missed' /\ Tick => quiet >= timeout]_vars
  <2> SUFFICES ASSUME HeartbeatInv, missed', Tick
               PROVE  quiet >= timeout
    OBVIOUS
  <2>1. timeout # 0 /\ when # 0 /\ ~(StartTime < when)
    BY TickEffect DEF HeartbeatMissed
  <2>2. CASE quiet = CapQuiet
    BY <2>1, <2>2, ExperimentAssumption DEF Counts, CapQuiet, HeartbeatInv, HeartbeatType
  <2>3. CASE time + timeout <= when + quiet
    BY <2>1, <2>3, StartTimeBound, ExperimentAssumption DEF HeartbeatInv, HeartbeatType
  <2> QED BY <2>1, <2>2, <2>3 DEF HeartbeatInv, Relative
<1> QED BY <1>1, HeartbeatInvariant, PTL DEF Spec, NoFalseTimeout

-----------------------------------------------------------------------------
(* What the scheduler does with a registry                                 *)

Things     == Callables \cup KernelCalls
Registries == {"idle", "run", "init", "stop", "timeout"}

\* what a schedule works on: [q, next, stime, lost]
Typed(s) == /\ s.q \in Seq(Things) /\ Len(s.q) <= QSize
            /\ s.next \in [Recurring -> Nat] /\ s.stime \in [Callables -> Nat]
            /\ s.lost \in BOOLEAN

LEMMA ExperimentNumbers ==
  /\ NInit \in Nat \ {0} /\ NStop \in Nat \ {0} /\ Others \in Nat /\ MaxSet \in Nat
  /\ QSize \in Nat \ {0} /\ Len(IdleDt) \in Nat /\ Len(RunDt) \in Nat
  /\ \A k \in 1 .. Len(IdleDt) : IdleDt[k] \in Nat \ {0}
  /\ \A k \in 1 .. Len(RunDt) : RunDt[k] \in Nat \ {0}
  /\ \A ms \in Timeouts : ms \in Nat
BY ExperimentAssumption

LEMMA EntriesAre ==
  /\ Entries("idle") = Len(IdleDt) /\ Entries("run") = Len(RunDt)
  /\ Entries("init") = NInit /\ Entries("stop") = NStop /\ Entries("timeout") = 1 + notify
BY DEF Entries

\* A registry is a list of schedulables.
LEMMA RegistryEntries ==
  ASSUME notify \in 0 .. MaxSet, NEW r \in Registries
  PROVE  /\ Entries(r) \in Nat
         /\ \A k \in 1 .. Entries(r) : <<r, k>> \in Callables
         /\ r \in {"idle", "run"} => \A k \in 1 .. Entries(r) : <<r, k>> \in Recurring
<1>1. CASE r = "idle"
  BY <1>1, EntriesAre, ExperimentNumbers DEF Callables, Recurring
<1>2. CASE r = "run"
  BY <1>2, EntriesAre, ExperimentNumbers DEF Callables, Recurring
<1>3. CASE r = "init"
  BY <1>3, EntriesAre, ExperimentNumbers DEF Callables, Evented
<1>4. CASE r = "stop"
  BY <1>4, EntriesAre, ExperimentNumbers DEF Callables, Evented
<1>5. CASE r = "timeout"
  <2>1. Entries(r) \in Nat /\ Entries(r) <= 1 + MaxSet
    BY <1>5, EntriesAre, ExperimentNumbers
  <2>2. \A k \in 1 .. Entries(r) : k \in 1 .. 1 + MaxSet
    BY <2>1, ExperimentNumbers
  <2> QED BY <1>5, <2>1, <2>2 DEF Callables, Evented
<1> QED BY <1>1, <1>2, <1>3, <1>4, <1>5 DEF Registries

LEMMA PeriodsAre == \A c \in Recurring : DtOf(c) \in Nat \ {0}
BY ExperimentNumbers DEF Recurring, DtOf

\* Nth lists the members of a set of numbers in their order, each once.
LEMMA NthIs ==
  ASSUME NEW T, T \subseteq Nat, IsFiniteSet(T), NEW i \in 1 .. Cardinality(T)
  PROVE  Nth(T, i) \in T /\ Rank(T, Nth(T, i)) = i - 1
<1>1. Cardinality(T) \in Nat
  BY FS_CardinalityType
<1>2. i - 1 \in Nat /\ i - 1 < Cardinality(T)
  BY <1>1
<1>3. \E k \in T : Rank(T, k) = i - 1
  BY <1>2, RankExists
<1>4. \E k \in T : Cardinality({j \in T : j < k}) = i - 1
  BY <1>3 DEF Rank, Below
<1>5. Nth(T, i) \in T /\ Cardinality({j \in T : j < Nth(T, i)}) = i - 1
  BY <1>4 DEF Nth
<1> QED BY <1>5 DEF Rank, Below

LEMMA NthOnto ==
  ASSUME NEW T, T \subseteq Nat, IsFiniteSet(T), NEW k \in T
  PROVE  Rank(T, k) + 1 \in 1 .. Cardinality(T) /\ Nth(T, Rank(T, k) + 1) = k
<1>1. Rank(T, k) \in Nat /\ Cardinality(T) \in Nat /\ Below(T, k) \subseteq T
  BY RankType, FS_CardinalityType DEF Below
<1>2. Cardinality(Below(T, k) \cup {k}) = Rank(T, k) + 1 /\ Below(T, k) \cup {k} \subseteq T
  BY <1>1, RankNext
<1>3. Rank(T, k) + 1 <= Cardinality(T)
  BY <1>1, <1>2, FS_Subset
<1>4. Rank(T, k) + 1 \in 1 .. Cardinality(T)
  BY <1>1, <1>3
<1> DEFINE i == Rank(T, k) + 1
           m == Nth(T, i)
<1>5. m \in T /\ Rank(T, m) = Rank(T, k)
  <2>1. i \in 1 .. Cardinality(T) /\ i - 1 = Rank(T, k)
    BY <1>1, <1>4
  <2> HIDE DEF i
  <2>2. Nth(T, i) \in T /\ Rank(T, Nth(T, i)) = i - 1
    BY <2>1, NthIs
  <2> QED BY <2>1, <2>2
<1> HIDE DEF m
<1>6. ~(m < k)
  <2>1. m < k => Rank(T, m) < Rank(T, k)
    BY <1>5, RankUnique
  <2> QED BY <1>1, <1>5, <2>1
<1>7. ~(k < m)
  <2>1. k < m => Rank(T, k) < Rank(T, m)
    BY <1>5, RankUnique
  <2> QED BY <1>1, <1>5, <2>1
<1>8. m = k
  BY <1>5, <1>6, <1>7
<1> QED BY <1>4, <1>8 DEF m

\* All entries in order, if all are taken.
LEMMA NthAll ==
  ASSUME NEW n \in Nat, NEW i \in 1 .. n
  PROVE  Cardinality(1 .. n) = n /\ Nth(1 .. n, i) = i
<1>1. IsFiniteSet(1 .. n) /\ Cardinality(1 .. n) = n
  BY FS_Interval
<1>2. Below(1 .. n, i) = 1 .. i - 1
  BY DEF Below
<1>3. Rank(1 .. n, i) = i - 1
  <2>1. i - 1 \in Int /\ 1 \in Int /\ (1 > i - 1 => i - 1 = 0) /\ (i - 1) - 1 + 1 = i - 1
    OBVIOUS
  <2> QED BY <1>2, <2>1, FS_Interval DEF Rank
<1>4. Nth(1 .. n, Rank(1 .. n, i) + 1) = i
  BY <1>1, NthOnto
<1> QED BY <1>1, <1>3, <1>4

\* The entries taken fit into the queue.
LEMMA TakenFits ==
  ASSUME NEW s, Typed(s), NEW r, Entries(r) \in Nat, NEW t
  PROVE  LET T == Taken(s, r, t)
         IN  /\ T \subseteq 1 .. Entries(r) /\ T \subseteq Nat /\ IsFiniteSet(T)
             /\ Cardinality(T) \in Nat /\ Cardinality(T) <= Room(s.q)
             /\ Cardinality(T) <= Entries(r)
<1> DEFINE n == Entries(r)
           D == {k \in 1 .. n : Due(s, r, t, k)}
           T == Taken(s, r, t)
           c == Room(s.q)
<1>1. c \in Nat
  BY LenProperties, ExperimentNumbers DEF Typed, Room
<1>2. IsFiniteSet(1 .. n) /\ Cardinality(1 .. n) = n /\ 1 .. n \subseteq Nat
  BY FS_Interval
<1>3. D \subseteq Nat /\ IsFiniteSet(D)
  BY <1>2, FS_Subset
<1>4. \A k \in 1 .. n : {j \in 1 .. k - 1 : Due(s, r, t, j)} = Below(D, k)
  <2> SUFFICES ASSUME NEW k \in 1 .. n
               PROVE  {j \in 1 .. k - 1 : Due(s, r, t, j)} = Below(D, k)
    OBVIOUS
  <2>1. \A j \in 1 .. k - 1 : j \in 1 .. n /\ j < k
    OBVIOUS
  <2>2. \A j \in 1 .. n : j < k => j \in 1 .. k - 1
    OBVIOUS
  <2> QED BY <2>1, <2>2 DEF Below
<1>5. \A k : k \in T <=> (k \in D /\ Rank(D, k) < c)
  BY <1>4 DEF Taken, Reached, Rank
<1>6. T \subseteq 1 .. n
  BY DEF Taken
<1> HIDE DEF D, T, c
<1>7. IsFiniteSet(T) /\ Cardinality(T) \in Nat /\ Cardinality(T) <= c
  BY <1>1, <1>3, <1>5, FirstMembers
<1>8. Cardinality(T) <= n
  BY <1>2, <1>6, FS_Subset
<1> QED BY <1>2, <1>6, <1>7, <1>8 DEF T, c

\* The batch of a set of entries.
LEMMA BatchIs ==
  ASSUME notify \in 0 .. MaxSet, NEW r \in Registries, NEW T \in SUBSET (1 .. Entries(r))
  PROVE  /\ Batch(r, T) \in Seq(Callables) /\ Len(Batch(r, T)) = Cardinality(T)
         /\ \A i \in 1 .. Cardinality(T) : Batch(r, T)[i] = <<r, Nth(T, i)>> /\ Nth(T, i) \in T
<1> DEFINE n == Cardinality(T)
<1>1. Entries(r) \in Nat /\ \A k \in 1 .. Entries(r) : <<r, k>> \in Callables
  BY RegistryEntries
<1>2. IsFiniteSet(1 .. Entries(r)) /\ T \subseteq Nat
  BY <1>1, FS_Interval
<1>3. IsFiniteSet(T) /\ n \in Nat
  BY <1>2, FS_Subset, FS_CardinalityType
<1>4. \A i \in 1 .. n : Nth(T, i) \in T
  BY <1>2, <1>3, NthIs
<1>5. \A i \in 1 .. n : <<r, Nth(T, i)>> \in Callables
  BY <1>1, <1>4
<1>6. Batch(r, T) = [i \in 1 .. n |-> <<r, Nth(T, i)>>]
  BY DEF Batch
<1> HIDE DEF n
<1>7. Batch(r, T) \in Seq(Callables) /\ Len(Batch(r, T)) = n
  BY <1>3, <1>5, <1>6
<1> QED BY <1>4, <1>6, <1>7 DEF n

\* What a schedule returns.
LEMMA ScheduledIs ==
  ASSUME NEW s, Typed(s), notify \in 0 .. MaxSet, NEW r \in Registries, NEW t \in Nat
  PROVE  LET o == Scheduled(s, r, t)
             T == Taken(s, r, t)
         IN  /\ Typed(o) /\ o.q = s.q \o Batch(r, T) /\ Len(o.q) = Len(s.q) + Cardinality(T)
             /\ (s.lost => o.lost)
             /\ \A c \in Recurring :
                  o.next[c] = IF c[1] = r /\ c[2] \in T THEN s.next[c] + DtOf(c) ELSE s.next[c]
             /\ \A c \in Callables :
                  o.stime[c] = IF c[1] = r /\ c[2] \in T THEN t ELSE s.stime[c]
<1> DEFINE T == Taken(s, r, t)
           b == Batch(r, T)
           hit(c) == c[1] = r /\ c[2] \in T
           o == Scheduled(s, r, t)
<1>1. /\ o.q = s.q \o b
      /\ o.next = [c \in Recurring |-> IF hit(c) THEN s.next[c] + DtOf(c) ELSE s.next[c]]
      /\ o.stime = [c \in Callables |-> IF hit(c) THEN t ELSE s.stime[c]]
      /\ o.lost = (s.lost \/ \E k \in 1 .. Entries(r) : ~Reached(s, r, t, k))
  BY DEF Scheduled
<1>2. Entries(r) \in Nat
  BY RegistryEntries
<1>3. T \in SUBSET (1 .. Entries(r)) /\ Cardinality(T) \in Nat /\ Cardinality(T) <= Room(s.q)
  BY <1>2, TakenFits
<1>4. b \in Seq(Callables) /\ Len(b) = Cardinality(T)
  BY <1>3, BatchIs
<1>5. b \in Seq(Things) /\ s.q \in Seq(Things)
  BY <1>4 DEF Things, Typed
<1> HIDE DEF b, T, hit, o
<1>6. s.q \o b \in Seq(Things) /\ Len(s.q \o b) = Len(s.q) + Len(b)
  BY <1>5, ConcatProperties
<1>7. Len(s.q \o b) <= QSize
  BY <1>3, <1>4, <1>6, LenProperties, <1>5, ExperimentNumbers DEF Room
<1>8. o.next \in [Recurring -> Nat] /\ o.stime \in [Callables -> Nat] /\ o.lost \in BOOLEAN
  <2>1. o.next \in [Recurring -> Nat]
    BY <1>1, PeriodsAre DEF Typed
  <2>2. o.stime \in [Callables -> Nat]
    BY <1>1 DEF Typed
  <2> QED BY <1>1, <2>1, <2>2 DEF Typed
<1>9. Typed(o)
  BY <1>1, <1>6, <1>7, <1>8 DEF Typed
<1> QED BY <1>1, <1>4, <1>6, <1>9 DEF hit, b, o, T

\* As long as nothing is lost, the entries taken are those that want to be.
LEMMA NotLost ==
  ASSUME NEW s, Typed(s), NEW r, NEW t, ~Scheduled(s, r, t).lost
  PROVE  ~s.lost /\ Taken(s, r, t) = {k \in 1 .. Entries(r) : Due(s, r, t, k)}
<1>1. Scheduled(s, r, t).lost = (s.lost \/ \E k \in 1 .. Entries(r) : ~Reached(s, r, t, k))
  BY DEF Scheduled
<1>2. ~s.lost /\ \A k \in 1 .. Entries(r) : Reached(s, r, t, k)
  BY <1>1
<1> QED BY <1>2 DEF Taken

\* A registry that fits is scheduled without a loss.
LEMMA FitsIsNotLost ==
  ASSUME NEW s, Typed(s), ~s.lost, NEW r, Entries(r) \in Nat, NEW t,
         Len(s.q) + Entries(r) <= QSize
  PROVE  ~Scheduled(s, r, t).lost
<1>1. Scheduled(s, r, t).lost = (s.lost \/ \E k \in 1 .. Entries(r) : ~Reached(s, r, t, k))
  BY DEF Scheduled
<1>2. ASSUME NEW k \in 1 .. Entries(r)
      PROVE  Reached(s, r, t, k)
  <2> DEFINE D == {j \in 1 .. k - 1 : Due(s, r, t, j)}
  <2>1. IsFiniteSet(1 .. k - 1) /\ Cardinality(1 .. k - 1) = k - 1
    <3>1. k - 1 \in Int /\ 1 \in Int /\ (1 > k - 1 => k - 1 = 0) /\ (k - 1) - 1 + 1 = k - 1
      OBVIOUS
    <3> QED BY <3>1, FS_Interval
  <2>2. D \subseteq 1 .. k - 1
    OBVIOUS
  <2> HIDE DEF D
  <2>3. Cardinality(D) \in Nat /\ Cardinality(D) <= k - 1
    BY <2>1, <2>2, FS_Subset, FS_CardinalityType
  <2>4. Len(s.q) \in Nat
    BY LenProperties DEF Typed
  <2>5. Cardinality(D) < QSize - Len(s.q)
    BY <2>3, <2>4, ExperimentNumbers
  <2> QED BY <2>5 DEF D, Reached, Room
<1> QED BY <1>1, <1>2

-----------------------------------------------------------------------------
(* Types                                                                   *)

Popped == [q |-> Tail(q), next |-> next, stime |-> stime, lost |-> lost]
Begun  == Event(Popped)
Drawn  == During(Begun)
Final  == IF alive /\ HeartbeatMissed(StartTime) THEN Scheduled(Drawn, "timeout", StartTime)
                                                 ELSE Drawn

LEMMA TickIs ==
  ASSUME Tick
  PROVE  /\ pc = "run" /\ q # << >> /\ Head(q) = TickCall
         /\ state' = IF alive THEN "RUN" ELSE "IDLE"
         /\ alive' = (alive /\ ~(alive /\ HeartbeatMissed(StartTime)))
         /\ q' = Final.q /\ next' = Final.next /\ stime' = Final.stime /\ lost' = Final.lost
         /\ time' = StartTime + 1
         /\ UNCHANGED <<isr, timeout, notify, go, pc, ran, last>>
BY DEF Tick, Final, Drawn, Begun, Popped

LEMMA StartTimeIs ==
  ASSUME time \in Nat
  PROVE  StartTime \in Nat
BY DEF StartTime

\* The registries are reset, the queue and the rest are not touched.
LEMMA ResetIs ==
  ASSUME NEW s, Typed(s), NEW o, o = Scheduled(s, "init", StartTime), Typed(o)
  PROVE  LET z == RegistriesReset(o)
         IN  /\ Typed(z) /\ z.q = o.q /\ z.stime = o.stime /\ z.lost = o.lost
             /\ \A c \in Recurring : z.next[c] = 0
<1> DEFINE z == RegistriesReset(o)
<1>1. /\ z.q = o.q /\ z.stime = o.stime /\ z.lost = o.lost
      /\ z.next = [c \in Recurring |-> 0]
  BY DEF RegistriesReset, Scheduled
<1> HIDE DEF z
<1>2. Typed(z)
  BY <1>1 DEF Typed
<1> QED BY <1>1, <1>2 DEF z

\* A tick passes through four states of the kernel's queue.
LEMMA TickTyped ==
  ASSUME TypeOK, q # << >>
  PROVE  /\ Typed(Popped) /\ Typed(Begun) /\ Typed(Drawn) /\ Typed(Final)
         /\ (Popped.lost => Begun.lost) /\ (Begun.lost => Drawn.lost)
         /\ (Drawn.lost => Final.lost)
<1>1. notify \in 0 .. MaxSet /\ StartTime \in Nat
  BY StartTimeIs DEF TypeOK
<1>2. Typed(Popped)
  <2>1. q \in Seq(Things) /\ Len(q) <= QSize
    BY DEF TypeOK, Things
  <2>2. Tail(q) \in Seq(Things) /\ Len(Tail(q)) = Len(q) - 1
    BY <2>1, HeadTailProperties
  <2>3. Len(Tail(q)) <= QSize
    BY <2>1, <2>2, LenProperties, ExperimentNumbers
  <2> QED BY <2>2, <2>3 DEF Popped, Typed, TypeOK
<1>3. Typed(Begun) /\ (Popped.lost => Begun.lost)
  <2>1. CASE Starts
    <3> DEFINE o == Scheduled(Popped, "init", StartTime)
    <3>1. Typed(o) /\ (Popped.lost => o.lost)
      BY <1>1, <1>2, ScheduledIs DEF Registries
    <3>2. Begun = RegistriesReset(o)
      <4>1. ~Stops
        BY <2>1 DEF Starts, Stops
      <4> QED BY <2>1, <4>1 DEF Begun, Event
    <3> HIDE DEF o
    <3>3. Typed(RegistriesReset(o)) /\ RegistriesReset(o).lost = o.lost
      BY <1>2, <3>1, ResetIs DEF o
    <3> QED BY <3>1, <3>2, <3>3
  <2>2. CASE ~Starts /\ Stops
    <3>1. Begun = Scheduled(Popped, "stop", StartTime)
      BY <2>2 DEF Begun, Event
    <3> QED BY <1>1, <1>2, <3>1, ScheduledIs DEF Registries
  <2>3. CASE ~Starts /\ ~Stops
    BY <1>2, <2>3 DEF Begun, Event
  <2> QED BY <2>1, <2>2, <2>3
<1>4. Typed(Drawn) /\ (Begun.lost => Drawn.lost)
  <2>1. CASE alive
    <3>1. Drawn = Scheduled(Begun, "run", StartTime)
      BY <2>1 DEF Drawn, During
    <3> QED BY <1>1, <1>3, <3>1, ScheduledIs DEF Registries
  <2>2. CASE ~alive
    <3>1. Drawn = Scheduled(Begun, "idle", StartTime)
      BY <2>2 DEF Drawn, During
    <3> QED BY <1>1, <1>3, <3>1, ScheduledIs DEF Registries
  <2> QED BY <2>1, <2>2
<1>5. Typed(Final) /\ (Drawn.lost => Final.lost)
  <2>1. CASE alive /\ HeartbeatMissed(StartTime)
    <3>1. Final = Scheduled(Drawn, "timeout", StartTime)
      BY <2>1 DEF Final
    <3> QED BY <1>1, <1>4, <3>1, ScheduledIs DEF Registries
  <2>2. CASE ~(alive /\ HeartbeatMissed(StartTime))
    BY <1>4, <2>2 DEF Final
  <2> QED BY <2>1, <2>2
<1> QED BY <1>2, <1>3, <1>4, <1>5

LEMMA TypeInit == Init => TypeOK
<1> SUFFICES ASSUME Init PROVE TypeOK
  OBVIOUS
<1>1. << >> \in Seq(Callables \cup KernelCalls) /\ Len(<< >>) = 0
  BY EmptySeq
<1>2. since \in [1 .. Len(IdleDt) -> Nat]
  BY ExperimentNumbers, ExperimentAssumption DEF Init
<1>3. /\ next \in [Recurring -> Nat] /\ stime \in [Callables -> Nat]
      /\ ran \in [1 .. Len(RunDt) -> Nat]
  BY DEF Init
<1>4. q = << >> /\ Len(q) <= QSize /\ q \in Seq(Callables \cup KernelCalls)
  BY <1>1, ExperimentNumbers DEF Init
<1>5. /\ isr \in Isr /\ state \in {"IDLE", "RUN"} /\ time \in Nat
      /\ timeout \in Timeouts \cup {0} /\ when \in Nat /\ notify \in 0 .. MaxSet
      /\ pc \in {"run", "idle", "done"} /\ quiet \in Nat
      /\ last \in Callables \cup {<<"none", 0>>}
  BY ExperimentNumbers DEF Init
<1>6. alive \in BOOLEAN /\ go \in BOOLEAN /\ lost \in BOOLEAN /\ missed \in BOOLEAN
  BY DEF Init
<1> QED BY <1>2, <1>3, <1>4, <1>5, <1>6 DEF TypeOK

\* the calls of the kernel's registry in a tick
Tasks == <<TickCall>> \o [k \in 1 .. Others |-> <<"other", k>>]

LEMMA TasksAre ==
  /\ Tasks \in Seq(KernelCalls) /\ Len(Tasks) = Others + 1 /\ Tasks[1] = TickCall
  /\ \A i \in 2 .. Others + 1 : Tasks[i] = <<"other", i - 1>>
<1> DEFINE s == <<TickCall>>
           o == [k \in 1 .. Others |-> <<"other", k>>]
<1>1. s \in Seq(KernelCalls) /\ Len(s) = 1 /\ s[1] = TickCall
  BY DEF KernelCalls
<1>2. /\ o \in Seq(KernelCalls) /\ Len(o) = Others
      /\ \A i \in 1 .. Others : o[i] = <<"other", i>>
  BY ExperimentNumbers DEF KernelCalls
<1> HIDE DEF s, o
<1>3. /\ s \o o \in Seq(KernelCalls) /\ Len(s \o o) = Len(s) + Len(o)
      /\ \A i \in 1 .. Len(s) + Len(o) :
           (s \o o)[i] = IF i <= Len(s) THEN s[i] ELSE o[i - Len(s)]
  BY <1>1, <1>2, ConcatProperties
<1>4. Others \in Nat /\ Tasks = s \o o
  BY ExperimentNumbers DEF Tasks, s, o
<1>5. \A i \in 2 .. Others + 1 : i - 1 \in 1 .. Others
  BY <1>4
<1> QED BY <1>1, <1>2, <1>3, <1>4, <1>5

\* What Kernel::tick puts into the queue, and that it fits.
LEMMA KernelTickIs ==
  ASSUME TypeOK, KernelTick
  PROVE  \E n \in 0 .. Others + 1 :
           LET b == SubSeq(Tasks, 1, n)
           IN  /\ b \in Seq(KernelCalls) /\ Len(b) = n /\ Len(q) + n <= QSize
               /\ \A i \in 1 .. n : b[i] = Tasks[i]
               /\ q' = q \o b
<1> DEFINE n == IF Room(q) < Len(Tasks) THEN Room(q) ELSE Len(Tasks)
           b == SubSeq(Tasks, 1, n)
<1>1. q' = q \o b
  BY DEF KernelTick, Tasks
<1>2. Len(q) \in Nat /\ Len(q) <= QSize
  BY LenProperties DEF TypeOK
<1>3. n \in 0 .. Others + 1 /\ Len(q) + n <= QSize
  BY <1>2, TasksAre, ExperimentNumbers DEF Room
<1> HIDE DEF n
<1>4. 1 \in 1 .. Len(Tasks) + 1 /\ n \in 1 - 1 .. Len(Tasks)
  BY <1>3, TasksAre, ExperimentNumbers
<1>5. b \in Seq(KernelCalls) /\ Len(b) = n /\ \A i \in 1 .. n : b[i] = Tasks[i]
  <2>1. /\ SubSeq(Tasks, 1, n) \in Seq(KernelCalls)
        /\ Len(SubSeq(Tasks, 1, n)) = (IF 1 <= n THEN n - 1 + 1 ELSE 0)
        /\ \A i \in 1 .. n - 1 + 1 : SubSeq(Tasks, 1, n)[i] = Tasks[1 + i - 1]
    BY <1>4, TasksAre, SubSeqProperties
  <2> QED BY <1>3, <2>1
<1> QED BY <1>1, <1>3, <1>5

LEMMA TypeNext == TypeOK /\ [Next]_vars => TypeOK'
<1> SUFFICES ASSUME TypeOK, [Next]_vars
             PROVE  TypeOK'
  OBVIOUS
<1> USE DEF heartbeatVars, queueVars, historyVars
<1>1. CASE Tick
  <2>1. q # << >> /\ Typed(Final)
    BY <1>1, TickIs, TickTyped
  <2>2. /\ q' \in Seq(Callables \cup KernelCalls) /\ Len(q') <= QSize
        /\ next' \in [Recurring -> Nat] /\ stime' \in [Callables -> Nat] /\ lost' \in BOOLEAN
    BY <1>1, <2>1, TickIs DEF Typed, Things
  <2>3. since' \in [1 .. Len(IdleDt) -> Nat]
    <3>1. \A k \in 1 .. Len(IdleDt) : IdleDt[k] \in Nat /\ since[k] \in Nat
      BY ExperimentNumbers DEF TypeOK
    <3>2. \A k \in 1 .. Len(IdleDt) :
            /\ (IF since[k] < IdleDt[k] THEN since[k] + 1 ELSE IdleDt[k]) \in Nat
            /\ 1 \in Nat
      BY <3>1
    <3> QED BY <1>1, <3>2 DEF Tick
  <2>4. time' \in Nat /\ quiet' \in Nat /\ when' \in Nat /\ missed' \in BOOLEAN
    BY <1>1, StartTimeIs DEF Tick, TypeOK
  <2>5. state' \in {"IDLE", "RUN"} /\ alive' \in BOOLEAN
    BY <1>1, TickIs
  <2> QED BY <1>1, <2>2, <2>3, <2>4, <2>5, TickIs DEF TypeOK
<1>2. CASE KernelTick
  <2>1. PICK n \in 0 .. Others + 1 :
          LET b == SubSeq(Tasks, 1, n)
          IN  b \in Seq(KernelCalls) /\ Len(b) = n /\ Len(q) + n <= QSize /\ q' = q \o b
    BY <1>2, KernelTickIs
  <2> DEFINE b == SubSeq(Tasks, 1, n)
  <2>2. b \in Seq(Callables \cup KernelCalls) /\ q \in Seq(Callables \cup KernelCalls)
    BY <2>1 DEF TypeOK
  <2> HIDE DEF b
  <2>3. q \o b \in Seq(Callables \cup KernelCalls) /\ Len(q \o b) = Len(q) + Len(b)
    BY <2>2, ConcatProperties
  <2>4. q' \in Seq(Callables \cup KernelCalls) /\ Len(q') <= QSize
    BY <2>1, <2>3 DEF b
  <2>5. go' \in BOOLEAN /\ pc' \in {"run", "idle", "done"}
    BY <1>2 DEF KernelTick, TypeOK
  <2> QED BY <1>2, <2>4, <2>5 DEF KernelTick, TypeOK
<1>3. CASE Idle
  BY <1>3 DEF Idle, TypeOK
<1>4. ASSUME q # << >>, q' = Tail(q)
      PROVE  q' \in Seq(Callables \cup KernelCalls) /\ Len(q') <= QSize
  <2>1. Tail(q) \in Seq(Callables \cup KernelCalls) /\ Len(Tail(q)) = Len(q) - 1
    BY <1>4, HeadTailProperties DEF TypeOK
  <2> QED BY <1>4, <2>1, LenProperties, ExperimentNumbers DEF TypeOK
<1>5. CASE OtherCall
  BY <1>4, <1>5 DEF OtherCall, TypeOK
<1>6. CASE Callback
  <2>1. ran' \in [1 .. Len(RunDt) -> Nat]
    <3>1. CASE Head(q)[1] = "run"
      <4> DEFINE x == Head(q)[2]
      <4>1. ran' = [ran EXCEPT ![x] = ran[x] + 1]
        BY <1>6, <3>1 DEF Callback
      <4>2. x \in 1 .. Len(RunDt)
        BY <1>6, <3>1 DEF Callback, Callables, Recurring, Evented
      <4> HIDE DEF x
      <4>3. ran \in [1 .. Len(RunDt) -> Nat]
        BY DEF TypeOK
      <4> QED BY <4>1, <4>2, <4>3
    <3>2. CASE Head(q)[1] = "init"
      BY <1>6, <3>2 DEF Callback, TypeOK
    <3>3. CASE Head(q)[1] # "run" /\ Head(q)[1] # "init"
      BY <1>6, <3>3 DEF Callback, TypeOK
    <3> QED BY <3>1, <3>2, <3>3
  <2>2. last' \in Callables \cup {<<"none", 0>>}
    BY <1>6 DEF Callback, TypeOK
  <2> QED BY <1>4, <1>6, <2>1, <2>2 DEF Callback, TypeOK
<1>7. ASSUME NEW b \in BOOLEAN, AliveFrame(b)
      PROVE  TypeOK'
  BY <1>7 DEF AliveFrame, TypeOK
<1>8. CASE HeartbeatFrame
  BY <1>8, ExperimentNumbers DEF HeartbeatFrame, DeadlineFrom, TypeOK
<1>9. ASSUME NEW ms \in Timeouts, SetHeartbeatTimeout(ms)
      PROVE  TypeOK'
  BY <1>9, ExperimentNumbers DEF SetHeartbeatTimeout, DeadlineFrom, TypeOK
<1>10. CASE UNCHANGED vars
  BY <1>10 DEF vars, TypeOK
<1> QED BY <1>1, <1>2, <1>3, <1>5, <1>6, <1>7, <1>8, <1>9, <1>10 DEF Next

\* The state has its type; no registry, timeout or number of ticks behind makes
\* the queue outgrow its slots (experiment.h, schedule.h:51-58).
THEOREM ExperimentTypeOK == Spec => []TypeOK
BY TypeInit, TypeNext, PTL DEF Spec

-----------------------------------------------------------------------------
(* The grid of the running callbacks                                       *)

\* As long as nothing is lost, next of each running callback that is due moves
\* on by a period, and no other.
LEMMA RunScheduled ==
  ASSUME NEW s, Typed(s), notify \in 0 .. MaxSet, NEW t \in Nat,
         ~Scheduled(s, "run", t).lost, NEW k \in 1 .. Len(RunDt)
  PROVE  LET c == <<"run", k>>
             o == Scheduled(s, "run", t)
         IN  /\ ~s.lost /\ c \in Recurring /\ c \in Callables
             /\ k \in Taken(s, "run", t) <=> ~(t < s.next[c])
             /\ o.next[c] = IF t < s.next[c] THEN s.next[c] ELSE s.next[c] + RunDt[k]
             /\ o.stime[c] = IF t < s.next[c] THEN s.stime[c] ELSE t
<1> DEFINE c == <<"run", k>>
           T == Taken(s, "run", t)
<1>1. ~s.lost /\ (k \in T <=> ~(t < s.next[c]))
  BY NotLost, EntriesAre DEF Due
<1>2. c \in Recurring /\ c \in Callables /\ DtOf(c) = RunDt[k] /\ c[1] = "run" /\ c[2] = k
  BY DEF Recurring, Callables, DtOf
<1> HIDE DEF c, T
<1>3. /\ Scheduled(s, "run", t).next[c]
           = IF c[1] = "run" /\ c[2] \in T THEN s.next[c] + DtOf(c) ELSE s.next[c]
      /\ Scheduled(s, "run", t).stime[c] = IF c[1] = "run" /\ c[2] \in T THEN t ELSE s.stime[c]
  BY <1>2, ScheduledIs DEF T, Registries
<1> QED BY <1>1, <1>2, <1>3 DEF c, T

\* Any other registry leaves the running callbacks alone.
LEMMA OtherScheduled ==
  ASSUME NEW s, Typed(s), notify \in 0 .. MaxSet, NEW t \in Nat,
         NEW r \in Registries, r # "run", NEW k \in 1 .. Len(RunDt)
  PROVE  LET c == <<"run", k>>
             o == Scheduled(s, r, t)
         IN  o.next[c] = s.next[c] /\ o.stime[c] = s.stime[c]
<1> DEFINE c == <<"run", k>>
<1>1. c \in Recurring /\ c \in Callables /\ c[1] # r
  BY DEF Recurring, Callables
<1> HIDE DEF c
<1> QED BY <1>1, ScheduledIs DEF c

\* A tick that starts a run: all running callbacks are due at its time 0.
LEMMA Starting ==
  ASSUME TypeOK, q # << >>, Starts
  PROVE  /\ StartTime = 0 /\ ~Stops
         /\ Begun.q = Scheduled(Popped, "init", 0).q
         /\ Begun.stime = Scheduled(Popped, "init", 0).stime
         /\ Begun.lost = Scheduled(Popped, "init", 0).lost
         /\ \A c \in Recurring : Begun.next[c] = 0
<1> DEFINE o == Scheduled(Popped, "init", StartTime)
<1>1. StartTime = 0 /\ ~Stops
  BY DEF StartTime, Starts, Stops
<1>2. Begun = RegistriesReset(o)
  BY <1>1 DEF Begun, Event
<1>3. Typed(o) /\ Typed(Popped)
  BY <1>1, TickTyped, ScheduledIs DEF TypeOK, Registries
<1> HIDE DEF o
<1>4. LET z == RegistriesReset(o)
      IN  z.q = o.q /\ z.stime = o.stime /\ z.lost = o.lost /\ \A c \in Recurring : z.next[c] = 0
  BY <1>3, ResetIs DEF o
<1> QED BY <1>1, <1>2, <1>4 DEF o

LEMMA BegunOnGrid ==
  ASSUME TypeOK, q # << >>, RunOnTheGrid, alive, ~Begun.lost, NEW k \in 1 .. Len(RunDt)
  PROVE  LET n == Begun.next[<<"run", k>>]
         IN  StartTime <= n /\ n < StartTime + RunDt[k] /\ n % RunDt[k] = 0
<1>1. RunDt[k] \in Nat \ {0} /\ <<"run", k>> \in Recurring
  BY ExperimentNumbers DEF Recurring
<1>2. CASE Starts
  BY <1>1, <1>2, Starting, ZeroMultiple
<1>3. CASE ~Starts
  <2>1. ~Stops /\ state = "RUN" /\ StartTime = time
    BY <1>3 DEF Starts, Stops, StartTime, TypeOK
  <2>2. Begun = Popped
    BY <1>3, <2>1 DEF Begun, Event
  <2>3. Begun.next = next /\ ~lost
    BY <2>2 DEF Popped
  <2> QED BY <2>1, <2>3 DEF RunOnTheGrid
<1> QED BY <1>2, <1>3

LEMMA TickKeepsGrid ==
  ASSUME TypeOK, RunOnTheGrid, Tick
  PROVE  RunOnTheGrid'
<1> SUFFICES ASSUME state' = "RUN", ~lost', NEW k \in 1 .. Len(RunDt)
             PROVE  /\ time' <= next'[<<"run", k>>]
                    /\ next'[<<"run", k>>] < time' + RunDt[k]
                    /\ next'[<<"run", k>>] % RunDt[k] = 0
  BY DEF RunOnTheGrid
<1> DEFINE n == Begun.next[<<"run", k>>]
<1>1. /\ alive /\ ~Final.lost /\ q # << >> /\ notify \in 0 .. MaxSet /\ StartTime \in Nat
      /\ next' = Final.next /\ time' = StartTime + 1
  BY TickIs, StartTimeIs DEF TypeOK
<1>2. /\ Typed(Begun) /\ Typed(Drawn) /\ ~Drawn.lost /\ ~Begun.lost
      /\ Drawn = Scheduled(Begun, "run", StartTime)
  BY <1>1, TickTyped DEF Drawn, During
<1>3. Final.next[<<"run", k>>] = Drawn.next[<<"run", k>>]
  BY <1>1, <1>2, OtherScheduled DEF Final, Registries
<1>4. Drawn.next[<<"run", k>>] = IF StartTime < n THEN n ELSE n + RunDt[k]
  BY <1>1, <1>2, RunScheduled
<1>5. StartTime <= n /\ n < StartTime + RunDt[k] /\ n % RunDt[k] = 0
  BY <1>1, <1>2, BegunOnGrid
<1>6. RunDt[k] \in Nat \ {0} /\ n \in Nat
  BY <1>2, ExperimentNumbers DEF Recurring, Typed
<1> DEFINE t == StartTime
           p == RunDt[k]
           m == Drawn.next[<<"run", k>>]
<1>7. /\ t \in Nat /\ n \in Nat /\ p \in Nat \ {0}
      /\ t <= n /\ n < t + p /\ n % p = 0
      /\ m = (IF t < n THEN n ELSE n + p)
  BY <1>1, <1>4, <1>5, <1>6
<1>8. time' = t + 1 /\ next'[<<"run", k>>] = m
  BY <1>1, <1>3
<1> HIDE DEF n, t, p, m
<1>9. t + 1 <= m /\ m < t + 1 + p /\ m % p = 0
  <2>1. CASE t < n
    BY <1>7, <2>1
  <2>2. CASE ~(t < n)
    <3>1. n = t /\ m = n + p
      BY <1>7, <2>2
    <3>2. (n + p) % p = 0
      BY <1>7, NextMultiple
    <3>3. t + 1 <= m /\ m < t + 1 + p
      BY <1>7, <3>1
    <3> QED BY <3>1, <3>2, <3>3
  <2> QED BY <2>1, <2>2
<1> QED BY <1>7, <1>8, <1>9 DEF p

LEMMA GridNext == TypeOK /\ RunOnTheGrid /\ [Next]_vars => RunOnTheGrid'
<1> SUFFICES ASSUME TypeOK, RunOnTheGrid, [Next]_vars
             PROVE  RunOnTheGrid'
  OBVIOUS
<1> USE DEF queueVars
<1>1. CASE Tick
  BY <1>1, TickKeepsGrid
<1>2. ASSUME UNCHANGED <<state, time, next, lost>>
      PROVE  RunOnTheGrid'
  BY <1>2 DEF RunOnTheGrid
<1>3. Tick \/ UNCHANGED <<state, time, next, lost>>
  BY DEF Next, vars, KernelTick, Idle, OtherCall, Callback, AliveFrame, HeartbeatFrame,
         SetHeartbeatTimeout
<1> QED BY <1>1, <1>2, <1>3

\* During a run, as long as the queue never dropped a callback, every running
\* callback is scheduled on all the multiples of its period in experiment time,
\* which starts anew with each run (experiment.h:122-143, timed.h:33-41).
THEOREM ExperimentRunOnTheGrid == Spec => []RunOnTheGrid
<1>1. Init => RunOnTheGrid
  BY DEF Init, RunOnTheGrid
<1> QED BY <1>1, GridNext, ExperimentTypeOK, PTL DEF Spec

-----------------------------------------------------------------------------
(* The order of the callbacks                                              *)

RunningAt(x) == x[1] \in {"init", "run", "timeout"}
WholeAt(x)   == /\ x[1] = "init" => x[2] = NInit
                /\ x[1] = "stop" => x[2] = NStop

\* y may be called right after x
Follows(x, y) ==
  \/ ~RunningAt(x) /\ WholeAt(x) /\ (y = <<"init", 1>> \/ y \in {"idle"} \X (1 .. Len(IdleDt)))
  \/ /\ RunningAt(x) /\ WholeAt(x)
     /\ \/ y = <<"stop", 1>>
        \/ y \in {"run"} \X (1 .. Len(RunDt))
        \/ y \in {"timeout"} \X (1 .. 1 + MaxSet)
  \/ x[1] = "init" /\ x[2] < NInit /\ y = <<"init", x[2] + 1>>
  \/ x[1] = "stop" /\ x[2] < NStop /\ y = <<"stop", x[2] + 1>>

\* The callback that was called last, w, is place 0 of the queue s.
Place(w, s, i)   == IF i = 0 THEN w ELSE s[i]
IsCall(s, i)     == i = 0 \/ s[i] \in Callables
NoCall(s, i, j)  == \A m \in i .. j : ~IsCall(s, m)
Chained(w, s)    == \A i \in 0 .. Len(s), j \in 1 .. Len(s) :
                      i < j /\ IsCall(s, i) /\ IsCall(s, j) /\ NoCall(s, i + 1, j - 1)
                        => Follows(Place(w, s, i), Place(w, s, j))
EndsIn(x, u)     == WholeAt(x) /\ (RunningAt(x) <=> u)
Settled(w, s, u) == \A i \in 0 .. Len(s) :
                      IsCall(s, i) /\ NoCall(s, i + 1, Len(s)) => EndsIn(Place(w, s, i), u)

\* As long as nothing is lost, what was called last and what is in the queue
\* are in the order, and the state is the one the last callback leads to.
OrderInv == ~lost => Chained(last, q) /\ Settled(last, q, state = "RUN")

LEMMA CallsApart == \A c \in KernelCalls : c \notin Callables
BY DEF KernelCalls, TickCall, Callables, Recurring, Evented

\* The kernel takes the front of the queue.
LEMMA ChainShift ==
  ASSUME NEW s \in Seq(Things), s # << >>, NEW w, Chained(w, s), NEW u, Settled(w, s, u),
         NEW v, v = IF Head(s) \in Callables THEN Head(s) ELSE w
  PROVE  /\ Chained(v, Tail(s)) /\ Settled(v, Tail(s), u)
         /\ Head(s) \in Callables => Follows(w, Head(s))
<1> DEFINE n == Len(s)
           t == Tail(s)
<1>1. /\ n \in Nat /\ n >= 1 /\ Len(t) = n - 1 /\ Head(s) = s[1]
      /\ \A i \in 1 .. n - 1 : t[i] = s[i + 1]
  BY EmptySeq, LenProperties, HeadTailProperties
<1> HIDE DEF n, t
<1>2. \A i \in 1 .. n - 1 : (IsCall(t, i) <=> IsCall(s, i + 1)) /\ Place(v, t, i) = Place(w, s, i + 1)
  <2> SUFFICES ASSUME NEW i \in 1 .. n - 1
               PROVE  (IsCall(t, i) <=> IsCall(s, i + 1)) /\ Place(v, t, i) = Place(w, s, i + 1)
    OBVIOUS
  <2>1. t[i] = s[i + 1] /\ i # 0 /\ i + 1 # 0
    BY <1>1
  <2> QED BY <2>1 DEF IsCall, Place
\* the place of s that place i of t stands for
<1> DEFINE O(i) == IF i = 0 /\ Head(s) \notin Callables THEN 0 ELSE i + 1
<1>3. ASSUME NEW i \in 0 .. n - 1
      PROVE  /\ O(i) \in 0 .. n /\ O(i) <= i + 1
             /\ IsCall(t, i) => IsCall(s, O(i)) /\ Place(v, t, i) = Place(w, s, O(i))
  <2>1. CASE i = 0
    <3>1. CASE Head(s) \in Callables
      BY <1>1, <2>1, <3>1 DEF IsCall, Place
    <3>2. CASE Head(s) \notin Callables
      BY <1>1, <2>1, <3>2 DEF IsCall, Place
    <3> QED BY <3>1, <3>2
  <2>2. CASE i # 0
    <3>1. i \in 1 .. n - 1 /\ O(i) = i + 1
      BY <1>1, <2>2
    <3> QED BY <1>1, <1>2, <3>1
  <2> QED BY <2>1, <2>2
<1>4. ASSUME NEW i \in 0 .. n - 1, NEW j \in Nat, j <= n - 1, NoCall(t, i + 1, j)
      PROVE  NoCall(s, O(i) + 1, j + 1)
  <2> SUFFICES ASSUME NEW m \in O(i) + 1 .. j + 1
               PROVE  ~IsCall(s, m)
    BY DEF NoCall
  <2>1. CASE m >= i + 2
    <3>1. m - 1 \in i + 1 .. j /\ m - 1 \in 1 .. n - 1 /\ (m - 1) + 1 = m
      BY <1>1, <1>3, <1>4, <2>1
    <3> QED BY <1>2, <1>4, <3>1 DEF NoCall
  <2>2. CASE m < i + 2
    <3>1. i = 0 /\ Head(s) \notin Callables /\ m = 1
      BY <1>1, <1>3, <2>2
    <3> QED BY <1>1, <3>1 DEF IsCall
  <2> QED BY <1>3, <2>1, <2>2
<1>5. Chained(v, t)
  <2> SUFFICES ASSUME NEW i \in 0 .. n - 1, NEW j \in 1 .. n - 1, i < j,
                      IsCall(t, i), IsCall(t, j), NoCall(t, i + 1, j - 1)
               PROVE  Follows(Place(v, t, i), Place(v, t, j))
    BY <1>1 DEF Chained
  <2>1. j - 1 \in Nat /\ j - 1 <= n - 1 /\ (j - 1) + 1 = j /\ (j + 1) - 1 = j
    BY <1>1
  <2>2. NoCall(s, O(i) + 1, (j + 1) - 1)
    BY <1>4, <2>1
  <2>3. O(i) \in 0 .. n /\ O(i) < j + 1 /\ j + 1 \in 1 .. n
    BY <1>1, <1>3
  <2>4. IsCall(s, O(i)) /\ IsCall(s, j + 1)
    BY <1>2, <1>3
  <2>5. Follows(Place(w, s, O(i)), Place(w, s, j + 1))
    BY <2>2, <2>3, <2>4 DEF Chained, n
  <2> QED BY <1>2, <1>3, <2>5
<1>6. Settled(v, t, u)
  <2> SUFFICES ASSUME NEW i \in 0 .. n - 1, IsCall(t, i), NoCall(t, i + 1, n - 1)
               PROVE  EndsIn(Place(v, t, i), u)
    BY <1>1 DEF Settled
  <2>1. n - 1 \in Nat /\ n - 1 <= n - 1 /\ (n - 1) + 1 = n
    BY <1>1
  <2>2. NoCall(s, O(i) + 1, n)
    BY <1>4, <2>1
  <2>3. O(i) \in 0 .. n /\ IsCall(s, O(i)) /\ Place(v, t, i) = Place(w, s, O(i))
    BY <1>3
  <2>4. EndsIn(Place(w, s, O(i)), u)
    BY <2>2, <2>3 DEF Settled, n
  <2> QED BY <2>3, <2>4
<1>7. Head(s) \in Callables => Follows(w, Head(s))
  <2> SUFFICES ASSUME Head(s) \in Callables PROVE Follows(w, Head(s))
    OBVIOUS
  <2>1. IsCall(s, 0) /\ IsCall(s, 1) /\ NoCall(s, 0 + 1, 1 - 1) /\ 0 \in 0 .. n /\ 1 \in 1 .. n
    BY <1>1 DEF IsCall, NoCall
  <2>2. Follows(Place(w, s, 0), Place(w, s, 1))
    BY <2>1 DEF Chained, n
  <2> QED BY <1>1, <2>2 DEF Place
<1> QED BY <1>5, <1>6, <1>7 DEF t

\* Something is appended.
LEMMA ChainConcat ==
  ASSUME NEW s \in Seq(Things), NEW b \in Seq(Things), NEW w
  PROVE  /\ s \o b \in Seq(Things) /\ Len(s \o b) = Len(s) + Len(b)
         /\ \A i \in 0 .. Len(s) : /\ IsCall(s \o b, i) <=> IsCall(s, i)
                                   /\ Place(w, s \o b, i) = Place(w, s, i)
         /\ \A i \in 1 .. Len(b) : (s \o b)[Len(s) + i] = b[i]
         /\ \A i \in Nat, j \in Nat :
              j <= Len(s) /\ NoCall(s \o b, i, j) => NoCall(s, i, j)
<1> DEFINE n == Len(s)
           c == s \o b
<1>1. /\ c \in Seq(Things) /\ Len(c) = n + Len(b) /\ n \in Nat /\ Len(b) \in Nat
      /\ \A i \in 1 .. n + Len(b) : c[i] = IF i <= n THEN s[i] ELSE b[i - n]
  BY ConcatProperties
<1> HIDE DEF n, c
<1>2. ASSUME NEW i \in 0 .. n
      PROVE  (IsCall(c, i) <=> IsCall(s, i)) /\ Place(w, c, i) = Place(w, s, i)
  <2>1. i # 0 => c[i] = s[i]
    BY <1>1
  <2> QED BY <2>1 DEF IsCall, Place
<1>3. ASSUME NEW i \in 1 .. Len(b) PROVE c[n + i] = b[i]
  BY <1>1
<1>4. ASSUME NEW i \in Nat, NEW j \in Nat, j <= n, NoCall(c, i, j)
      PROVE  NoCall(s, i, j)
  <2> SUFFICES ASSUME NEW m \in i .. j PROVE ~IsCall(s, m)
    BY DEF NoCall
  <2>1. m \in 0 .. n
    BY <1>1, <1>4
  <2> QED BY <1>2, <1>4, <2>1 DEF NoCall
<1> QED BY <1>1, <1>2, <1>3, <1>4 DEF n, c

\* The kernel's own calls do not matter.
LEMMA ChainKernel ==
  ASSUME NEW s \in Seq(Things), NEW b \in Seq(KernelCalls), NEW w, Chained(w, s),
         NEW u, Settled(w, s, u)
  PROVE  Chained(w, s \o b) /\ Settled(w, s \o b, u)
<1> DEFINE n == Len(s)
           c == s \o b
<1>1. b \in Seq(Things) /\ Len(b) \in Nat /\ n \in Nat /\ \A i \in 1 .. Len(b) : b[i] \notin Callables
  BY CallsApart, LenProperties, ElementOfSeq DEF Things
<1>2. /\ Len(c) = n + Len(b)
      /\ \A i \in 0 .. n : (IsCall(c, i) <=> IsCall(s, i)) /\ Place(w, c, i) = Place(w, s, i)
      /\ \A i \in 1 .. Len(b) : c[n + i] = b[i]
      /\ \A i \in Nat, j \in Nat : j <= n /\ NoCall(c, i, j) => NoCall(s, i, j)
  BY <1>1, ChainConcat
<1> HIDE DEF n, c
<1>3. ASSUME NEW i \in 0 .. Len(c), IsCall(c, i) PROVE i \in 0 .. n
  <2> SUFFICES ASSUME i > n PROVE FALSE
    BY <1>1, <1>2
  <2>1. i - n \in 1 .. Len(b) /\ n + (i - n) = i /\ i # 0
    BY <1>1, <1>2
  <2> QED BY <1>1, <1>2, <1>3, <2>1 DEF IsCall
<1>4. Chained(w, c)
  <2> SUFFICES ASSUME NEW i \in 0 .. Len(c), NEW j \in 1 .. Len(c), i < j,
                      IsCall(c, i), IsCall(c, j), NoCall(c, i + 1, j - 1)
               PROVE  Follows(Place(w, c, i), Place(w, c, j))
    BY DEF Chained
  <2>1. i \in 0 .. n /\ j \in 1 .. n /\ j \in 0 .. n
    <3>1. j \in 0 .. Len(c) /\ j # 0
      BY <1>1, <1>2
    <3> QED BY <1>1, <1>3, <3>1
  <2>2. i + 1 \in Nat /\ j - 1 \in Nat /\ j - 1 <= n
    BY <1>1, <2>1
  <2>3. NoCall(s, i + 1, j - 1) /\ IsCall(s, i) /\ IsCall(s, j)
    BY <1>2, <2>1, <2>2
  <2>4. Follows(Place(w, s, i), Place(w, s, j))
    BY <2>1, <2>3 DEF Chained, n
  <2> QED BY <1>2, <2>1, <2>4
<1>5. Settled(w, c, u)
  <2> SUFFICES ASSUME NEW i \in 0 .. Len(c), IsCall(c, i), NoCall(c, i + 1, Len(c))
               PROVE  EndsIn(Place(w, c, i), u)
    BY DEF Settled
  <2>1. i \in 0 .. n
    BY <1>3
  <2>2. NoCall(c, i + 1, n)
    BY <1>1, <1>2, <2>1 DEF NoCall
  <2>3. NoCall(s, i + 1, n) /\ IsCall(s, i)
    <3>1. i + 1 \in Nat /\ n <= n
      BY <1>1, <2>1
    <3> QED BY <1>1, <1>2, <2>1, <2>2, <3>1
  <2>4. EndsIn(Place(w, s, i), u)
    BY <2>1, <2>3 DEF Settled, n
  <2> QED BY <1>2, <2>1, <2>4
<1> QED BY <1>4, <1>5 DEF c

\* A batch of callbacks goes on where the queue ended.
LEMMA ChainBatch ==
  ASSUME NEW s \in Seq(Things), NEW b \in Seq(Callables), NEW w, Chained(w, s),
         NEW u, Settled(w, s, u), NEW v, Len(b) # 0,
         \A x : EndsIn(x, u) => Follows(x, b[1]),
         \A i \in 1 .. Len(b) - 1 : Follows(b[i], b[i + 1]),
         EndsIn(b[Len(b)], v)
  PROVE  Chained(w, s \o b) /\ Settled(w, s \o b, v)
<1> DEFINE n == Len(s)
           c == s \o b
<1>1. /\ b \in Seq(Things) /\ Len(b) \in Nat /\ Len(b) >= 1 /\ n \in Nat
      /\ \A i \in 1 .. Len(b) : b[i] \in Callables
  BY LenProperties, ElementOfSeq DEF Things
<1>2. /\ Len(c) = n + Len(b)
      /\ \A i \in 0 .. n : (IsCall(c, i) <=> IsCall(s, i)) /\ Place(w, c, i) = Place(w, s, i)
      /\ \A i \in 1 .. Len(b) : c[n + i] = b[i]
      /\ \A i \in Nat, j \in Nat : j <= n /\ NoCall(c, i, j) => NoCall(s, i, j)
  <2>1. b \in Seq(Things)
    BY <1>1
  <2>2. Len(c) = n + Len(b)
    BY <2>1, ConcatProperties
  <2>5. ASSUME NEW i \in 0 .. n
        PROVE  (IsCall(c, i) <=> IsCall(s, i)) /\ Place(w, c, i) = Place(w, s, i)
    <3>1. i # 0 => c[i] = s[i]
      <4>1. \A k \in 1 .. n + Len(b) : c[k] = IF k <= n THEN s[k] ELSE b[k - n]
        BY <2>1, ConcatProperties
      <4> QED BY <1>1, <4>1
    <3> QED BY <3>1 DEF IsCall, Place
  <2>3. \A i \in 1 .. Len(b) : c[n + i] = b[i]
    BY <2>1, ChainConcat
  <2>4. \A i \in Nat, j \in Nat : j <= n /\ NoCall(c, i, j) => NoCall(s, i, j)
    BY <2>1, ChainConcat
  <2> QED BY <2>2, <2>3, <2>4, <2>5
<1> HIDE DEF n, c
<1>3. ASSUME NEW i \in n + 1 .. Len(c)
      PROVE  /\ i - n \in 1 .. Len(b) /\ c[i] = b[i - n] /\ IsCall(c, i)
             /\ Place(w, c, i) = b[i - n]
  <2>1. i - n \in 1 .. Len(b) /\ n + (i - n) = i /\ i # 0
    BY <1>1, <1>2
  <2> QED BY <1>1, <1>2, <2>1 DEF IsCall, Place
<1>4. Chained(w, c)
  <2> SUFFICES ASSUME NEW i \in 0 .. Len(c), NEW j \in 1 .. Len(c), i < j,
                      IsCall(c, i), IsCall(c, j), NoCall(c, i + 1, j - 1)
               PROVE  Follows(Place(w, c, i), Place(w, c, j))
    BY DEF Chained
  <2>1. CASE j <= n
    <3>1. i \in 0 .. n /\ j \in 0 .. n /\ j \in 1 .. n /\ i + 1 \in Nat /\ j - 1 \in Nat /\ j - 1 <= n
      BY <1>1, <2>1
    <3>2. NoCall(s, i + 1, j - 1) /\ IsCall(s, i) /\ IsCall(s, j)
      BY <1>2, <3>1
    <3>3. Follows(Place(w, s, i), Place(w, s, j))
      BY <3>1, <3>2 DEF Chained, n
    <3> QED BY <1>2, <3>1, <3>3
  <2>2. CASE j = n + 1
    <3>1. i \in 0 .. n /\ i + 1 \in Nat /\ j - 1 = n /\ n <= n
      BY <1>1, <2>2
    <3>2. NoCall(s, i + 1, n) /\ IsCall(s, i)
      BY <1>1, <1>2, <3>1
    <3>3. EndsIn(Place(w, s, i), u)
      BY <3>1, <3>2 DEF Settled, n
    <3>4. Place(w, c, j) = b[1]
      <4>1. j \in n + 1 .. Len(c) /\ j - n = 1
        BY <1>1, <1>2, <2>2
      <4> QED BY <1>3, <4>1
    <3>5. Place(w, c, i) = Place(w, s, i)
      BY <1>2, <3>1
    <3> QED BY <3>3, <3>4, <3>5
  <2>3. CASE j > n + 1
    <3>1. j - 1 \in n + 1 .. Len(c) /\ j \in n + 1 .. Len(c)
      BY <1>1, <1>2, <2>3
    <3>2. i = j - 1
      <4> SUFFICES ASSUME i # j - 1 PROVE FALSE
        OBVIOUS
      <4>1. j - 1 \in i + 1 .. j - 1
        BY <1>1, <1>2
      <4> QED BY <1>3, <3>1, <4>1 DEF NoCall
    <3>3. Place(w, c, i) = b[i - n] /\ Place(w, c, j) = b[j - n]
      BY <1>3, <3>1, <3>2
    <3>4. i - n \in 1 .. Len(b) - 1 /\ (i - n) + 1 = j - n
      BY <1>1, <1>2, <2>3, <3>2
    <3>5. Follows(b[i - n], b[(i - n) + 1])
      BY <3>4
    <3> QED BY <3>3, <3>4, <3>5
  <2> QED BY <1>1, <1>2, <2>1, <2>2, <2>3
<1>5. Settled(w, c, v)
  <2> SUFFICES ASSUME NEW i \in 0 .. Len(c), IsCall(c, i), NoCall(c, i + 1, Len(c))
               PROVE  EndsIn(Place(w, c, i), v)
    BY DEF Settled
  <2>1. Len(c) \in n + 1 .. Len(c) /\ Len(c) - n = Len(b)
    BY <1>1, <1>2
  <2>2. i = Len(c)
    <3> SUFFICES ASSUME i # Len(c) PROVE FALSE
      OBVIOUS
    <3>1. Len(c) \in Nat
      BY <1>1, <1>2
    <3>2. Len(c) \in i + 1 .. Len(c)
      BY <3>1
    <3> QED BY <1>3, <2>1, <3>2 DEF NoCall
  <2>3. Place(w, c, i) = b[Len(b)]
    BY <1>3, <2>1, <2>2
  <2> QED BY <2>3
<1> QED BY <1>4, <1>5 DEF c

\* The callbacks of an event are scheduled as a whole.
LEMMA EventBatch ==
  ASSUME NEW e \in {"init", "stop"}, NEW s, Typed(s), notify \in 0 .. MaxSet, NEW t \in Nat,
         ~Scheduled(s, e, t).lost
  PROVE  LET b == Batch(e, Taken(s, e, t))
         IN  /\ b \in Seq(Callables) /\ Len(b) = Entries(e) /\ Entries(e) \in Nat \ {0}
             /\ \A i \in 1 .. Entries(e) : b[i] = <<e, i>>
<1> DEFINE n == Entries(e)
           T == Taken(s, e, t)
<1>1. n \in Nat \ {0} /\ e \in Registries /\ e \notin {"idle", "run"}
  BY EntriesAre, ExperimentNumbers DEF Registries
<1>2. T = 1 .. n
  <2>1. T = {k \in 1 .. n : Due(s, e, t, k)}
    BY NotLost
  <2>2. \A k \in 1 .. n : Due(s, e, t, k)
    BY <1>1 DEF Due
  <2> QED BY <2>1, <2>2
<1>3. T \in SUBSET (1 .. n) /\ Cardinality(T) = n /\ \A i \in 1 .. n : Nth(T, i) = i
  <2>1. n \in Nat /\ 1 \in 1 .. n
    BY <1>1
  <2> HIDE DEF n, T
  <2>2. Cardinality(1 .. n) = n
    BY <2>1, NthAll
  <2>3. \A i \in 1 .. n : Nth(1 .. n, i) = i
    BY <2>1, NthAll
  <2> QED BY <1>2, <2>2, <2>3
<1>4. /\ Batch(e, T) \in Seq(Callables) /\ Len(Batch(e, T)) = Cardinality(T)
      /\ \A i \in 1 .. Cardinality(T) : Batch(e, T)[i] = <<e, Nth(T, i)>>
  BY <1>1, <1>3, BatchIs
<1> QED BY <1>1, <1>3, <1>4

LEMMA OrderEvent ==
  ASSUME NEW e \in {"init", "stop"}, NEW s, Typed(s), notify \in 0 .. MaxSet, NEW t \in Nat,
         ~Scheduled(s, e, t).lost,
         NEW w, Chained(w, s.q), Settled(w, s.q, e = "stop")
  PROVE  LET o == Scheduled(s, e, t)
         IN  Chained(w, o.q) /\ Settled(w, o.q, e = "init")
<1> DEFINE b == Batch(e, Taken(s, e, t))
           n == Entries(e)
<1>1. /\ b \in Seq(Callables) /\ Len(b) = n /\ n \in Nat \ {0}
      /\ \A i \in 1 .. n : b[i] = <<e, i>>
  BY EventBatch
<1>2. Scheduled(s, e, t).q = s.q \o b /\ s.q \in Seq(Things)
  BY DEF Scheduled, Typed
<1>3. (e = "init" /\ n = NInit) \/ (e = "stop" /\ n = NStop)
  BY EntriesAre
<1> HIDE DEF b, n
<1>4. ASSUME NEW x, EndsIn(x, e = "stop")
      PROVE  Follows(x, b[1])
  <2>1. b[1] = <<e, 1>>
    BY <1>1
  <2>2. WholeAt(x) /\ (RunningAt(x) <=> e = "stop")
    BY <1>4 DEF EndsIn
  <2>3. CASE e = "init"
    BY <2>1, <2>2, <2>3 DEF Follows
  <2>4. CASE e = "stop"
    BY <2>1, <2>2, <2>4 DEF Follows
  <2> QED BY <2>3, <2>4
<1>5. ASSUME NEW i \in 1 .. Len(b) - 1
      PROVE  Follows(b[i], b[i + 1])
  <2>1. b[i] = <<e, i>> /\ b[i + 1] = <<e, i + 1>> /\ i < n
    BY <1>1
  <2> QED BY <1>3, <2>1 DEF Follows
<1>6. EndsIn(b[Len(b)], e = "init")
  <2>1. b[Len(b)] = <<e, n>>
    BY <1>1
  <2>2. CASE e = "init"
    BY <1>3, <2>1, <2>2 DEF EndsIn, WholeAt, RunningAt
  <2>3. CASE e = "stop"
    BY <1>3, <2>1, <2>3 DEF EndsIn, WholeAt, RunningAt
  <2> QED BY <2>2, <2>3
<1> DEFINE u == e = "stop"
           v == e = "init"
<1>7. Settled(w, s.q, u) /\ \A x : EndsIn(x, u) => Follows(x, b[1])
  BY <1>4
<1>8. EndsIn(b[Len(b)], v)
  BY <1>6
<1> HIDE DEF u, v
<1>9. Chained(w, s.q \o b) /\ Settled(w, s.q \o b, v)
  BY <1>1, <1>2, <1>5, <1>7, <1>8, ChainBatch
<1> QED BY <1>2, <1>9 DEF v

LEMMA OrderDuring ==
  ASSUME NEW r \in {"idle", "run", "timeout"}, NEW s, Typed(s), notify \in 0 .. MaxSet,
         NEW t \in Nat, NEW w, Chained(w, s.q), NEW u, u = (r # "idle"), Settled(w, s.q, u)
  PROVE  LET o == Scheduled(s, r, t)
         IN  Chained(w, o.q) /\ Settled(w, o.q, u)
<1> DEFINE T == Taken(s, r, t)
           b == Batch(r, T)
<1>1. Scheduled(s, r, t).q = s.q \o b /\ s.q \in Seq(Things)
  BY DEF Scheduled, Typed
<1>2. r \in Registries /\ Entries(r) \in Nat
  BY RegistryEntries DEF Registries
<1>3. T \in SUBSET (1 .. Entries(r)) /\ Cardinality(T) \in Nat
  BY <1>2, TakenFits
<1>4. /\ b \in Seq(Callables) /\ Len(b) = Cardinality(T)
      /\ \A i \in 1 .. Cardinality(T) : b[i] = <<r, Nth(T, i)>> /\ Nth(T, i) \in T
  BY <1>2, <1>3, BatchIs
<1> HIDE DEF b, T
<1>5. ASSUME NEW i \in 1 .. Len(b)
      PROVE  EndsIn(b[i], u) /\ \A x : EndsIn(x, u) => Follows(x, b[i])
  <2>1. PICK k \in 1 .. Entries(r) : b[i] = <<r, k>>
    BY <1>3, <1>4
  <2>2. CASE r = "idle"
    <3>1. b[i] \in {"idle"} \X (1 .. Len(IdleDt))
      BY <2>1, <2>2, EntriesAre
    <3>2. ~u
      BY <2>2
    <3> QED BY <2>1, <2>2, <3>1, <3>2 DEF EndsIn, WholeAt, RunningAt, Follows
  <2>3. CASE r = "run"
    <3>1. b[i] \in {"run"} \X (1 .. Len(RunDt))
      BY <2>1, <2>3, EntriesAre
    <3>2. u
      BY <2>3
    <3> QED BY <2>1, <2>3, <3>1, <3>2 DEF EndsIn, WholeAt, RunningAt, Follows
  <2>4. CASE r = "timeout"
    <3>1. k \in 1 .. 1 + notify
      BY <2>1, <2>4, EntriesAre
    <3>2. k \in 1 .. 1 + MaxSet
      BY <3>1, ExperimentNumbers
    <3>3. b[i] \in {"timeout"} \X (1 .. 1 + MaxSet)
      BY <2>1, <2>4, <3>2
    <3>4. u
      BY <2>4
    <3> QED BY <2>1, <2>4, <3>3, <3>4 DEF EndsIn, WholeAt, RunningAt, Follows
  <2> QED BY <2>2, <2>3, <2>4
<1>6. CASE Len(b) = 0
  <2>1. b = << >>
    BY <1>4, <1>6, EmptySeq
  <2>2. b \in Seq(KernelCalls)
    BY <2>1, EmptySeq
  <2> QED BY <1>1, <2>2, ChainKernel
<1>7. CASE Len(b) # 0
  <2>1. 1 \in 1 .. Len(b) /\ Len(b) \in 1 .. Len(b)
    BY <1>3, <1>4, <1>7
  <2>2. \A i \in 1 .. Len(b) - 1 : Follows(b[i], b[i + 1])
    <3> SUFFICES ASSUME NEW i \in 1 .. Len(b) - 1 PROVE Follows(b[i], b[i + 1])
      OBVIOUS
    <3>1. i \in 1 .. Len(b) /\ i + 1 \in 1 .. Len(b)
      BY <1>3, <1>4
    <3> QED BY <1>5, <3>1
  <2>3. EndsIn(b[Len(b)], u) /\ \A x : EndsIn(x, u) => Follows(x, b[1])
    BY <1>5, <2>1
  <2>4. Chained(w, s.q \o b) /\ Settled(w, s.q \o b, u)
    BY <1>1, <1>4, <1>7, <2>2, <2>3, ChainBatch
  <2> QED BY <1>1, <2>4
<1> QED BY <1>6, <1>7

LEMMA OrderTick ==
  ASSUME TypeOK, OrderInv, Tick
  PROVE  OrderInv'
<1> SUFFICES ASSUME ~lost'
             PROVE  Chained(last, Final.q) /\ Settled(last, Final.q, alive)
  <2>1. q' = Final.q /\ last' = last /\ ((state' = "RUN") <=> alive)
    BY TickIs DEF TypeOK
  <2>2. (state' = "RUN") = alive
    BY <2>1 DEF TypeOK
  <2> QED BY <2>1, <2>2 DEF OrderInv
<1>1. /\ q # << >> /\ Head(q) = TickCall /\ notify \in 0 .. MaxSet /\ StartTime \in Nat
      /\ ~Final.lost /\ alive \in BOOLEAN
  BY TickIs, StartTimeIs DEF TypeOK
<1>2. /\ Typed(Popped) /\ Typed(Begun) /\ Typed(Drawn)
      /\ ~Popped.lost /\ ~Begun.lost /\ ~Drawn.lost
  BY <1>1, TickTyped
<1>3. Chained(last, Popped.q) /\ Settled(last, Popped.q, state = "RUN")
  <2> DEFINE u == state = "RUN"
  <2>1. Chained(last, q) /\ Settled(last, q, u)
    BY <1>2 DEF OrderInv, Popped
  <2>2. Head(q) \notin Callables /\ q \in Seq(Things)
    BY <1>1, CallsApart DEF KernelCalls, TypeOK, Things
  <2> HIDE DEF u
  <2>3. Chained(last, Tail(q)) /\ Settled(last, Tail(q), u)
    BY <1>1, <2>1, <2>2, ChainShift
  <2> QED BY <2>3 DEF Popped, u
<1>4. Chained(last, Begun.q) /\ Settled(last, Begun.q, alive)
  <2>1. CASE Starts
    <3>1. /\ StartTime = 0 /\ Begun.q = Scheduled(Popped, "init", 0).q
          /\ ~Scheduled(Popped, "init", 0).lost
      BY <1>1, <1>2, <2>1, Starting
    <3>2. (state = "RUN") = ("init" = "stop") /\ alive = ("init" = "init")
      BY <1>1, <2>1 DEF Starts
    <3>3. Settled(last, Popped.q, "init" = "stop") /\ 0 \in Nat
      BY <1>3, <3>2
    <3>4. LET o == Scheduled(Popped, "init", 0)
          IN  Chained(last, o.q) /\ Settled(last, o.q, "init" = "init")
      BY <1>1, <1>2, <1>3, <3>1, <3>3, OrderEvent
    <3> QED BY <3>1, <3>2, <3>4
  <2>2. CASE ~Starts /\ Stops
    <3>1. Begun = Scheduled(Popped, "stop", StartTime)
      BY <2>2 DEF Begun, Event
    <3>2. (state = "RUN") = ("stop" = "stop") /\ alive = ("stop" = "init")
      BY <1>1, <2>2 DEF Stops
    <3>3. Settled(last, Popped.q, "stop" = "stop")
      BY <1>3, <3>2
    <3>4. LET o == Scheduled(Popped, "stop", StartTime)
          IN  Chained(last, o.q) /\ Settled(last, o.q, "stop" = "init")
      BY <1>1, <1>2, <1>3, <3>1, <3>3, OrderEvent
    <3> QED BY <3>1, <3>2, <3>4
  <2>3. CASE ~Starts /\ ~Stops
    <3>1. Begun = Popped
      BY <2>3 DEF Begun, Event
    <3>2. (state = "RUN") = alive
      BY <1>1, <2>3 DEF Starts, Stops, TypeOK
    <3> QED BY <1>3, <3>1, <3>2
  <2> QED BY <2>1, <2>2, <2>3
<1>5. Chained(last, Drawn.q) /\ Settled(last, Drawn.q, alive)
  <2>1. CASE alive
    <3>1. Drawn = Scheduled(Begun, "run", StartTime) /\ alive = ("run" # "idle")
      BY <1>1, <2>1 DEF Drawn, During
    <3> QED BY <1>1, <1>2, <1>4, <3>1, OrderDuring
  <2>2. CASE ~alive
    <3>1. Drawn = Scheduled(Begun, "idle", StartTime) /\ alive = ("idle" # "idle")
      BY <1>1, <2>2 DEF Drawn, During
    <3> QED BY <1>1, <1>2, <1>4, <3>1, OrderDuring
  <2> QED BY <2>1, <2>2
<1>6. CASE alive /\ HeartbeatMissed(StartTime)
  <2>1. Final = Scheduled(Drawn, "timeout", StartTime) /\ alive = ("timeout" # "idle")
    BY <1>1, <1>6 DEF Final
  <2> QED BY <1>1, <1>2, <1>5, <2>1, OrderDuring
<1>7. CASE ~(alive /\ HeartbeatMissed(StartTime))
  BY <1>5, <1>7 DEF Final
<1> QED BY <1>6, <1>7

LEMMA OrderInit == Init => OrderInv
<1> SUFFICES ASSUME Init PROVE Chained(last, q) /\ Settled(last, q, state = "RUN")
  BY DEF OrderInv
<1>1. q = << >> /\ Len(q) = 0 /\ last = <<"none", 0>> /\ state = "IDLE"
  BY EmptySeq DEF Init
<1>2. EndsIn(last, state = "RUN")
  BY <1>1 DEF EndsIn, WholeAt, RunningAt
<1>3. Settled(last, q, state = "RUN")
  <2>1. \A i \in 0 .. Len(q) : Place(last, q, i) = last
    BY <1>1 DEF Place
  <2> QED BY <1>2, <2>1 DEF Settled
<1>4. \A j \in 1 .. Len(q) : FALSE
  BY <1>1
<1> QED BY <1>3, <1>4 DEF Chained

LEMMA OrderNext ==
  ASSUME TypeOK, OrderInv, [Next]_vars
  PROVE  OrderInv'
<1> USE DEF heartbeatVars, queueVars, historyVars
<1>1. ASSUME UNCHANGED <<last, q, lost, state>>
      PROVE  OrderInv'
  BY <1>1 DEF OrderInv
<1>2. q \in Seq(Things)
  BY DEF TypeOK, Things
<1> DEFINE u == state = "RUN"
<1>3. OrderInv <=> (~lost => Chained(last, q) /\ Settled(last, q, u))
  BY DEF OrderInv
<1>4. ASSUME UNCHANGED <<lost, state>>, ~lost => Chained(last', q') /\ Settled(last', q', u)
      PROVE  OrderInv'
  BY <1>4 DEF OrderInv
<1> HIDE DEF u
<1>5. CASE Tick
  BY <1>5, OrderTick
<1>6. CASE KernelTick
  <2>1. PICK n \in 0 .. Others + 1 :
          LET b == SubSeq(Tasks, 1, n) IN b \in Seq(KernelCalls) /\ q' = q \o b
    BY <1>6, KernelTickIs
  <2>2. ~lost => Chained(last, q') /\ Settled(last, q', u)
    BY <1>2, <1>3, <2>1, ChainKernel
  <2>3. UNCHANGED <<lost, state, last>>
    BY <1>6 DEF KernelTick
  <2> QED BY <1>4, <2>2, <2>3
<1>7. CASE OtherCall
  <2>1. q # << >> /\ Head(q) \notin Callables /\ q' = Tail(q) /\ UNCHANGED <<lost, state, last>>
    BY <1>7, CallsApart DEF OtherCall
  <2>2. ~lost => Chained(last, Tail(q)) /\ Settled(last, Tail(q), u)
    BY <1>2, <1>3, <2>1, ChainShift
  <2> QED BY <1>4, <2>1, <2>2
<1>8. CASE Callback
  <2>1. /\ q # << >> /\ Head(q) \in Callables /\ q' = Tail(q) /\ UNCHANGED <<lost, state>>
        /\ ~lost => last' = Head(q)
    BY <1>8 DEF Callback
  <2>2. ~lost => Chained(Head(q), Tail(q)) /\ Settled(Head(q), Tail(q), u)
    BY <1>2, <1>3, <2>1, ChainShift
  <2> QED BY <1>4, <2>1, <2>2
<1>9. Tick \/ KernelTick \/ OtherCall \/ Callback \/ UNCHANGED <<last, q, lost, state>>
  BY DEF Next, vars, Idle, AliveFrame, HeartbeatFrame, SetHeartbeatTimeout
<1> QED BY <1>1, <1>5, <1>6, <1>7, <1>8, <1>9

LEMMA OrderInvariant == Spec => [](TypeOK /\ OrderInv)
BY TypeInit, TypeNext, OrderInit, OrderNext, PTL DEF Spec

\* A callback that follows the last one is a step of the order.
LEMMA FollowsIsStep ==
  ASSUME NEW y, last' = y, Follows(last, y)
  PROVE  User!Next
<1> USE DEF Follows, RunningAt, WholeAt, User!Next, User!OnInit, User!OnStop, User!DuringRun,
        User!OnTimeout, User!DuringIdle, User!Running, User!Whole, User!Begins, User!GoesOn
<1>1. CASE ~RunningAt(last) /\ WholeAt(last) /\ y = <<"init", 1>>
  BY <1>1
<1>2. CASE ~RunningAt(last) /\ WholeAt(last) /\ y \in {"idle"} \X (1 .. Len(IdleDt))
  BY <1>2
<1>3. CASE RunningAt(last) /\ WholeAt(last) /\ y = <<"stop", 1>>
  BY <1>3
<1>4. CASE RunningAt(last) /\ WholeAt(last) /\ y \in {"run"} \X (1 .. Len(RunDt))
  BY <1>4
<1>5. CASE RunningAt(last) /\ WholeAt(last) /\ y \in {"timeout"} \X (1 .. 1 + MaxSet)
  BY <1>5
<1>6. CASE last[1] = "init" /\ last[2] < NInit /\ y = <<"init", last[2] + 1>>
  BY <1>6
<1>7. CASE last[1] = "stop" /\ last[2] < NStop /\ y = <<"stop", last[2] + 1>>
  BY <1>7
<1> QED BY <1>1, <1>2, <1>3, <1>4, <1>5, <1>6, <1>7

\* The Experiment implements the order its users rely on: every step calls the
\* next callback of the state diagram or none, however frames, ticks and the
\* kernel's queue interleave (experiment.h:118-177, schedule.h:51-65).
THEOREM ExperimentCallbackOrder == Spec => CallbackOrder
<1>1. Init => User!Init
  BY DEF Init, User!Init
<1>2. TypeOK /\ OrderInv /\ [Next]_vars => [User!Next]_last
  <2> SUFFICES ASSUME TypeOK, OrderInv, [Next]_vars
               PROVE  User!Next \/ last' = last
    OBVIOUS
  <2>1. CASE Callback /\ ~lost
    <3> DEFINE u == state = "RUN"
    <3>1. /\ q # << >> /\ Head(q) \in Callables /\ last' = Head(q) /\ q \in Seq(Things)
          /\ Chained(last, q) /\ Settled(last, q, u)
      BY <2>1 DEF Callback, OrderInv, TypeOK, Things
    <3> HIDE DEF u
    <3>2. Follows(last, Head(q))
      BY <3>1, ChainShift
    <3> QED BY <3>1, <3>2, FollowsIsStep
  <2>2. CASE ~(Callback /\ ~lost)
    BY <2>2 DEF Next, vars, historyVars, Tick, KernelTick, Idle, OtherCall, Callback, AliveFrame,
       HeartbeatFrame, SetHeartbeatTimeout
  <2> QED BY <2>1, <2>2
<1> QED BY <1>1, <1>2, OrderInvariant, PTL DEF Spec, CallbackOrder, User!Spec

-----------------------------------------------------------------------------
(* The times the running callbacks are given in a single thread            *)

In(x, s)   == \E i \in 1 .. Len(s) : s[i] = x
HasInit(s) == \E i \in 1 .. Len(s) : s[i][1] = "init"
HasRun(s)  == \E i \in 1 .. Len(s) : s[i][1] = "run"

\* In a single thread the clock ticks when the queue is empty: a call of the
\* experiment's tick is followed by nothing but other tasks of the kernel.
SingleInv ==
  ~isr => /\ pc = "idle" => q = << >>
          /\ In(TickCall, q) => /\ Len(q) <= Others + 1 /\ q[1] = TickCall
                                /\ \A i \in 2 .. Len(q) : q[i] \in KernelCalls \ {TickCall}

\* No running callback is in the queue twice, or before an INIT callback.
Once(s) == \A i, j \in 1 .. Len(s) : i < j /\ s[i][1] = "run" => s[j][1] # "init" /\ s[j] # s[i]

\* calls of a running callback in the run that was started last
Count(s, k) == IF HasInit(s) THEN 0 ELSE ran[k]

\* Of the multiples of its period, a running callback in the queue was given
\* the one of its next call, and the scheduler expects the one after it.
RunTimed(s, nx, st, k) ==
  LET c == <<"run", k>>
  IN  IF In(c, s) THEN st[c] = Count(s, k) * RunDt[k] /\ nx[c] = Count(s, k) * RunDt[k] + RunDt[k]
                  ELSE nx[c] = Count(s, k) * RunDt[k]

TimesInv ==
  ~isr /\ ~lost => /\ Once(q)
                   /\ state = "IDLE" => ~HasRun(q)
                   /\ state = "RUN" => \A k \in 1 .. Len(RunDt) : RunTimed(q, next, stime, k)

LEMMA MembersConcat ==
  ASSUME NEW S, NEW s \in Seq(S), NEW b \in Seq(S)
  PROVE  /\ \A x : In(x, s \o b) <=> In(x, s) \/ In(x, b)
         /\ HasInit(s \o b) <=> HasInit(s) \/ HasInit(b)
         /\ HasRun(s \o b) <=> HasRun(s) \/ HasRun(b)
<1> DEFINE n == Len(s)
           m == Len(b)
           c == s \o b
<1>1. /\ n \in Nat /\ m \in Nat /\ Len(c) = n + m
      /\ \A i \in 1 .. n + m : c[i] = IF i <= n THEN s[i] ELSE b[i - n]
  BY ConcatProperties
<1> HIDE DEF n, m, c
<1>2. \A i \in 1 .. n : i \in 1 .. Len(c) /\ c[i] = s[i]
  BY <1>1
<1>3. \A i \in 1 .. m : n + i \in 1 .. Len(c) /\ c[n + i] = b[i]
  BY <1>1
<1>4. \A i \in 1 .. Len(c) : \/ i \in 1 .. n /\ c[i] = s[i]
                             \/ i - n \in 1 .. m /\ c[i] = b[i - n]
  BY <1>1
<1>5. ASSUME NEW x PROVE In(x, c) <=> In(x, s) \/ In(x, b)
  BY <1>2, <1>3, <1>4 DEF In, n, m
<1>6. HasInit(c) <=> HasInit(s) \/ HasInit(b)
  <2>1. \A r : HasInit(r) <=> \E x : In(x, r) /\ x[1] = "init"
    BY DEF HasInit, In
  <2> QED BY <1>5, <2>1
<1>7. HasRun(c) <=> HasRun(s) \/ HasRun(b)
  <2>1. \A r : HasRun(r) <=> \E x : In(x, r) /\ x[1] = "run"
    BY DEF HasRun, In
  <2> QED BY <1>5, <2>1
<1> QED BY <1>5, <1>6, <1>7 DEF c

LEMMA MembersTail ==
  ASSUME NEW S, NEW s \in Seq(S), s # << >>
  PROVE  /\ Head(s) = s[1] /\ Len(s) >= 1 /\ Len(s) \in Nat /\ Len(Tail(s)) = Len(s) - 1
         /\ \A i \in 1 .. Len(s) - 1 : Tail(s)[i] = s[i + 1]
         /\ \A x : In(x, s) <=> x = Head(s) \/ In(x, Tail(s))
         /\ HasInit(s) <=> Head(s)[1] = "init" \/ HasInit(Tail(s))
         /\ HasRun(s) <=> Head(s)[1] = "run" \/ HasRun(Tail(s))
<1> DEFINE n == Len(s)
           t == Tail(s)
<1>1. /\ n \in Nat /\ n >= 1 /\ Len(t) = n - 1 /\ Head(s) = s[1]
      /\ \A i \in 1 .. n - 1 : t[i] = s[i + 1]
  BY EmptySeq, LenProperties, HeadTailProperties
<1> HIDE DEF n, t
<1>2. \A i \in 1 .. n - 1 : i + 1 \in 1 .. n /\ t[i] = s[i + 1]
  BY <1>1
<1>3. \A i \in 1 .. n : i = 1 \/ (i - 1 \in 1 .. n - 1 /\ t[i - 1] = s[i])
  BY <1>1
<1>4. 1 \in 1 .. n
  BY <1>1
<1>5. ASSUME NEW x PROVE In(x, s) <=> x = Head(s) \/ In(x, t)
  BY <1>1, <1>2, <1>3, <1>4 DEF In, n
<1>6. HasInit(s) <=> Head(s)[1] = "init" \/ HasInit(t)
  BY <1>1, <1>2, <1>3, <1>4 DEF HasInit, n
<1>7. HasRun(s) <=> Head(s)[1] = "run" \/ HasRun(t)
  BY <1>1, <1>2, <1>3, <1>4 DEF HasRun, n
<1> QED BY <1>1, <1>5, <1>6, <1>7 DEF n, t

LEMMA OnceTail ==
  ASSUME NEW S, NEW s \in Seq(S), s # << >>, Once(s)
  PROVE  /\ Once(Tail(s))
         /\ Head(s)[1] = "run" => ~In(Head(s), Tail(s)) /\ ~HasInit(s)
<1> DEFINE n == Len(s)
           t == Tail(s)
<1>1. /\ n \in Nat /\ n >= 1 /\ Len(t) = n - 1 /\ Head(s) = s[1]
      /\ \A i \in 1 .. n - 1 : t[i] = s[i + 1]
  BY MembersTail
<1>2. \A i, j \in 1 .. n : i < j /\ s[i][1] = "run" => s[j][1] # "init" /\ s[j] # s[i]
  BY DEF Once
<1> HIDE DEF n, t
<1>3. Once(t)
  <2> SUFFICES ASSUME NEW i \in 1 .. n - 1, NEW j \in 1 .. n - 1, i < j, t[i][1] = "run"
               PROVE  t[j][1] # "init" /\ t[j] # t[i]
    BY <1>1 DEF Once
  <2>1. i + 1 \in 1 .. n /\ j + 1 \in 1 .. n /\ i + 1 < j + 1
    BY <1>1
  <2> QED BY <1>1, <1>2, <2>1
<1>4. ASSUME Head(s)[1] = "run" PROVE ~In(Head(s), t) /\ ~HasInit(s)
  <2>1. \A j \in 2 .. n : s[j][1] # "init" /\ s[j] # s[1]
    BY <1>1, <1>2, <1>4
  <2>2. ~In(Head(s), t)
    BY <1>1, <2>1 DEF In
  <2>3. ~HasInit(s)
    BY <1>1, <1>4, <2>1 DEF HasInit, n
  <2> QED BY <2>2, <2>3
<1> QED BY <1>3, <1>4 DEF t

LEMMA OnceConcat ==
  ASSUME NEW S, NEW s \in Seq(S), NEW b \in Seq(S), Once(s), Once(b), ~HasRun(s) \/ ~HasInit(b),
         \A x : x[1] = "run" => ~(In(x, s) /\ In(x, b))
  PROVE  Once(s \o b)
<1> DEFINE n == Len(s)
           m == Len(b)
           c == s \o b
<1>1. /\ n \in Nat /\ m \in Nat /\ Len(c) = n + m
      /\ \A i \in 1 .. n + m : c[i] = IF i <= n THEN s[i] ELSE b[i - n]
  BY ConcatProperties
<1> HIDE DEF n, m, c
<1> SUFFICES ASSUME NEW i \in 1 .. n + m, NEW j \in 1 .. n + m, i < j, c[i][1] = "run"
             PROVE  c[j][1] # "init" /\ c[j] # c[i]
  BY <1>1 DEF Once, c
<1>2. CASE j <= n
  <2>1. i \in 1 .. n /\ j \in 1 .. n /\ c[i] = s[i] /\ c[j] = s[j]
    BY <1>1, <1>2
  <2> QED BY <2>1 DEF Once, n
<1>3. CASE i <= n /\ ~(j <= n)
  <2>1. i \in 1 .. n /\ j - n \in 1 .. m /\ c[i] = s[i] /\ c[j] = b[j - n]
    BY <1>1, <1>3
  <2>2. HasRun(s) /\ In(c[i], s)
    BY <2>1 DEF HasRun, In, n
  <2>3. In(c[j], b) /\ (c[j][1] = "init" => HasInit(b))
    BY <2>1 DEF HasInit, In, m
  <2> QED BY <2>2, <2>3
<1>4. CASE ~(i <= n)
  <2>1. i - n \in 1 .. m /\ j - n \in 1 .. m /\ i - n < j - n /\ c[i] = b[i - n] /\ c[j] = b[j - n]
    BY <1>1, <1>4
  <2> QED BY <2>1 DEF Once, m
<1> QED BY <1>1, <1>2, <1>3, <1>4

\* What a batch adds to the queue.
LEMMA BatchMembers ==
  ASSUME NEW s, Typed(s), notify \in 0 .. MaxSet, NEW r \in Registries, NEW t \in Nat
  PROVE  LET T == Taken(s, r, t)
             b == Batch(r, T)
         IN  /\ Scheduled(s, r, t).q = s.q \o b /\ s.q \in Seq(Things) /\ b \in Seq(Things)
             /\ Once(b) /\ Len(b) <= Entries(r) /\ Len(b) \in Nat
             /\ \A i \in 1 .. Len(b) : b[i] \in Callables /\ b[i][1] = r
             /\ \A k : In(<<r, k>>, b) <=> k \in T
<1> DEFINE T == Taken(s, r, t)
           b == Batch(r, T)
<1>1. Entries(r) \in Nat
  BY RegistryEntries
<1>2. /\ T \in SUBSET (1 .. Entries(r)) /\ T \subseteq Nat /\ IsFiniteSet(T)
      /\ Cardinality(T) \in Nat /\ Cardinality(T) <= Entries(r)
  BY <1>1, TakenFits
<1>3. /\ b \in Seq(Callables) /\ Len(b) = Cardinality(T)
      /\ \A i \in 1 .. Cardinality(T) : b[i] = <<r, Nth(T, i)>> /\ Nth(T, i) \in T
  BY <1>2, BatchIs
<1>4. Scheduled(s, r, t).q = s.q \o b /\ s.q \in Seq(Things)
  BY DEF Scheduled, Typed
<1> HIDE DEF T, b
<1>5. b \in Seq(Things) /\ \A i \in 1 .. Len(b) : b[i] \in Callables
  BY <1>3, ElementOfSeq DEF Things
<1>6. \A i \in 1 .. Len(b) : b[i][1] = r
  BY <1>3
<1>7. ASSUME NEW k PROVE In(<<r, k>>, b) <=> k \in T
  <2>1. ASSUME In(<<r, k>>, b) PROVE k \in T
    BY <1>3, <2>1 DEF In
  <2>2. ASSUME k \in T PROVE In(<<r, k>>, b)
    <3> DEFINE i == Rank(T, k) + 1
    <3>1. i \in 1 .. Cardinality(T) /\ Nth(T, i) = k
      BY <1>2, <2>2, NthOnto
    <3> HIDE DEF i
    <3>2. i \in 1 .. Len(b) /\ b[i] = <<r, k>>
      BY <1>3, <3>1
    <3> QED BY <3>2 DEF In
  <2> QED BY <2>1, <2>2
<1>8. Once(b)
  <2> SUFFICES ASSUME NEW i \in 1 .. Len(b), NEW j \in 1 .. Len(b), i < j, b[i][1] = "run"
               PROVE  b[j][1] # "init" /\ b[j] # b[i]
    BY DEF Once
  <2>1. Rank(T, Nth(T, i)) = i - 1 /\ Rank(T, Nth(T, j)) = j - 1
    BY <1>2, <1>3, NthIs
  <2>2. Nth(T, i) # Nth(T, j)
    BY <2>1
  <2>3. b[i][2] = Nth(T, i) /\ b[j][2] = Nth(T, j) /\ b[j][1] = r /\ b[i][1] = r
    BY <1>3
  <2> QED BY <2>2, <2>3
<1> QED BY <1>2, <1>3, <1>4, <1>5, <1>6, <1>7, <1>8 DEF T, b

\* Only the kernel's own calls are in the queue.
Bare(s) == \A i \in 1 .. Len(s) : s[i] \in KernelCalls \ {TickCall}

LEMMA BareIs ==
  ASSUME NEW s, Bare(s)
  PROVE  ~HasInit(s) /\ ~HasRun(s) /\ Once(s) /\ ~In(TickCall, s)
         /\ \A c \in Callables : ~In(c, s)
<1>1. \A i \in 1 .. Len(s) : /\ s[i] \in KernelCalls /\ s[i] # TickCall
                             /\ s[i][1] # "init" /\ s[i][1] # "run"
  BY DEF Bare, KernelCalls, TickCall
<1> QED BY <1>1, CallsApart DEF HasInit, HasRun, Once, In

\* The tick of a single thread: what is in the queue besides its own call.
LEMMA TickFindsBare ==
  ASSUME TypeOK, SingleInv, ~isr, q # << >>, Head(q) = TickCall
  PROVE  Bare(Tail(q)) /\ Len(Tail(q)) <= Others /\ Len(Tail(q)) \in Nat
         /\ ~HasInit(q) /\ ~HasRun(q)
<1>1. q \in Seq(Things)
  BY DEF TypeOK, Things
<1>2. /\ Head(q) = q[1] /\ Len(q) >= 1 /\ Len(q) \in Nat /\ Len(Tail(q)) = Len(q) - 1
      /\ \A i \in 1 .. Len(q) - 1 : Tail(q)[i] = q[i + 1]
      /\ In(TickCall, q)
      /\ HasInit(q) <=> Head(q)[1] = "init" \/ HasInit(Tail(q))
      /\ HasRun(q) <=> Head(q)[1] = "run" \/ HasRun(Tail(q))
  BY <1>1, MembersTail
<1>3. Len(q) <= Others + 1 /\ \A i \in 2 .. Len(q) : q[i] \in KernelCalls \ {TickCall}
  BY <1>2 DEF SingleInv
<1>4. Bare(Tail(q))
  <2>1. \A i \in 1 .. Len(q) - 1 : i + 1 \in 2 .. Len(q)
    BY <1>2
  <2> QED BY <1>2, <1>3, <2>1 DEF Bare
<1>5. TickCall[1] # "init" /\ TickCall[1] # "run"
  BY DEF TickCall
<1> QED BY <1>2, <1>3, <1>4, <1>5, BareIs, ExperimentNumbers

\* The experiment does not schedule its own tick.
LEMMA NoTickScheduled ==
  ASSUME NEW s, Typed(s), notify \in 0 .. MaxSet, NEW r \in Registries, NEW t \in Nat,
         ~In(TickCall, s.q)
  PROVE  ~In(TickCall, Scheduled(s, r, t).q)
<1> DEFINE b == Batch(r, Taken(s, r, t))
<1>1. /\ Scheduled(s, r, t).q = s.q \o b /\ s.q \in Seq(Things) /\ b \in Seq(Things)
      /\ \A i \in 1 .. Len(b) : b[i] \in Callables
  BY BatchMembers
<1> HIDE DEF b
<1>2. ~In(TickCall, b)
  BY <1>1, CallsApart DEF In, KernelCalls
<1> QED BY <1>1, <1>2, MembersConcat

LEMMA TickIsOver ==
  ASSUME TypeOK, SingleInv, ~isr, Tick
  PROVE  ~In(TickCall, q')
<1>1. /\ q # << >> /\ Head(q) = TickCall /\ notify \in 0 .. MaxSet /\ StartTime \in Nat
      /\ q' = Final.q
  BY TickIs, StartTimeIs DEF TypeOK
<1>2. Typed(Popped) /\ Typed(Begun) /\ Typed(Drawn)
  BY <1>1, TickTyped
<1>3. ~In(TickCall, Popped.q)
  BY <1>1, TickFindsBare, BareIs DEF Popped
<1>4. ~In(TickCall, Begun.q)
  <2>1. CASE Starts
    BY <1>1, <1>2, <1>3, <2>1, Starting, NoTickScheduled DEF Registries
  <2>2. CASE ~Starts /\ Stops
    <3>1. Begun = Scheduled(Popped, "stop", StartTime)
      BY <2>2 DEF Begun, Event
    <3> QED BY <1>1, <1>2, <1>3, <3>1, NoTickScheduled DEF Registries
  <2>3. CASE ~Starts /\ ~Stops
    BY <1>3, <2>3 DEF Begun, Event
  <2> QED BY <2>1, <2>2, <2>3
<1>5. ~In(TickCall, Drawn.q)
  <2>1. Drawn = Scheduled(Begun, "run", StartTime) \/ Drawn = Scheduled(Begun, "idle", StartTime)
    BY DEF Drawn, During
  <2> QED BY <1>1, <1>2, <1>4, <2>1, NoTickScheduled DEF Registries
<1>6. Final = Scheduled(Drawn, "timeout", StartTime) \/ Final = Drawn
  BY DEF Final
<1> QED BY <1>1, <1>2, <1>5, <1>6, NoTickScheduled DEF Registries

\* The kernel's tick in a single thread fills an empty queue.
LEMMA TickFillsEmpty ==
  ASSUME TypeOK, SingleInv, ~isr, KernelTick
  PROVE  /\ q = << >> /\ Len(q') <= Others + 1 /\ pc' # "idle"
         /\ \A i \in 1 .. Len(q') : q'[i] = Tasks[i]
<1>1. pc = "idle" /\ q = << >> /\ pc' # "idle"
  BY DEF KernelTick, SingleInv
<1>2. PICK n \in 0 .. Others + 1 :
        LET b == SubSeq(Tasks, 1, n)
        IN  /\ b \in Seq(KernelCalls) /\ Len(b) = n /\ q' = q \o b
            /\ \A i \in 1 .. n : b[i] = Tasks[i]
  BY KernelTickIs
<1> DEFINE b == SubSeq(Tasks, 1, n)
<1>3. b \in Seq(KernelCalls) /\ Len(b) = n /\ q' = << >> \o b /\ \A i \in 1 .. n : b[i] = Tasks[i]
  BY <1>1, <1>2
<1> HIDE DEF b
<1>4. q' = b
  BY <1>3, ConcatEmptySeq
<1> QED BY <1>1, <1>3, <1>4

LEMMA FilledIs ==
  ASSUME TypeOK, SingleInv, ~isr, KernelTick
  PROVE  /\ In(TickCall, q') => /\ q'[1] = TickCall
                                /\ \A i \in 2 .. Len(q') : q'[i] \in KernelCalls \ {TickCall}
         /\ ~HasInit(q') /\ ~HasRun(q') /\ Once(q')
<1>1. /\ q = << >> /\ \A i \in 1 .. Len(q') : q'[i] = Tasks[i]
      /\ Len(q') <= Others + 1 /\ Len(q') \in Nat
  <2>1. q' \in Seq(Callables \cup KernelCalls)
    BY TypeNext DEF TypeOK, Next
  <2> QED BY <2>1, TickFillsEmpty, LenProperties
<1>2. Tasks[1] = TickCall /\ \A i \in 2 .. Others + 1 : Tasks[i] = <<"other", i - 1>>
  BY TasksAre
<1>3. \A i \in 2 .. Others + 1 : Tasks[i] \in KernelCalls \ {TickCall}
  <2>1. \A i \in 2 .. Others + 1 : i - 1 \in 1 .. Others
    BY ExperimentNumbers
  <2> QED BY <1>2, <2>1 DEF KernelCalls, TickCall
<1>4. \A i \in 1 .. Len(q') : i = 1 \/ i \in 2 .. Others + 1
  BY <1>1, ExperimentNumbers
<1>5. \A i \in 1 .. Len(q') : q'[i][1] # "init" /\ q'[i][1] # "run"
  BY <1>1, <1>2, <1>4 DEF TickCall
<1>6. ~HasInit(q') /\ ~HasRun(q') /\ Once(q')
  BY <1>5 DEF HasInit, HasRun, Once
<1>7. ASSUME In(TickCall, q')
      PROVE  q'[1] = TickCall /\ \A i \in 2 .. Len(q') : q'[i] \in KernelCalls \ {TickCall}
  <2>1. 1 \in 1 .. Len(q')
    BY <1>1, <1>7 DEF In
  <2>2. \A i \in 2 .. Len(q') : i \in 1 .. Len(q') /\ i \in 2 .. Others + 1
    BY <1>1, ExperimentNumbers
  <2> QED BY <1>1, <1>2, <1>3, <2>1, <2>2
<1> QED BY <1>6, <1>7

LEMMA SingleNext ==
  ASSUME TypeOK, SingleInv, [Next]_vars
  PROVE  SingleInv'
<1> USE DEF heartbeatVars, queueVars, historyVars
<1> SUFFICES ASSUME ~isr, isr' = isr PROVE SingleInv'
  BY DEF SingleInv, Next, vars, Tick, KernelTick, Idle, OtherCall, Callback, AliveFrame,
     HeartbeatFrame, SetHeartbeatTimeout
<1>1. CASE Tick
  <2>1. pc' = "run"
    BY <1>1, TickIs
  <2> QED BY <1>1, <2>1, TickIsOver DEF SingleInv
<1>2. CASE KernelTick
  BY <1>2, TickFillsEmpty, FilledIs DEF SingleInv
<1>3. ASSUME q # << >>, q' = Tail(q), Head(q) # TickCall, pc' = "run"
      PROVE  SingleInv'
  <2>1. q \in Seq(Things)
    BY DEF TypeOK, Things
  <2>2. Head(q) = q[1] /\ (In(TickCall, q) <=> TickCall = Head(q) \/ In(TickCall, Tail(q)))
    BY <1>3, <2>1, MembersTail
  <2>3. ~In(TickCall, Tail(q))
    BY <1>3, <2>2 DEF SingleInv
  <2> QED BY <1>3, <2>3 DEF SingleInv
<1>4. CASE OtherCall
  BY <1>3, <1>4 DEF OtherCall
<1>5. CASE Callback
  <2>1. Head(q) # TickCall
    BY <1>5, CallsApart DEF Callback, KernelCalls
  <2> QED BY <1>3, <1>5, <2>1 DEF Callback
<1>6. CASE Idle
  <2>1. q' = << >> /\ Len(q') = 0
    BY <1>6, EmptySeq DEF Idle
  <2>2. ~In(TickCall, q')
    BY <2>1 DEF In
  <2> QED BY <2>1, <2>2 DEF SingleInv
<1>7. ASSUME UNCHANGED <<q, pc>>
      PROVE  SingleInv'
  BY <1>7 DEF SingleInv, In
<1> QED BY <1>1, <1>2, <1>4, <1>5, <1>6, <1>7 DEF Next, vars, AliveFrame, HeartbeatFrame,
       SetHeartbeatTimeout

\* A registry other than that of the running callbacks leaves these alone.
LEMMA OtherKeepsRuns ==
  ASSUME NEW s, Typed(s), notify \in 0 .. MaxSet, NEW t \in Nat,
         NEW r \in Registries, r # "run", Entries(r) \in Nat, Once(s.q),
         ~HasRun(s.q) \/ r # "init"
  PROVE  LET o == Scheduled(s, r, t)
         IN  /\ Once(o.q) /\ (HasRun(o.q) <=> HasRun(s.q))
             /\ r # "init" => (HasInit(o.q) <=> HasInit(s.q))
             /\ \A k : In(<<"run", k>>, o.q) <=> In(<<"run", k>>, s.q)
<1> DEFINE b == Batch(r, Taken(s, r, t))
           z == s.q
<1>1. /\ Scheduled(s, r, t).q = z \o b /\ z \in Seq(Things) /\ b \in Seq(Things) /\ Once(b)
      /\ \A i \in 1 .. Len(b) : b[i][1] = r
  BY BatchMembers
<1> HIDE DEF b, z
<1>2. ~HasRun(b) /\ (r # "init" => ~HasInit(b)) /\ \A x : x[1] = "run" => ~In(x, b)
  BY <1>1 DEF HasRun, HasInit, In
<1>3. Once(z) /\ (~HasRun(z) \/ ~HasInit(b))
  BY <1>2 DEF z
<1>4. Once(z \o b)
  BY <1>1, <1>2, <1>3, OnceConcat
<1>5. /\ \A x : In(x, z \o b) <=> In(x, z) \/ In(x, b)
      /\ HasInit(z \o b) <=> HasInit(z) \/ HasInit(b)
      /\ HasRun(z \o b) <=> HasRun(z) \/ HasRun(b)
  BY <1>1, MembersConcat
<1>6. \A k : ~In(<<"run", k>>, b)
  BY <1>2
<1> QED BY <1>1, <1>2, <1>4, <1>5, <1>6 DEF z

\* The registries when a tick of a run comes to the running callbacks: none of
\* them is in the queue, and each is next due at the time of its next call.
Ready(s) == /\ Once(s.q) /\ ~HasRun(s.q)
            /\ \A k \in 1 .. Len(RunDt) : s.next[<<"run", k>>] = Count(s.q, k) * RunDt[k]

LEMMA BegunReady ==
  ASSUME TypeOK, SingleInv, TimesInv, ~isr, Tick, alive, ~Begun.lost
  PROVE  Ready(Begun)
<1>1. /\ q # << >> /\ Head(q) = TickCall /\ notify \in 0 .. MaxSet
      /\ q \in Seq(Things) /\ ran \in [1 .. Len(RunDt) -> Nat]
  BY TickIs DEF TypeOK, Things
<1>2. Typed(Popped) /\ Typed(Begun) /\ ~lost
  BY <1>1, TickTyped DEF Popped
<1>3. Popped.q = Tail(q) /\ Bare(Tail(q)) /\ ~HasInit(q) /\ ~HasRun(q)
  BY <1>1, TickFindsBare DEF Popped
<1>4. Once(Popped.q) /\ ~HasRun(Popped.q) /\ ~HasInit(Popped.q)
  BY <1>3, BareIs
<1>5. CASE Starts
  <2> DEFINE o == Scheduled(Popped, "init", 0)
  <2>1. Begun.q = o.q /\ ~o.lost /\ \A c \in Recurring : Begun.next[c] = 0
    BY <1>1, <1>2, <1>5, Starting
  <2>2. Entries("init") \in Nat \ {0}
    BY EntriesAre, ExperimentNumbers
  <2>3. Once(o.q) /\ ~HasRun(o.q)
    BY <1>1, <1>2, <1>4, <2>2, OtherKeepsRuns DEF Registries
  <2>4. HasInit(o.q)
    <3> DEFINE b == Batch("init", Taken(Popped, "init", 0))
    <3>1. b \in Seq(Callables) /\ Len(b) >= 1 /\ b[1] = <<"init", 1>> /\ Len(b) \in Nat
      BY <1>1, <1>2, <2>1, EventBatch
    <3>2. o.q = Popped.q \o b /\ Popped.q \in Seq(Things) /\ b \in Seq(Things)
      BY <1>1, <1>2, BatchMembers DEF Registries
    <3> HIDE DEF b, o
    <3>3. 1 \in 1 .. Len(b) /\ b[1][1] = "init"
      BY <3>1
    <3>4. HasInit(b)
      BY <3>3 DEF HasInit
    <3> QED BY <3>2, <3>4, MembersConcat
  <2>5. ASSUME NEW k \in 1 .. Len(RunDt)
        PROVE  Begun.next[<<"run", k>>] = Count(Begun.q, k) * RunDt[k]
    <3>1. Begun.next[<<"run", k>>] = 0
      BY <2>1 DEF Recurring
    <3>2. Count(Begun.q, k) = 0 /\ RunDt[k] \in Nat
      BY <2>1, <2>4, ExperimentNumbers DEF Count
    <3> QED BY <3>1, <3>2
  <2> QED BY <2>1, <2>3, <2>5 DEF Ready
<1>6. CASE ~Starts
  <2>1. Begun = Popped /\ state = "RUN"
    BY <1>6 DEF Starts, Stops, Begun, Event, TypeOK
  <2>2. ASSUME NEW k \in 1 .. Len(RunDt)
        PROVE  Popped.next[<<"run", k>>] = Count(Popped.q, k) * RunDt[k]
    <3>1. RunTimed(q, next, stime, k)
      BY <1>2, <2>1 DEF TimesInv
    <3>2. ~In(<<"run", k>>, q)
      BY <1>3 DEF HasRun, In
    <3>3. Count(q, k) = ran[k] /\ Count(Popped.q, k) = ran[k]
      BY <1>3, <1>4 DEF Count
    <3> QED BY <3>1, <3>2, <3>3 DEF RunTimed, Popped
  <2> QED BY <1>4, <2>1, <2>2 DEF Ready
<1> QED BY <1>5, <1>6

LEMMA TickTimes ==
  ASSUME TypeOK, RunOnTheGrid, SingleInv, TimesInv, Tick
  PROVE  TimesInv'
<1> SUFFICES ASSUME ~isr, ~Final.lost
             PROVE  /\ Once(Final.q)
                    /\ ~alive => ~HasRun(Final.q)
                    /\ alive => \A k \in 1 .. Len(RunDt) :
                                  RunTimed(Final.q, Final.next, Final.stime, k)
  <2>1. /\ q' = Final.q /\ next' = Final.next /\ stime' = Final.stime /\ lost' = Final.lost
        /\ isr' = isr /\ ran' = ran /\ ((state' = "RUN") <=> alive) /\ ((state' = "IDLE") <=> ~alive)
    BY TickIs DEF TypeOK
  <2> QED BY <2>1 DEF TimesInv, RunTimed, Count
<1>1. /\ q # << >> /\ Head(q) = TickCall /\ notify \in 0 .. MaxSet /\ StartTime \in Nat
      /\ Entries("stop") \in Nat /\ Entries("idle") \in Nat /\ Entries("timeout") \in Nat
  BY TickIs, StartTimeIs, EntriesAre, ExperimentNumbers DEF TypeOK
<1>2. /\ Typed(Popped) /\ Typed(Begun) /\ Typed(Drawn)
      /\ ~Popped.lost /\ ~Begun.lost /\ ~Drawn.lost
  BY <1>1, TickTyped
<1>3. CASE ~alive
  <2>1. Popped.q = Tail(q) /\ Once(Popped.q) /\ ~HasRun(Popped.q)
    BY <1>1, TickFindsBare, BareIs DEF Popped
  <2>2. Once(Begun.q) /\ ~HasRun(Begun.q)
    <3>1. Begun = Popped \/ Begun = Scheduled(Popped, "stop", StartTime)
      BY <1>3 DEF Begun, Event, Starts
    <3> QED BY <1>1, <1>2, <2>1, <3>1, OtherKeepsRuns DEF Registries
  <2>3. Final = Scheduled(Begun, "idle", StartTime)
    BY <1>3 DEF Final, Drawn, During
  <2> QED BY <1>1, <1>2, <1>3, <2>2, <2>3, OtherKeepsRuns DEF Registries
<1>4. CASE alive
  <2>1. Ready(Begun)
    BY <1>2, <1>4, BegunReady
  <2>2. Drawn = Scheduled(Begun, "run", StartTime)
    BY <1>4 DEF Drawn, During
  <2> DEFINE T == Taken(Begun, "run", StartTime)
             b == Batch("run", T)
             z == Begun.q
  <2>3. /\ Drawn.q = z \o b /\ z \in Seq(Things) /\ b \in Seq(Things) /\ Once(b)
        /\ \A i \in 1 .. Len(b) : b[i][1] = "run"
        /\ \A k : In(<<"run", k>>, b) <=> k \in T
    <3>1. "run" \in Registries
      BY DEF Registries
    <3>2. /\ Scheduled(Begun, "run", StartTime).q = z \o b
          /\ z \in Seq(Things) /\ b \in Seq(Things) /\ Once(b)
          /\ \A i \in 1 .. Len(b) : b[i][1] = "run"
      BY <1>1, <1>2, <3>1, BatchMembers
    <3>3. ASSUME NEW k PROVE In(<<"run", k>>, b) <=> k \in T
      BY <1>1, <1>2, <3>1, BatchMembers
    <3> QED BY <2>2, <3>2, <3>3
  <2>4. Once(z) /\ ~HasRun(z)
    BY <2>1 DEF Ready
  <2> HIDE DEF b, z, T
  <2>5. ~HasInit(b)
    BY <2>3 DEF HasInit
  <2>6. \A x : x[1] = "run" => ~In(x, z)
    BY <2>4 DEF HasRun, In
  <2>7. Once(Drawn.q)
    <3>1. Once(z \o b)
      BY <2>3, <2>4, <2>5, <2>6, OnceConcat
    <3> QED BY <2>3, <3>1
  <2>8. /\ HasInit(Drawn.q) <=> HasInit(z)
        /\ \A k : In(<<"run", k>>, Drawn.q) <=> k \in T
    <3>1. /\ \A x : In(x, z \o b) <=> In(x, z) \/ In(x, b)
          /\ HasInit(z \o b) <=> HasInit(z) \/ HasInit(b)
      BY <2>3, MembersConcat
    <3>2. \A k : ~In(<<"run", k>>, z)
      BY <2>6
    <3> QED BY <2>3, <2>5, <3>1, <3>2
  <2>9. ASSUME NEW k \in 1 .. Len(RunDt)
        PROVE  RunTimed(Drawn.q, Drawn.next, Drawn.stime, k)
    <3> DEFINE c == <<"run", k>>
               n == Begun.next[c]
               d == Count(z, k) * RunDt[k]
    <3>1. n = d
      BY <2>1 DEF Ready, z
    <3>2. /\ k \in T <=> ~(StartTime < n)
          /\ Drawn.next[c] = IF StartTime < n THEN n ELSE n + RunDt[k]
          /\ Drawn.stime[c] = IF StartTime < n THEN Begun.stime[c] ELSE StartTime
          /\ c \in Recurring
      BY <1>1, <1>2, <2>2, RunScheduled DEF T
    <3>3. StartTime <= n
      BY <1>1, <1>2, <1>4, BegunOnGrid
    <3>4. n \in Nat
      BY <1>2, <3>2 DEF Typed
    <3>5. Count(Drawn.q, k) = Count(z, k)
      BY <2>8 DEF Count
    <3>6. In(c, Drawn.q) <=> k \in T
      BY <2>8
    <3> HIDE DEF c, n
    <3>7. CASE k \in T
      <4>1. StartTime = n
        BY <1>1, <3>2, <3>3, <3>4, <3>7
      <4>2. Drawn.stime[c] = d /\ Drawn.next[c] = d + RunDt[k]
        BY <1>1, <3>1, <3>2, <3>4, <4>1
      <4> QED BY <3>5, <3>6, <3>7, <4>2 DEF RunTimed, c
    <3>8. CASE k \notin T
      <4>1. Drawn.next[c] = d
        BY <3>1, <3>2, <3>8
      <4> QED BY <3>5, <3>6, <3>8, <4>1 DEF RunTimed, c
    <3> QED BY <3>7, <3>8
  <2>10. CASE alive /\ HeartbeatMissed(StartTime)
    <3>1. Final = Scheduled(Drawn, "timeout", StartTime)
      BY <2>10 DEF Final
    <3>2. /\ Once(Final.q) /\ (HasInit(Final.q) <=> HasInit(Drawn.q))
          /\ \A k : In(<<"run", k>>, Final.q) <=> In(<<"run", k>>, Drawn.q)
      BY <1>1, <1>2, <2>7, <3>1, OtherKeepsRuns DEF Registries
    <3>3. ASSUME NEW k \in 1 .. Len(RunDt)
          PROVE  RunTimed(Final.q, Final.next, Final.stime, k)
      <4>1. /\ Final.next[<<"run", k>>] = Drawn.next[<<"run", k>>]
            /\ Final.stime[<<"run", k>>] = Drawn.stime[<<"run", k>>]
        BY <1>1, <1>2, <3>1, OtherScheduled DEF Registries
      <4> QED BY <2>9, <3>2, <4>1 DEF RunTimed, Count
    <3> QED BY <1>4, <3>2, <3>3
  <2>11. CASE ~(alive /\ HeartbeatMissed(StartTime))
    <3>1. Final = Drawn
      BY <2>11 DEF Final
    <3> QED BY <1>4, <2>7, <2>9, <3>1
  <2> QED BY <2>10, <2>11
<1> QED BY <1>3, <1>4

LEMMA CallbackTimes ==
  ASSUME TypeOK, SingleInv, TimesInv, Callback, ~isr, ~lost
  PROVE  /\ TimesInv'
         /\ \A k \in 1 .. Len(RunDt) :
              Head(q) = <<"run", k>> => stime[<<"run", k>>] = ran[k] * RunDt[k]
<1> DEFINE t == Tail(q)
           x == Head(q)
<1>1. /\ q # << >> /\ q \in Seq(Things) /\ x \in Callables /\ q' = t
      /\ UNCHANGED <<isr, lost, state, next, stime>>
      /\ ran \in [1 .. Len(RunDt) -> Nat]
  BY DEF Callback, TypeOK, Things
<1>2. /\ \A y : In(y, q) <=> y = x \/ In(y, t)
      /\ HasInit(q) <=> x[1] = "init" \/ HasInit(t)
      /\ HasRun(q) <=> x[1] = "run" \/ HasRun(t)
  BY <1>1, MembersTail
<1>3. Once(t) /\ (x[1] = "run" => ~In(x, t) /\ ~HasInit(q))
  BY <1>1, OnceTail DEF TimesInv
<1>4. /\ state = "IDLE" => ~HasRun(q)
      /\ state = "RUN" => \A k \in 1 .. Len(RunDt) : RunTimed(q, next, stime, k)
      /\ state = "IDLE" \/ state = "RUN"
  BY DEF TimesInv, TypeOK
<1>5. /\ x[1] = "run" => ran' = [ran EXCEPT ![x[2]] = ran[x[2]] + 1]
      /\ x[1] = "init" => ran' = [k \in 1 .. Len(RunDt) |-> 0]
      /\ x[1] # "run" /\ x[1] # "init" => ran' = ran
  <2>1. x[1] = "run" => ran' = [ran EXCEPT ![x[2]] = ran[x[2]] + 1]
    BY DEF Callback
  <2>2. x[1] = "init" => ran' = [k \in DOMAIN ran |-> 0]
    BY DEF Callback
  <2>3. x[1] # "run" /\ x[1] # "init" => ran' = ran
    BY DEF Callback
  <2> QED BY <1>1, <2>1, <2>2, <2>3
<1> HIDE DEF t, x
<1>6. ASSUME NEW k \in 1 .. Len(RunDt), x = <<"run", k>>
      PROVE  stime[x] = ran[k] * RunDt[k] /\ next[x] = ran[k] * RunDt[k] + RunDt[k]
  <2>1. x[1] = "run" /\ HasRun(q) /\ state = "RUN" /\ RunTimed(q, next, stime, k)
    BY <1>2, <1>4, <1>6
  <2>2. In(x, q) /\ Count(q, k) = ran[k]
    BY <1>2, <1>3, <2>1 DEF Count
  <2> QED BY <1>6, <2>1, <2>2 DEF RunTimed
<1>7. ASSUME state = "RUN", NEW k \in 1 .. Len(RunDt)
      PROVE  LET c == <<"run", k>>
                 n == IF HasInit(t) THEN 0 ELSE ran'[k]
             IN  IF In(c, t) THEN stime[c] = n * RunDt[k] /\ next[c] = n * RunDt[k] + RunDt[k]
                             ELSE next[c] = n * RunDt[k]
  <2> DEFINE c == <<"run", k>>
             n == IF HasInit(t) THEN 0 ELSE ran'[k]
  <2>1. RunTimed(q, next, stime, k)
    BY <1>4, <1>7
  <2>2. CASE x = c
    <3>1. ~In(c, t) /\ ~HasInit(t) /\ ran'[k] = ran[k] + 1
      <4>1. x[1] = "run" /\ x[2] = k
        BY <2>2
      <4> QED BY <1>1, <1>2, <1>3, <1>5, <2>2, <4>1
    <3>2. next[c] = ran[k] * RunDt[k] + RunDt[k]
      BY <1>6, <2>2
    <3>3. ran[k] \in Nat /\ RunDt[k] \in Nat
      BY <1>1, ExperimentNumbers
    <3> DEFINE a == ran[k]
               d == RunDt[k]
    <3>4. a \in Nat /\ d \in Nat
      BY <3>3
    <3> HIDE DEF a, d
    <3>5. a * d + d = (a + 1) * d
      BY <3>4
    <3>6. next[c] = ran'[k] * RunDt[k]
      BY <3>1, <3>2, <3>5 DEF a, d
    <3> QED BY <3>1, <3>6
  <2>3. CASE x # c
    <3>1. In(c, q) <=> In(c, t)
      BY <1>2, <2>3
    <3>2. n = Count(q, k)
      <4>1. CASE x[1] = "init"
        BY <1>2, <1>5, <4>1 DEF Count
      <4>2. CASE x[1] = "run"
        <5>1. x[2] # k
          BY <1>1, <2>3, <4>2 DEF Callables, Recurring, Evented
        <5>2. ran'[k] = ran[k]
          BY <1>1, <1>5, <4>2, <5>1
        <5> QED BY <1>2, <4>2, <5>2 DEF Count
      <4>3. CASE x[1] # "run" /\ x[1] # "init"
        BY <1>2, <1>5, <4>3 DEF Count
      <4> QED BY <4>1, <4>2, <4>3
    <3>3. IF In(c, t) THEN stime[c] = n * RunDt[k] /\ next[c] = n * RunDt[k] + RunDt[k]
                      ELSE next[c] = n * RunDt[k]
      <4> HIDE DEF n
      <4> QED BY <2>1, <3>1, <3>2 DEF RunTimed
    <3> QED BY <3>3
  <2> QED BY <2>2, <2>3
<1>8. TimesInv'
  <2>1. state = "RUN" => \A k \in 1 .. Len(RunDt) : RunTimed(q, next, stime, k)'
    BY <1>1, <1>7 DEF RunTimed, Count
  <2>2. state = "IDLE" => ~HasRun(t)
    BY <1>2, <1>4
  <2> QED BY <1>1, <1>3, <2>1, <2>2 DEF TimesInv
<1> QED BY <1>6, <1>8 DEF x

\* The front of the queue is a call of the kernel itself.
LEMMA OtherTimes ==
  ASSUME TypeOK, SingleInv, TimesInv, OtherCall, ~isr, ~lost
  PROVE  TimesInv'
<1>1. /\ q # << >> /\ q \in Seq(Things) /\ Head(q) \in KernelCalls /\ q' = Tail(q)
      /\ UNCHANGED <<isr, lost, state, next, stime, ran>>
  BY DEF OtherCall, TypeOK, Things, historyVars
<1>2. Head(q)[1] # "init" /\ Head(q)[1] # "run"
  BY <1>1 DEF KernelCalls, TickCall
<1>3. /\ \A y : In(y, q) <=> y = Head(q) \/ In(y, Tail(q))
      /\ HasInit(q) <=> HasInit(Tail(q))
      /\ HasRun(q) <=> HasRun(Tail(q))
  BY <1>1, <1>2, MembersTail
<1>4. \A k : In(<<"run", k>>, q) <=> In(<<"run", k>>, Tail(q))
  BY <1>2, <1>3
<1>5. Once(Tail(q))
  BY <1>1, OnceTail DEF TimesInv
<1> QED BY <1>1, <1>3, <1>4, <1>5 DEF TimesInv, RunTimed, Count

LEMMA FilledTimes ==
  ASSUME TypeOK, SingleInv, TimesInv, KernelTick, ~isr, ~lost
  PROVE  TimesInv'
<1>1. q = << >> /\ UNCHANGED <<isr, lost, state, next, stime, ran>>
  BY TickFillsEmpty DEF KernelTick, historyVars
<1>2. ~HasInit(q') /\ ~HasRun(q') /\ Once(q')
  BY FilledIs
<1>3. ~HasInit(q) /\ \A k : ~In(<<"run", k>>, q)
  <2>1. Len(q) = 0
    BY <1>1, EmptySeq
  <2> QED BY <2>1 DEF HasInit, In
<1>4. \A k : ~In(<<"run", k>>, q')
  BY <1>2 DEF HasRun, In
<1> QED BY <1>1, <1>2, <1>3, <1>4 DEF TimesInv, RunTimed, Count

LEMMA TimesNext ==
  ASSUME TypeOK, RunOnTheGrid, SingleInv, TimesInv, [Next]_vars
  PROVE  TimesInv'
<1> USE DEF heartbeatVars, queueVars, historyVars
<1>1. CASE Tick
  BY <1>1, TickTimes
<1>2. ASSUME UNCHANGED <<isr, lost, state, next, stime, ran, q>>
      PROVE  TimesInv'
  <2>1. Once(q)' <=> Once(q)
    BY <1>2 DEF Once
  <2>2. HasRun(q)' <=> HasRun(q)
    BY <1>2 DEF HasRun
  <2>3. ASSUME NEW k PROVE RunTimed(q, next, stime, k)' <=> RunTimed(q, next, stime, k)
    BY <1>2 DEF RunTimed, Count, HasInit, In
  <2> QED BY <1>2, <2>1, <2>2, <2>3 DEF TimesInv
<1>3. KernelTick \/ OtherCall \/ Callback => isr' = isr /\ lost' = lost
  BY DEF KernelTick, OtherCall, Callback
<1>4. CASE KernelTick
  BY <1>3, <1>4, FilledTimes DEF TimesInv
<1>5. CASE OtherCall
  BY <1>3, <1>5, OtherTimes DEF TimesInv
<1>6. CASE Callback
  BY <1>3, <1>6, CallbackTimes DEF TimesInv
<1>7. CASE Idle
  <2>1. q' = q
    BY <1>7 DEF Idle
  <2> QED BY <1>2, <1>7, <2>1 DEF Idle
<1> QED BY <1>1, <1>2, <1>4, <1>5, <1>6, <1>7 DEF Next, vars, AliveFrame, HeartbeatFrame,
       SetHeartbeatTimeout

LEMMA TimesInit == Init => SingleInv /\ TimesInv
<1> SUFFICES ASSUME Init PROVE SingleInv /\ TimesInv
  OBVIOUS
<1>1. Len(q) = 0 /\ pc = "run" /\ state = "IDLE"
  BY EmptySeq DEF Init
<1>2. ~In(TickCall, q) /\ Once(q) /\ ~HasRun(q)
  BY <1>1 DEF In, Once, HasRun
<1> QED BY <1>1, <1>2 DEF SingleInv, TimesInv

LEMMA TimesInvariant == Spec => [](TypeOK /\ SingleInv /\ TimesInv)
BY TimesInit, TimesNext, SingleNext, ExperimentRunOnTheGrid, ExperimentTypeOK, PTL DEF Spec

(***************************************************************************)
(* In a single thread nothing is lost if the queue has room for what one   *)
(* tick can schedule: the other tasks, and the callbacks of a transition   *)
(* and of the state after it, the heartbeat's included.                    *)
(***************************************************************************)
Fits == /\ Others + NInit + Len(RunDt) + 1 + MaxSet <= QSize
        /\ Others + NStop + Len(IdleDt) <= QSize

\* A registry that fits is scheduled, and takes as many places as it has entries.
LEMMA RoomLeft ==
  ASSUME NEW s, Typed(s), ~s.lost, notify \in 0 .. MaxSet, NEW r \in Registries, NEW t \in Nat,
         Len(s.q) + Entries(r) <= QSize
  PROVE  LET o == Scheduled(s, r, t)
         IN  ~o.lost /\ Len(o.q) <= Len(s.q) + Entries(r) /\ Len(o.q) \in Nat
<1> DEFINE b == Batch(r, Taken(s, r, t))
           z == s.q
<1>1. /\ Scheduled(s, r, t).q = z \o b /\ z \in Seq(Things) /\ b \in Seq(Things)
      /\ Len(b) <= Entries(r) /\ Len(b) \in Nat
  BY BatchMembers
<1>2. Entries(r) \in Nat
  BY RegistryEntries
<1>3. ~Scheduled(s, r, t).lost
  BY <1>2, FitsIsNotLost
<1> HIDE DEF b, z
<1>4. Len(z \o b) = Len(z) + Len(b) /\ Len(z) \in Nat
  BY <1>1, ConcatProperties, LenProperties
<1> QED BY <1>1, <1>2, <1>3, <1>4 DEF z

LEMMA TickFits ==
  ASSUME Fits, TypeOK, SingleInv, ~isr, ~lost, Tick
  PROVE  ~lost'
<1>1. /\ q # << >> /\ Head(q) = TickCall /\ notify \in 0 .. MaxSet /\ StartTime \in Nat
      /\ lost' = Final.lost
  BY TickIs, StartTimeIs DEF TypeOK
<1>2. Typed(Popped) /\ Typed(Begun) /\ Typed(Drawn) /\ Popped.q = Tail(q) /\ ~Popped.lost
  BY <1>1, TickTyped DEF Popped
<1>3. /\ Entries("idle") = Len(IdleDt) /\ Entries("run") = Len(RunDt)
      /\ Entries("init") = NInit /\ Entries("stop") = NStop /\ Entries("timeout") = 1 + notify
  BY EntriesAre
<1> DEFINE p == Len(Popped.q)
           g == Len(Begun.q)
           d == Len(Drawn.q)
           i == Len(IdleDt)
           r == Len(RunDt)
<1>4. p <= Others /\ p \in Nat
  BY <1>1, <1>2, TickFindsBare
<1>5. /\ Others \in Nat /\ NInit \in Nat /\ NStop \in Nat /\ i \in Nat /\ r \in Nat
      /\ MaxSet \in Nat /\ QSize \in Nat /\ notify \in Nat /\ notify <= MaxSet
  BY <1>1, ExperimentNumbers
<1>6. Others + NInit + r + 1 + MaxSet <= QSize /\ Others + NStop + i <= QSize
  BY DEF Fits
<1> HIDE DEF p, g, d, i, r
<1>7. /\ ~Begun.lost /\ g \in Nat
      /\ alive => g <= Others + NInit
      /\ ~alive => g <= Others + NStop
  <2>1. CASE Starts
    <3>1. p + NInit <= QSize
      BY <1>4, <1>5, <1>6
    <3>2. LET o == Scheduled(Popped, "init", 0)
          IN  ~o.lost /\ Len(o.q) <= p + NInit /\ Len(o.q) \in Nat
      BY <1>1, <1>2, <1>3, <3>1, RoomLeft DEF p, Registries
    <3>3. Begun.q = Scheduled(Popped, "init", 0).q /\ Begun.lost = Scheduled(Popped, "init", 0).lost
      BY <1>1, <2>1, Starting
    <3>4. alive
      BY <2>1 DEF Starts
    <3> QED BY <1>4, <1>5, <3>2, <3>3, <3>4 DEF g
  <2>2. CASE ~Starts /\ Stops
    <3>1. p + NStop <= QSize
      BY <1>4, <1>5, <1>6
    <3>2. LET o == Scheduled(Popped, "stop", StartTime)
          IN  ~o.lost /\ Len(o.q) <= p + NStop /\ Len(o.q) \in Nat
      BY <1>1, <1>2, <1>3, <3>1, RoomLeft DEF p, Registries
    <3>3. Begun = Scheduled(Popped, "stop", StartTime) /\ ~alive
      BY <2>2 DEF Begun, Event, Stops
    <3> QED BY <1>4, <1>5, <3>2, <3>3 DEF g
  <2>3. CASE ~Starts /\ ~Stops
    <3>1. Begun = Popped
      BY <2>3 DEF Begun, Event
    <3>2. g = p
      BY <3>1 DEF g, p
    <3> QED BY <1>2, <1>4, <1>5, <3>1, <3>2
  <2> QED BY <2>1, <2>2, <2>3
<1>8. CASE ~alive
  <2>1. g + i <= QSize
    BY <1>5, <1>6, <1>7, <1>8
  <2>2. Len(Begun.q) + Entries("idle") <= QSize
    BY <1>3, <2>1 DEF g, i
  <2>3. Final = Scheduled(Begun, "idle", StartTime)
    BY <1>8 DEF Final, Drawn, During
  <2> QED BY <1>1, <1>2, <1>7, <2>2, <2>3, RoomLeft DEF Registries
<1>9. CASE alive
  <2>1. g + r <= QSize
    BY <1>5, <1>6, <1>7, <1>9
  <2>2. Drawn = Scheduled(Begun, "run", StartTime)
    BY <1>9 DEF Drawn, During
  <2>3. Len(Begun.q) + Entries("run") <= QSize
    BY <1>3, <2>1 DEF g, r
  <2>4. ~Drawn.lost /\ Len(Drawn.q) <= Len(Begun.q) + Entries("run") /\ Len(Drawn.q) \in Nat
    BY <1>1, <1>2, <1>7, <2>2, <2>3, RoomLeft DEF Registries
  <2>5. d <= g + r /\ d \in Nat
    BY <1>3, <2>4 DEF d, g, r
  <2>6. d + (1 + notify) <= QSize
    BY <1>5, <1>6, <1>7, <1>9, <2>5
  <2>7. Len(Drawn.q) + Entries("timeout") <= QSize
    BY <1>3, <2>6 DEF d
  <2>8. ~Scheduled(Drawn, "timeout", StartTime).lost
    BY <1>1, <1>2, <2>4, <2>7, RoomLeft DEF Registries
  <2> QED BY <1>1, <2>4, <2>8 DEF Final
<1> QED BY <1>8, <1>9

NothingLost == ~isr => ~lost

\* In a single thread no callback is ever dropped if the queue has room for what
\* one tick can schedule (experiment.h:122-143, schedule.h:54).
THEOREM ExperimentNothingLost ==
  ASSUME Fits
  PROVE  Spec => []NothingLost
<1>1. Init => NothingLost
  BY DEF Init, NothingLost
<1>2. TypeOK /\ SingleInv /\ NothingLost /\ [Next]_vars => NothingLost'
  <2> SUFFICES ASSUME TypeOK, SingleInv, NothingLost, [Next]_vars
               PROVE  NothingLost'
    OBVIOUS
  <2>1. CASE Tick
    <3>1. isr' = isr
      BY <2>1, TickIs
    <3> QED BY <2>1, <3>1, TickFits DEF NothingLost
  <2>2. ASSUME UNCHANGED <<isr, lost>> PROVE NothingLost'
    BY <2>2 DEF NothingLost
  <2> QED BY <2>1, <2>2 DEF Next, vars, queueVars, KernelTick, Idle, OtherCall, Callback,
           AliveFrame, HeartbeatFrame, SetHeartbeatTimeout
<1> QED BY <1>1, <1>2, TimesInvariant, PTL DEF Spec

\* In a single thread whose queue has room for what one tick can schedule, the
\* n-th call of a running callback is given the time n * dt of its run, however
\* often and when the run is started and stopped (tests/experiment.cpp).
THEOREM ExperimentRunTimes ==
  ASSUME Fits
  PROVE  Spec => RunTimes
<1>1. TypeOK /\ SingleInv /\ TimesInv /\ NothingLost /\ [Next]_vars
        => [\A k \in 1 .. Len(RunDt) :
              Callback /\ ~isr /\ Head(q) = <<"run", k>>
                => stime[<<"run", k>>] = ran[k] * RunDt[k]]_vars
  BY CallbackTimes DEF NothingLost
<1> QED BY <1>1, TimesInvariant, ExperimentNothingLost, PTL DEF Spec, RunTimes

====
