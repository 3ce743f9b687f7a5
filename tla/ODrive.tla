------------------------------- MODULE ODrive -------------------------------
(***************************************************************************)
(* dev/ODrive.h: motors behind an ODrive on a serial line.  Commands wait  *)
(* in a queue; a measurement (GET) stays at its front until the drive has  *)
(* answered, so that an answer belongs to the front.  A drive that lets    *)
(* the queue fill up is taken for dead; a dead drive is asked for its      *)
(* voltage until it answers with 23 to 25 V.                               *)
(*                                                                         *)
(* The main loop polls, one statement a step; the serial line takes from   *)
(* `out` and puts into `in` at any time.  The drive answers in order;   *)
(* an answer is named after its command.                                   *)
(*                                                                         *)
(* What it is exposed to is chosen once, in `env`:                         *)
(*   loss    an answer may be lost                                         *)
(*   window  a position may be a number between 23 and 25                  *)
(*   twice   the voltage may be asked for again before it was answered:    *)
(*           poll() is called twice in one millisecond, or the drive needs *)
(*           Period                                                        *)
(***************************************************************************)
EXTENDS Integers, Sequences

CONSTANTS
  QSize,     \* slots of q: 8
  OutSize,   \* messages out has room for
  Period,    \* 500 ms
  Envs,      \* values of env to look at
  MaxReq,    \* bound: requests made
  Horizon    \* bound: no tick once k.time is there

VARIABLES env,
          time,    \* k.time
          drive,   \* the ODrive, its line and the history, see Init
          pc       \* where the main loop is in poll(), "out" of it otherwise

vars == <<env, time, drive, pc>>

Query == [cmd |-> "VBUS", n |-> 0]

Init == /\ env \in Envs
        /\ time = 0
        /\ drive = [alive |-> FALSE,
                    q |-> << >>,          \* requests: [cmd, n, unsent]
                    out |-> << >>,        \* commands the line has not sent
                    node |-> << >>,       \* answers the drive has to give
                    in |-> << >>,         \* answers that have come
                    ok |-> TRUE,          \* the assert of line 109 held
                    made |-> 0,           \* history: requests made
                    matched |-> TRUE]     \* history: answers went to their requests
        /\ pc = "out"

-----------------------------------------------------------------------------
(* The main loop                                                           *)

At(here) == pc = here /\ drive.ok /\ UNCHANGED env
Go(there) == pc' = there /\ UNCHANGED time

Flushed(d) == [d EXCEPT !.alive = FALSE, !.q = << >>]

alive(d) == IF d.alive /\ Len(d.q) = QSize THEN Flushed(d) ELSE d

trypush(d, cmd) ==
  [d EXCEPT !.made = @ + 1,
            !.q = IF Len(@) < QSize THEN Append(@, [cmd |-> cmd, n |-> d.made + 1, unsent |-> TRUE])
                  ELSE @]

\* Motor::setSpeed and Motor::measure
Call(cmd) ==
  /\ At("out") /\ drive.made < MaxReq
  /\ LET d == alive(drive) IN
       \/ ~d.alive /\ drive' = d /\ Go("out")
       \/ d.alive /\ drive' = trypush(d, cmd) /\ Go("poll")

\* the voltage was asked for, and is about to be asked for again
Asked == \E k \in DOMAIN (drive.out \o drive.node \o drive.in) :
           (drive.out \o drive.node \o drive.in)[k] = Query
AsksAgain(t) == Asked /\ ~drive.alive /\ drive.in = << >> /\ t % Period = 0

CallPoll == /\ At("out") /\ (env.twice \/ ~AsksAgain(time))
            /\ drive' = drive
            /\ Go("poll")

\* strtod of the answer is between 23 and 25
LooksLikeVoltage(a) == a = Query \/ env.window

\* mutant: any answer will do
PollDeadAny ==
  /\ At("poll") /\ ~drive.alive
  /\ drive' = CASE drive.in # << >> -> [drive EXCEPT !.in = Tail(@), !.alive = TRUE]
                [] drive.in = << >> /\ time % Period = 0 /\ Len(drive.out) < OutSize ->
                     [drive EXCEPT !.out = Append(@, Query)]
                [] OTHER -> drive
  /\ Go("out")

PollDead ==
  /\ At("poll") /\ ~drive.alive
  /\ drive' = CASE drive.in # << >> ->
                     [drive EXCEPT !.in = Tail(@), !.alive = LooksLikeVoltage(Head(drive.in))]
                [] drive.in = << >> /\ time % Period = 0 /\ Len(drive.out) < OutSize ->
                     [drive EXCEPT !.out = Append(@, Query)]
                [] OTHER -> drive
  /\ Go("out")

\* Motor::callback ignores what it did not ask for
Answered(d) ==
  [d EXCEPT !.in = Tail(@), !.q = Tail(@),
            !.matched = @ /\ (Head(d.q).cmd = "GET" => Head(d.in).n = Head(d.q).n)]

Receive ==
  /\ At("poll") /\ drive.alive /\ drive.in # << >>
  /\ drive' = IF drive.q = << >> THEN [drive EXCEPT !.ok = FALSE] ELSE Answered(drive)
  /\ Go("poll")

Command(r) == [cmd |-> r.cmd, n |-> r.n]

\* the front's buffer moves into the sink, if there is room for it
Sent(d) ==
  IF Len(d.out) < OutSize THEN [d EXCEPT !.out = Append(@, Command(Head(d.q))), !.q[1].unsent = FALSE]
  ELSE d

Settled(d) == IF Head(d.q).cmd # "GET" THEN [d EXCEPT !.q = Tail(@)] ELSE d

Unsent == drive.q # << >> /\ drive.q[1].unsent

\* the loops of poll(): a command other than GET that finds the sink full is
\* lost, for a GET the loop waits
Received == At("poll") /\ drive.alive /\ drive.in = << >> /\ drive' = drive /\ Go("send")

Send == At("send") /\ Unsent /\ drive' = Settled(Sent(drive)) /\ Go("send")

Return == At("send") /\ ~Unsent /\ drive' = drive /\ Go("out")

Main == PollDead \/ Receive \/ Received \/ Send \/ Return

-----------------------------------------------------------------------------
(* The line and the drive                                                  *)

Outside == drive.ok /\ UNCHANGED <<env, time, pc>>

Transmit ==
  /\ drive.out # << >>
  /\ drive' = [drive EXCEPT !.out = Tail(@),
                            !.node = IF Head(drive.out).cmd \in {"GET", "VBUS"}
                                     THEN Append(@, Head(drive.out)) ELSE @]
  /\ Outside

Answer ==
  /\ drive.node # << >>
  /\ drive' = [drive EXCEPT !.node = Tail(@), !.in = Append(@, Head(drive.node))]
  /\ Outside

Lose ==
  /\ env.loss /\ drive.node # << >>
  /\ drive' = [drive EXCEPT !.node = Tail(@)]
  /\ Outside

Tick ==
  /\ drive.ok /\ time < Horizon
  /\ pc = "poll" => env.twice \/ ~AsksAgain(time + 1)
  /\ time' = time + 1
  /\ UNCHANGED <<env, drive, pc>>

Next == \/ Call("VELO") \/ Call("GET") \/ CallPoll \/ Main
        \/ Transmit \/ Answer \/ Lose \/ Tick

\* poll() goes on, and the line sends
Fairness == WF_vars(Main) /\ WF_vars(Transmit)

Spec == Init /\ [][Next]_vars /\ Fairness

-----------------------------------------------------------------------------
(* Properties                                                              *)

TypeOK ==
  /\ env \in Envs /\ time \in 0 .. Horizon /\ pc \in {"out", "poll", "send"}
  /\ Len(drive.q) <= QSize /\ Len(drive.out) <= OutSize /\ drive.made \in 0 .. MaxReq
  /\ \A k \in DOMAIN drive.q : drive.q[k].cmd \in {"VELO", "GET"} /\ drive.q[k].n \in 1 .. MaxReq

\* Nothing comes that was not requested (line 109), and a motor takes only the
\* answer to its own measurement: though answers are lost, and although a drive
\* that was taken for dead may still answer what it was asked before.
Matched == ~env.twice /\ ~env.window => drive.ok /\ drive.matched

\* poll() comes back: a sink that is full while a measurement waits is emptied
\* by the line.
Returns == []<>(pc = "out" \/ ~drive.ok)

=============================================================================
