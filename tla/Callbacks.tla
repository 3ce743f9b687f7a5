----------------------------- MODULE Callbacks -----------------------------
(***************************************************************************)
(* What the Experiment promises to the code that registers callbacks with  *)
(* it (core/experiment.h): every run begins with all INIT callbacks in     *)
(* order and ends with all STOP callbacks, the callbacks of the RUN state  *)
(* and of TIMEOUT come between them and those of the IDLE state outside.   *)
(* `last` is the callback called last.                                     *)
(***************************************************************************)
EXTENDS Naturals

CONSTANTS NInit, NStop, NTimeout,  \* callbacks registered on each event
          NIdle, NRun              \* and during each state

VARIABLE last

Running == last[1] \in {"init", "run", "timeout"}

\* the callbacks of an event are called one after the other
Begins(e) == last' = <<e, 1>>
GoesOn(e, n) == last[1] = e /\ last[2] < n /\ last' = <<e, last[2] + 1>>

Whole == /\ last[1] = "init" => last[2] = NInit
         /\ last[1] = "stop" => last[2] = NStop

Init == last = <<"none", 0>>

OnInit == (~Running /\ Whole /\ Begins("init")) \/ GoesOn("init", NInit)
OnStop == (Running /\ Whole /\ Begins("stop")) \/ GoesOn("stop", NStop)

DuringRun == Running /\ Whole /\ \E k \in 1 .. NRun : last' = <<"run", k>>
OnTimeout == Running /\ Whole /\ \E k \in 1 .. NTimeout : last' = <<"timeout", k>>
DuringIdle == ~Running /\ Whole /\ \E k \in 1 .. NIdle : last' = <<"idle", k>>

Next == OnInit \/ OnStop \/ DuringRun \/ OnTimeout \/ DuringIdle

Spec == Init /\ [][Next]_last

=============================================================================
