---------------------------- MODULE MCExperiment ----------------------------
(***************************************************************************)
(* Instances of Experiment: the periods of the registered callbacks.       *)
(***************************************************************************)
EXTENDS Experiment

NoPeriods == << >>
Period2   == <<2>>
=============================================================================
