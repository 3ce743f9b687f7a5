------------------------------ MODULE MCKernel ------------------------------
(***************************************************************************)
(* Instances of Kernel: the periods of the registered tasks.               *)
(***************************************************************************)
EXTENDS Kernel

Periods12  == <<1, 2>>
Periods123 == <<1, 2, 3>>
Period1    == <<1>>
Period2    == <<2>>
=============================================================================
