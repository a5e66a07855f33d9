------------------------------ MODULE MCWdPoSt ------------------------------
(* Instances of WdPoSt, with deadlines of three epochs and at most two      *)
(* outstanding goroutines of a kind. With ProvingStart = 2 heights to 6     *)
(* hold one whole deadline and most of the next; with ProvingStart = 1, two *)
(* whole deadlines.                                                         *)
EXTENDS WdPoSt
=============================================================================
