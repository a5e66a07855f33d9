--------------------------- MODULE MCCallTracker ---------------------------
(***************************************************************************)
(* Instances of CallTracker: one sealing task, which is asked for again    *)
(* after every end, beside one simple caller.  Three calls allow a result  *)
(* of an earlier call to arrive during a later one, and three faults allow *)
(* a lost answer, a restart of the worker and one of the manager together. *)
(***************************************************************************)
EXTENDS CallTracker
=============================================================================
