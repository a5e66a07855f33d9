---------------------------- MODULE MCIndexLocks ----------------------------
(* Three clients and two file types of one sector. *)
EXTENDS IndexLocks, TLC

CONSTANTS s1, sealed, cache

Ask(read, write, try) == [sector |-> s1, read |-> read, write |-> write, try |-> try]

MCRequests ==
    {Ask({sealed}, {}, FALSE), Ask({}, {sealed}, FALSE), Ask({sealed}, {}, TRUE),
     Ask({}, {sealed, cache}, TRUE), Ask({cache}, {sealed}, FALSE),
     Ask({sealed}, {cache}, FALSE)}

Symmetry == Permutations(Clients) \cup Permutations(Objects)
=============================================================================
