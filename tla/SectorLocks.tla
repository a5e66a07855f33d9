---------------------------- MODULE SectorLocks ----------------------------
(***************************************************************************)
(* What the sector index promises of its locks: for every sector, a file   *)
(* type is held by one writer or by any number of readers.                 *)
(***************************************************************************)
CONSTANTS Clients, Requests, NoRequest, Conflict(_, _)

VARIABLE held        \* the request each client has been granted

Init == held = [c \in Clients |-> NoRequest]

Acquire(c, q) ==
    /\ held[c] = NoRequest
    /\ \A d \in Clients : held[d] # NoRequest => ~Conflict(q, held[d])
    /\ held' = [held EXCEPT ![c] = q]

Release(c) ==
    /\ held[c] # NoRequest
    /\ held' = [held EXCEPT ![c] = NoRequest]

Next == \E c \in Clients : Release(c) \/ \E q \in Requests : Acquire(c, q)

Spec == Init /\ [][Next]_held
=============================================================================
