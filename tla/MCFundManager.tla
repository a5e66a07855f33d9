--------------------------- MODULE MCFundManager ---------------------------
(* Two wallets, reservations that are released, and withdrawals. *)
EXTENDS FundManager

CONSTANTS r1, r2, l1, d1, d2, w1, w2

MCAmt ==
    [q \in Requests |-> IF q \in {r1, l1, d2} THEN 2 ELSE 1]

MCWallet ==
    [q \in Reservations \cup Withdrawals |-> IF q = r2 THEN w2 ELSE w1]

MCReservationOf == [l \in Releases |-> r1]
=============================================================================
