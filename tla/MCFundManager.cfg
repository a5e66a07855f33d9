SPECIFICATION Spec
CONSTANTS
    r1 = r1
    r2 = r2
    l1 = l1
    d1 = d1
    d2 = d2
    w1 = w1
    w2 = w2
    Reservations = {r1, r2}
    Releases = {l1}
    Withdrawals = {d1, d2}
    Amt <- MCAmt
    Wallet <- MCWallet
    ReservationOf <- MCReservationOf
    Escrow = 1
    MaxSaveErrors = 0
    MaxWaitErrors = 0
    MaxStarts = 0
INVARIANTS
    TypeOK
    OneMessage
    InFlightKeepsReserved
    ReservedCovers
    OwnWallet
    NoStrandedRequest
CHECK_DEADLOCK FALSE
