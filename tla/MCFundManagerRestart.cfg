SPECIFICATION FairSpec
CONSTANTS
    r1 = r1
    r2 = r2
    l1 = l1
    d1 = d1
    d2 = d2
    w1 = w1
    w2 = w2
    Reservations = {r1, r2}
    Releases = {l1}
    Withdrawals = {}
    Amt <- MCAmt
    Wallet <- MCWallet
    ReservationOf <- MCReservationOf
    Escrow = 1
    MaxSaveErrors = 1
    MaxWaitErrors = 1
    MaxStarts = 1
INVARIANTS
    MsgHasWaiter
    
PROPERTY Answered
CHECK_DEADLOCK FALSE
