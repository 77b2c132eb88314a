SPECIFICATION FairSpec
CONSTANTS
    s1 = s1
    s2 = s2
    m1 = m1
    m2 = m2
    b1 = b1
    b2 = b2
    Sales = {s1, s2}
    Moves = {m1, m2}
    Batches = {b1, b2}
    SaleOf <- MCSaleOf
    Takes <- MCTakes
    Order <- MCOrder
    Shelf <- MCShelf
    MaxReceipts = 2
    Parked <- MCParked
    Hurdles <- MCHurdles
CHECK_DEADLOCK FALSE
INVARIANTS TypeOK EffectsOnce PostedHasSource LedgerMatchesStock
PROPERTIES CompletedIsFinal ImplementsBooks NoSaleIsLost
