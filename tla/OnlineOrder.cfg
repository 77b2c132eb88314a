SPECIFICATION FairSpec
CONSTANTS
    p1 = p1
    p2 = p2
    v1 = v1
    v2 = v2
    Payments = {p1}
    Verifiers = {v1, v2}
    Staff = {s1}
    s1 = s1
    Total = 2
    Deposit = 1
    FullPayment = FALSE
    Moves = {"CONFIRMED", "PROCESSING", "CANCELLED"}
    MaxVersion = 3
    Nothing = Nothing
CHECK_DEADLOCK FALSE
INVARIANTS TypeOK RecordedOnce AcceptedWithMoney TillOnlyAfterAcceptance CustomerSeesSale
PROPERTIES TillNeverGoesBack CapturedIsRecorded ImplementsPrepaid
