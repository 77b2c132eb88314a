SPECIFICATION Spec
CONSTANTS
    p1 = p1
    p2 = p2
    v1 = v1
    v2 = v2
    s1 = s1
    Payments = {p1, p2}
    Verifiers = {v1}
    Staff = {s1}
    Total = 2
    Deposit = 1
    FullPayment = TRUE
    Moves = {"CONFIRMED", "CANCELLED"}
    MaxVersion = 3
    Nothing = Nothing
CHECK_DEADLOCK FALSE
PROPERTIES PaidOrderStaysPaid
