SPECIFICATION Spec
CONSTANTS
    e1 = e1
    e2 = e2
    e3 = e3
    w1 = w1
    w2 = w2
    Events = {e1}
    Workers = {w1, w2}
    MaxAttempts = 3
    BatchLimit = 1
    Rank <- MCRank
    Foreign <- MCForeign
    Number <- MCNumber
    MaxFaults = 3
    MaxRequeues = 1
    MaxLate = 1
INVARIANTS TypeOK ConfirmedIsProjected ProjectedAtMostOnce AttemptsBounded DeadLetterHasCause
PROPERTIES HqAckIsFinal ImplementsPromise
