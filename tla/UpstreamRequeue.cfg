SPECIFICATION Spec
CONSTANTS
    e1 = e1
    e2 = e2
    e3 = e3
    w1 = w1
    w2 = w2
    Events = {e1, e2}
    Workers = {w1}
    MaxAttempts = 2
    BatchLimit = 1
    Rank <- MCRank
    Foreign <- MCForeign
    Number <- MCNumber
    MaxFaults = 0
    MaxRequeues = 1
    MaxLate = 0
PROPERTIES RequeueMovesOrLeaves
