SPECIFICATION FairSpec
CONSTANTS
    e1 = e1
    e2 = e2
    e3 = e3
    w1 = w1
    w2 = w2
    Events = {e1, e3}
    Workers = {w1}
    MaxAttempts = 3
    BatchLimit = 1
    Rank <- MCRank
    Foreign <- MCForeign
    Number <- MCNumber
    MaxFaults = 2
    MaxRequeues = 1
    MaxLate = 1
PROPERTIES EventuallySettles FaultsAreSurvived StoreAckIsFinal RetryWindowRespected OnlyFaultsUseUpRetries
