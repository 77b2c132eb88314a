SPECIFICATION FairSpec
CONSTANTS
    price = price
    Packets = {1, 2}
    RecordOf <- OneRecord
    Guarded = {price}
    PageLimit = 1
    MaxAttempts = 2
    MaxFaults = 2
    MaxLate = 1
    MaxOperator = 1
INVARIANTS TypeOK AppliedOnce StoreHasLatest
PROPERTIES ImplementsPromise QueueDrains RequeuedIsNotLost
