SPECIFICATION Spec
CONSTANTS
    price = price
    Packets = {1, 2}
    RecordOf <- OneRecord
    Guarded = {}
    PageLimit = 1
    MaxAttempts = 2
    MaxFaults = 1
    MaxLate = 0
    MaxOperator = 0
INVARIANTS StoreHasLatest
