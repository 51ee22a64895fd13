SPECIFICATION ProgressSpec
CONSTANTS
    a = a
    b = b
    c = c
    x = x
    p1 = p1
    Ticket = {a, c, x}
    EpochOf <- MCEpochOf
    Valid = {a, c}
    LastEpoch = 2
    Peer = {p1}
    None = None
    MaxWire = 2
    MaxReplaces = 1
CHECK_DEADLOCK FALSE
INVARIANTS OnlyVerifiedSpread
PROPERTIES ReachesPeers ImportsEnd RemovalsEnd
