SPECIFICATION TicketsSpec
CONSTANTS
    a = a
    b = b
    c = c
    x = x
    p1 = p1
    Ticket = {a, b, c, x}
    EpochOf <- MCEpochOf
    Valid = {a, b, c}
    LastEpoch = 2
    Peer = {p1}
    None = None
    MaxWire = 2
    MaxReplaces = 2
CHECK_DEADLOCK FALSE
INVARIANTS SeenMeansSent
