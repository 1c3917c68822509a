SPECIFICATION FairSpec
CONSTANTS
    Handlers = {c1, c2}
    Addrs = {a1, a2}
    Nobody = Nobody
    MaxPings = 3
INVARIANTS NoStaleEntry RegisterFirst OnePingAfterCancel
PROPERTIES SignalEnds
CHECK_DEADLOCK FALSE
