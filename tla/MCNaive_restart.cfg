CONSTANTS
    k1 = k1
    k2 = k2
    s1 = s1
    s2 = s2
    None = None
    BasePort = 1
    Keys = {k1}
    Snis = {s1}
    SniOf <- OneKey
    Callers = {c1, c2}
    Insts = {i1, i2}
    Procs = {p1, p2}
    Sweeps = {"gc", "status", "stop"}
    NaiveMayCrash = TRUE
    MayFail = TRUE
    MaxRestarts = 1
SPECIFICATION Spec
SYMMETRY Symmetry
CHECK_DEADLOCK FALSE
INVARIANT IInv
