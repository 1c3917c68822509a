CONSTANTS
    k1 = k1
    k2 = k2
    s1 = s1
    s2 = s2
    None = None
    BasePort = 1
    Keys = {k1, k2}
    Snis = {s1, s2}
    SniOf <- TwoSnis
    Callers = {c1, c2}
    Insts = {i1, i2, i3}
    Procs = {p1, p2}
    Sweeps = {"gc"}
    NaiveMayCrash = TRUE
    MayFail = FALSE
    MaxRestarts = 0
SPECIFICATION Spec
SYMMETRY Symmetry
INVARIANTS
    ServedByOwnSni
    ReadyIsWatched
    SpawnUndisturbed
    MappedReadyIsUnkilled
