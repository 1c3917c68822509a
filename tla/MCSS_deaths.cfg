CONSTANTS
    None = None
    Callers = {c1, c2}
    Sessions = {s1, s2, s3}
    SessionsMayDie = TRUE
    MayClose = TRUE
SPECIFICATION FairSpec
INVARIANTS
    ShareOneSession
PROPERTIES
    RetryGetsAnother
    LiveDroppedOnlyByOthers
    DialReturns
