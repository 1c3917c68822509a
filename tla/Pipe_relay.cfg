\* One connection: a cap of two bytes and a heavy upload from a third on.
SPECIFICATION FairSpec
CONSTANTS
    Buf = 2
    MaxBytes = 2
    Share = 3
    MaxSent = 3
INVARIANTS CutOnlyHeavyUpload HangsUpOnlyAfterEnd Accounted
PROPERTIES QuietAfterReturn PipeReturns GoneClientNoticed
