\* Chunks and read buffers smaller than a Write, and none a multiple.
SPECIFICATION FairSpec
CONSTANTS
    MaxChunk = 2
    ReadSize = 1
    MaxWrite = 3
    MaxSent <- Bytes
INVARIANTS NothingForged NoncesOnce
PROPERTIES ByteStreams DialReturns
