\* The smallest relay.
SPECIFICATION FairSpec
CONSTANTS
    MaxChunk = 1
    ReadSize = 1
    MaxWrite = 1
    MaxSent <- OneByte
PROPERTY SilentPeerNoticed
