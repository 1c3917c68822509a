SPECIFICATION FairSpec
CONSTANTS
    V4 <- MCV4
    V6 <- MCV6
    Names <- MCNames
    Sensitive <- MCSensitive
    Additional <- MCAdditional
    None = None
    Room = 1
    MaxData <- MCMaxData
    Locals = {l1, l2}
    Peers = {p1, p2}
    MaxDatagrams = 2
INVARIANTS InStep PayloadInOrder SensitiveStaysDirect AddressesPassOn AskedOnlyIfProved AtMostOneAfterEnd RepliesToAsker
PROPERTIES IsGateway DialogueEnds ChainTakenDown ControlAndLoopEnd
CHECK_DEADLOCK FALSE
