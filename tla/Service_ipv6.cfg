SPECIFICATION Spec
CONSTANTS
    V4 <- MCV4
    V6 <- MCV6
    Names <- MCNames
    Sensitive <- MCSensitive
    Additional <- MCAdditional
    None = None
    Room = 1
    MaxData <- MCMaxData
    Locals = {l1}
    Peers = {p1}
    MaxDatagrams = 1
INVARIANT LiteralsArrive
CHECK_DEADLOCK FALSE
