SPECIFICATION Spec
CONSTANTS
    Clients = {c1, c2}
    Conns = {k1}
    c1 = c1
    c2 = c2
    t0 = t0
    t1 = t1
    Texts <- MCTexts
    Markers <- MCMarkers
    MaxColumns = 1
    Buffer = 1
    SeqMod = 4
    MaxCommands <- MCSeveral
    Lenient <- MCLenient
    Readers = {}
    Free = Free
    Resetting = Resetting
    NoText = NoText
CHECK_DEADLOCK FALSE
INVARIANTS
    TablesAgree
    ConnsAreOwned
    InStep
