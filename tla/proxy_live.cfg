SPECIFICATION LiveSpec
CONSTANTS
    Clients = {c1, c2}
    Conns = {k1, k2}
    c1 = c1
    c2 = c2
    t0 = t0
    t1 = t1
    Texts <- MCTexts
    Markers <- MCMarkers
    MaxColumns = 1
    Buffer = 1
    SeqMod = 3
    MaxCommands <- MCOneEach
    Lenient = {}
    Readers = {c1}
    Free = Free
    Resetting = Resetting
    NoText = NoText
PROPERTY Answered
CHECK_DEADLOCK FALSE
