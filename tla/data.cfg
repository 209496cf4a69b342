SPECIFICATION DataSpec
CONSTANTS
    Slash = Slash
    Star = Star
    Blank = Blank
    a = a
    A = A
    b = b
    Lower <- MCLower
    MaxText = 3
    MaxPattern = 4
    Marker = marker
    QuerySymbols <- MCSymbols
    MaxQuery = 4
    MaxParam = 2
    MaxParams = 2
    Sizes = {0, 1, 250, 251, 252, 65535, 65536, 16777215}
    Counts = {0, 1, 250, 251, 252, 65535, 65536, 16777215, 16777216, 2147483647}
    MaxRow = 3
    MaxWideRow = 9
    Levels = {0, 6, 10}
    Threshold = 60
    NoLimit = 1000
    None = None
    Garbled = Garbled
    Max = Max
    Machines <- MCMachines
    MaxInstants = 3
    Requests <- MCRequests
    Root <- MCRoot
    Php <- MCPhp
    Static <- MCStatic
    IndexPhp <- MCIndex
    FileSizes = {1, 2}
    Ticks = 2
    MaxChanges = 2
    Inputs <- MCInputs
CHECK_DEADLOCK FALSE
INVARIANTS
    DecodesAsMeant
    DecoderIsSafe
    PatternsAreGlobs
    SubstitutesInPlace
    PacketsReadAsMeant
    FilesAreRight
    PressureIsReal
