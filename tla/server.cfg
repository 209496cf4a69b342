SPECIFICATION HistorySpec
CONSTANTS
    None = None
    Gone = Gone
    Bereft = Bereft
    monitor = monitor
    Monitor = monitor
    w1 = w1
    w2 = w2
    r1 = r1
    r2 = r2
    Pids = {p1, p2}
    Sockets = {w1, w2}
    Workers = {w1, w2}
    Requests = {r1, r2}
    Uploads = {}
    Tasks <- MCTasks2
    SocketOf <- MCSocketOf
    Slots <- MCSlots2
    MaxRequests = 1
    Levels = {1}
    Threshold = 1
    SpawnMayFail = TRUE
SYMMETRY PidSymmetry
INVARIANTS
    TypeOK
    BookkeepingIsExact
    ProcessesAreSound
    QuotaOvershoot
    ScanCoversPool
PROPERTIES
    DrainFreezesActive
