SPECIFICATION LifecycleSpec
CONSTANTS
    None = None
    Gone = Gone
    Bereft = Bereft
    monitor = monitor
    Monitor = monitor
    hup = hup
    http = http
    ctrlc = ctrlc
    scrape = scrape
    r1 = r1
    r2 = r2
    w1 = w1
    w2 = w2
    w3 = w3
    s1 = s1
    s2 = s2
    c1 = c1
    c2 = c2
    c3 = c3
    Requests = {r1, r2}
    Uploads = {}
    Reloaders = {}
    Killers = {ctrlc}
    Inspectors = {}
    Cancellable = {r1, r2}
    Tasks <- MCTasks
    Pids = {p1, p2}
    Sockets = {s1, s2}
    Workers = {w1}
    SocketOf <- MCSocketOf
    Slots <- MCSlots1
    PathOf <- MCPathOf
    Configs = {c1}
    Initial = c1
    WorkerCount <- MCWorkerCount
    MaxReloads = 1
    Passes = {1}
    MaxRequests = 1
    Levels = {1}
    Threshold = 1
    SpawnMayFail = TRUE
SYMMETRY PidSymmetry
CONSTRAINT DisconnectBound
CHECK_DEADLOCK FALSE
INVARIANTS
    ProcessesAreSound
    MutexesAreOwned
    ActiveCoversInFlight
