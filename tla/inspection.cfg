SPECIFICATION LifecycleFairSpec
CONSTANTS
    None = None
    Gone = Gone
    Bereft = Bereft
    monitor = monitor
    Monitor = monitor
    hup = hup
    http = http
    ctrlc = ctrlc
    scrape = scrape
    r1 = r1
    r2 = r2
    w1 = w1
    w2 = w2
    w3 = w3
    s1 = s1
    s2 = s2
    c1 = c1
    c2 = c2
    c3 = c3
    Requests = {}
    Uploads = {}
    Reloaders = {hup}
    Killers = {ctrlc}
    Inspectors = {scrape}
    Cancellable = {scrape}
    Tasks <- MCTasks
    Pids = {p1, p2}
    Sockets = {s1, s2}
    Workers = {w1, w2, w3}
    SocketOf <- MCSocketOf
    Slots <- MCSlots1
    PathOf <- MCPathOf
    Configs = {c1, c3}
    Initial = c1
    WorkerCount <- MCWorkerCount
    MaxReloads = 1
    Passes = {1, 2}
    MaxRequests = 1
    Levels = {1}
    Threshold = 1
    SpawnMayFail = FALSE
PROPERTIES
    InspectionIsStable
    ShutdownEnds
CHECK_DEADLOCK FALSE
