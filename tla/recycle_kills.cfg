SPECIFICATION Spec
CONSTANTS
    None = None
    Gone = Gone
    Bereft = Bereft
    monitor = monitor
    Monitor = monitor
    w1 = w1
    w2 = w2
    r1 = r1
    r2 = r2
    Pids = {p1, p2}
    Sockets = {w1}
    Workers = {w1}
    Requests = {r1}
    Uploads = {}
    Tasks <- MCTasks1
    SocketOf <- MCSocketOf
    Slots <- MCSlots1
    MaxRequests = 2
    Levels = {1, 2}
    Threshold = 1
    SpawnMayFail = TRUE
PROPERTY RecycleSparesInFlight
