SPECIFICATION Spec
CONSTANTS
    None = None
    Shared = Shared
    heavy = heavy
    fast = fast
    other = other
    export = export
    page = page
    tagged = tagged
    r1 = r1
    r2 = r2
    t1 = t1
    t2 = t2
    Names = {heavy, fast, other}
    Kinds = {export, page, tagged}
    Clients = {r1}
    Reloaders = {t1, t2}
    Cancellable = {t1}
    Loads <- MCLoads
    Boot <- MCBoot
    SpawnMayFail = TRUE
    MaxReloads = 3
INVARIANTS
    ManagerIsOwned
    RoutedPoolExists
    PoolsAreIsolated
    ReloadTakesEffect
