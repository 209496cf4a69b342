SPECIFICATION Spec
CONSTANTS
    None = None
    Requests = {r1, r2}
    RequestsPerMinute = 28
    BurstSize = 2
    TicksPerSecond = 1
    MaxTicks = 9
CONSTRAINT ClockBound
SYMMETRY RequestSymmetry
INVARIANTS
    BucketIsSound
    WindowBound
PROPERTIES
    RetryAfterSuffices
    RemainingIsHonest
