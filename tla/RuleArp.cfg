SPECIFICATION MCSpec
CONSTANTS
    m1 = m1
    m2 = m2
    m3 = m3
    Mac <- MCMac
    Window = 2
    Threshold = 2
    Never = Never
    MaxNow = 7
INVARIANTS
    TypeOK
    TrackedOnce
    ClaimantsTracked
PROPERTIES
    NoMissedAlert
