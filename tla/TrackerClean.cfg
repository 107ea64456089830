SPECIFICATION FairSpec
CONSTANTS
    m1 = m1
    m2 = m2
    i1 = i1
    i2 = i2
    Mac <- MCMac
    Ip <- OneIp
    NoMac = NoMac
    NoIp = NoIp
    Absent = Absent
    FlushLimit = 2
    Faults <- NoFaults
INVARIANTS
    FirstContactAnnounced
PROPERTIES
    EventuallyStored
