SPECIFICATION KnownSpec
CONSTANTS
    quiet = quiet
    chatty = chatty
    Device <- TwoDevices
    Kinds <- PacketKinds
    Timeout = 3
    Throttle = 1
    Cap = 5
    DhcpSigs <- SigTable
    ServiceRules <- ServiceTable
    ServerRules <- ServerTable
    DhcpLists <- Lists
    Services <- ServiceSets
    Servers <- ServerSets
    MacKinds <- AnyMac
    Outcomes = {"stored", "refused", "in doubt"}
INVARIANTS
    PresenceKept
    EnrichmentKept
PROPERTIES
    ComesAndGoes
    FirstGuessStays
