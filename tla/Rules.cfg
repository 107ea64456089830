SPECIFICATION RulesSpec
CONSTANTS
    Host = {mac}
    Ip = {i1}
    None = None
    Spelling <- OneSpelling
    Upper = "upper"
    Ttl = 2
    MaxRows = 2
    Faults = TRUE
    m1 = m1
    m2 = m2
    Mac <- TwoClaimants
    Never = Never
    Window = 2
    Threshold = 2
    Debounce = 1
    MaxNow = 3
SYMMETRY Symmetry
INVARIANTS
    AlertIsRecent
    AnnouncersAlerted
PROPERTIES
    SeasonedRowMatches
    TakeoverAlerted
