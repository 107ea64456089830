SPECIFICATION ProcessSpec
CONSTANTS
    Worker = {w1, w2}
    KeepAlive = 2
    SignalPoints <- WhileReading
    ReadyFirst = TRUE
    Nested = FALSE
    MaxSignals = 2
    Parts = {"settings", "running"}
    Values = {"", "81", "81x", "a"}
    Numbers <- EightyOne
    MaxLines = 2
INVARIANTS
    ExitsInOrder
    StopIsComplete
    SourceAsConfigured
PROPERTY
    SignalEnds
