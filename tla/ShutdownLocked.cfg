SPECIFICATION ProcessSpec
CONSTANTS
    Worker = {w1, w2}
    KeepAlive = 2
    SignalPoints <- WhileLocked
    ReadyFirst = TRUE
    Nested = FALSE
    MaxSignals = 1
    Parts = {"running"}
    Values = {"", "81", "81x", "a"}
    Numbers <- EightyOne
    MaxLines = 2
PROPERTY
    SignalStopsApi
CHECK_DEADLOCK FALSE
