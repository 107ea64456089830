SPECIFICATION ParsersSpec
CONSTANTS
    Lengths <- MCLengths
    Words <- MCWords
    Totals <- MCTotals
    UdpLengths <- MCUdpLengths
    Ports <- MCPorts
    Bytes <- MCBytes
    StackLimit = 4
    Sizes <- MCSizes
    Counts <- MCCounts
    DataLengths <- MCDataLengths
    TextLengths <- MCTextLengths
    Codes <- MCCodes
    Names <- MCNames
    Underscored <- MCUnderscored
    Texts <- MCTexts
    FirstLines <- MCFirstLines
    Pieces <- MCPieces
    MaxName = 5
    MaxOptions = 6
    MaxAnswers = 2
    MaxPieces = 5
INVARIANTS
    WindowsNested
    CalledOnSubstance
    PaddingStaysOut
    InBounds
    AsTheFormatSays
PROPERTY
    MessagesEnd
CHECK_DEADLOCK FALSE
