SPECIFICATION Spec
CONSTANTS
    Cases <- MCCases
    BufSize = 10
    Half = 128
    TextCalls <- MCTextCalls
    Char <- MCChar
    Cap = 14
    Null = Null
    Long = 4
    HalfBlock = 8
    Space = 108
    MaxLen = 42
    Places <- MCPlaces
    Pattern = Pattern
INVARIANTS
    SettingsExact
    NumberExact
    FormatExact
    BufferExact
    TextExact
    MoveExact
CHECK_DEADLOCK FALSE
