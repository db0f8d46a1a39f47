SPECIFICATION Spec
CONSTANTS
    Size = 4
    Chars <- MCChars
    Sources <- MCSources
    Pieces <- MCPieces
    MaxPieces = 3
    Word = 8
    TimerFrequency = 3
    Second = 4
    Delays <- MCDelays
    MaxJump = 2
    MaxElapsed = 20
INVARIANTS StringsSound CrcOfPieces
PROPERTY DelayEndsInTime
