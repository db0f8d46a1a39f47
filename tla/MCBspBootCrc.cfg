SPECIFICATION Spec
CONSTANTS
    ChipRevs <- MCChipRevs
    LatteRevs <- MCLatteRevs
    Sizes <- MCSizes
    Versions <- MCVersions
    BoardTypes <- MCBoardTypes
    ConsoleTypes <- MCConsoleTypes
    PllSpeeds <- MCPllSpeeds
CHECK_DEADLOCK FALSE
INVARIANT
    CrcStaysInData
