\* main(), from the settings to the end.
SPECIFICATION MainSpec
CONSTANTS
    NULL = NULL
    NoKey = NoKey
    NoWord = NoWord
    NoAddr = NoAddr
    GetifaddrsFails = GetifaddrsFails
    Comments <- MCComments
    Longest = 2
    Rank <- MCRank
    Garbage = {0, 7}
    Files <- MCFiles
    Inputs <- MCInputs
    MaxArgs = 2
    MaxLines = 2
CHECK_DEADLOCK FALSE
INVARIANTS SettingsAreTheAskedOnes AddressesAreTheInterfaces DriverInStep TerminalIsRestored
PROPERTIES ColoursAreTheFiles ToldToEndEnds
