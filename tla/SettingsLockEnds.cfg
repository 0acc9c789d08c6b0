SPECIFICATION FairSpec
CONSTANTS
    a = a
    b = b
    c = c
    Writers = {a, b}
    Kind <- MoveKinds
    Choice <- MoveChoices
    Pid <- MovePids
    Timeout = 3
    InitialDelay = 1
    MaxDelay = 2
    Inodes = {1, 2, 3}
    MaxFaults = 1
    MaxCrashes = 1
    MaxIntrusions = 1
PROPERTIES
    EveryCallEnds
    DecidesOnItsOwnFile
CHECK_DEADLOCK FALSE
