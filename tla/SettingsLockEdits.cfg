SPECIFICATION Spec
CONSTANTS
    a = a
    b = b
    c = c
    Writers = {a, b, c}
    Kind <- EditKinds
    Choice <- EditChoices
    Pid <- SharedPids
    Timeout = 1
    InitialDelay = 1
    MaxDelay = 1
    Inodes = {1, 2}
    MaxFaults = 2
    MaxCrashes = 1
    MaxIntrusions = 0
INVARIANTS
    TypeOK
    MutualExclusion
    ReadIsFresh
    LeavesNothingBehind
PROPERTY
    ImplementsSerial
CHECK_DEADLOCK FALSE
