\* Two processes; two failing calls, a crash and a deed of an outsider.
SPECIFICATION Spec
CONSTANTS
    r1 = r1
    r2 = r2
    Run <- TwoRuns
    MaxFailures = 2
    MaxCrashes = 1
    MaxOutside = 1
SYMMETRY RunSymmetry
INVARIANTS
    CleanRefusal
PROPERTIES
    RecoveryClearsTheDead
    OnlyCollectedStateGoes
    SuccessMeansReclaimed
CHECK_DEADLOCK FALSE
