SPECIFICATION Spec
CONSTANTS
    skill = skill
    settingsFile = settingsFile
    generationDir = generationDir
    generationFile = generationFile
    currentFile = currentFile
    marker = marker
    Artifacts = {skill}
    StateDirs = {}
    StateFiles = {}
    Settings = {settingsFile}
    Managed = {}
    Current = {}
    Parents <- MCParents
    MaxActions = 3
    MaxFaults = 2
    MaxForeign = 1
INVARIANTS
    TypeOK
    RolledBackRestores
    OriginalRecoverable
    ForeignNeverLost
    CommittedIsComplete
    CleanExitIsSettled
PROPERTIES
    FailureIsSticky
    OriginalsOnlyMoveHome
    ImplementsAtomic
    Terminates
CHECK_DEADLOCK FALSE
