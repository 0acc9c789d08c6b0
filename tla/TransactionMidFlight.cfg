SPECIFICATION Spec
CONSTANTS
    skill = skill
    settingsFile = settingsFile
    generationDir = generationDir
    generationFile = generationFile
    currentFile = currentFile
    marker = marker
    Artifacts = {skill}
    StateDirs = {}
    StateFiles = {}
    Settings = {settingsFile}
    Managed = {}
    Current = {}
    Parents <- MCParents
    MaxActions = 2
    MaxFaults = 0
    MaxForeign = 0
INVARIANTS
    ManualRecoveryMeansMidFlight
CHECK_DEADLOCK FALSE
