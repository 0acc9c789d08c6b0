SPECIFICATION Spec
CONSTANTS
    skill = skill
    settingsFile = settingsFile
    generationDir = generationDir
    generationFile = generationFile
    currentFile = currentFile
    marker = marker
    Artifacts = {}
    StateDirs = {generationDir}
    StateFiles = {generationFile}
    Settings = {}
    Managed = {marker}
    Current = {currentFile}
    Parents <- MCParents
    MaxActions = 4
    MaxFaults = 1
    MaxForeign = 1
INVARIANTS
    WriteAhead
CHECK_DEADLOCK FALSE
