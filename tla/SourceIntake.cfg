SPECIFICATION Spec
CONSTANTS
    Archives <- Sources
    BlockUnits = 2
    MaxChunk = 5
    References = {"directory", "archive", "https", "repository"}
    MaxEdits = 2
    MaxTampering = 1
    MaxRedirects = 1
INVARIANTS
    MaterialIsWhatWasJudged
    ArchiveIsReadRight
    NothingPrivateStays
CHECK_DEADLOCK FALSE
