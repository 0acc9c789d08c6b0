\* Three commands of two processes, and one edit or one crash.
SPECIFICATION Spec
CONSTANTS
    work = work
    play = play
    skill = skill
    p1 = p1
    p2 = p2
    Profile = {work, play}
    Skill = {skill}
    Version = {"1", "2", "3"}
    Ships <- ShipsValue
    Contributes = {"1"}
    EditedBytes = {"edited"}
    MaxGeneration = 3
    Process = {p1, p2}
    Commands <- Everything
    Histories <- Begin
    MaxCommands = 3
    MaxMishaps = 1
SYMMETRY Symmetric
INVARIANTS
    EveryGenerationRestorable
    RecordsAgree
PROPERTIES
    DocumentsNeverChange
    YourWorkSurvives
    PeersKeepTheirs
CHECK_DEADLOCK FALSE
