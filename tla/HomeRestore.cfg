\* An edit, an update that leaves it alone, and a restore.
SPECIFICATION Spec
CONSTANTS
    work = work
    play = play
    skill = skill
    p1 = p1
    p2 = p2
    Profile = {work, play}
    Skill = {skill}
    Version = {"1", "2", "3"}
    Ships <- ShipsValue
    Contributes = {"1"}
    EditedBytes = {"edited"}
    MaxGeneration = 3
    Process = {p1, p2}
    Commands <- UpdateThenRestore
    Histories <- JustInstalled
    MaxCommands = 3
    MaxMishaps = 1
SYMMETRY Symmetric
PROPERTY
    RestoreKeepsWork
CHECK_DEADLOCK FALSE
