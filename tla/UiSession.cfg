\* Four calls of the review; three edits and three previews of the form.
SPECIFICATION Spec
CONSTANTS
    danger = danger
    build = build
    early = early
    late = late
    left = left
    right = right
    Request = {"install", "update"}
    Permission = {danger, build, early, late}
    Danger = danger
    MaxVersion = 2
    MaxCalls = 4
    Needs <- NeedsOf
    Blanket <- Mismatch
    Pinned = {"install"}
    Composition = "install"
    Source = {left, right}
    MaxEdits = 3
    MaxPreviews = 3
SYMMETRY SourceSymmetry
INVARIANTS
    AppliesOnlyWhatWasReviewed
    InstallsWhatWasPreviewed
CHECK_DEADLOCK FALSE
