SPECIFICATION Spec
CONSTANTS
    FlagSets <- CommandLines
    BuildFlags <- ApprovalLists
    RiskSets <- Packs
    MaxChanges = 2
INVARIANTS
    NothingWithoutConsent
    ConfirmedIsReplaced
    OutsiderSurvives
    FailureLeavesNoTrace
CHECK_DEADLOCK FALSE
