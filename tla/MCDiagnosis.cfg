SPECIFICATION Spec
CONSTANTS
    Levels <- MCLevels
    Bases <- MCBases
    MaxChanges = 2
INVARIANTS
    FullIsCritical
    EveryAnomalyExplained
PROPERTIES
    AnomaliesPersist
    ScoreFollows
    LossNeverAlarms
    DiffFollowsHost
