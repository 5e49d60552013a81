SPECIFICATION TuningSpec
CONSTANTS
    Levels <- MCLevels
    Bases <- MCBases
    MaxChanges = 2
    Hosts <- MCHosts
    SettingLevels <- MCSettingLevels
    AppBacklog = 511
    MaxEdits = 2
    MaxConntrack = 4
INVARIANTS
    LaterKeepsEarlier
    CriticalHasFix
PROPERTIES
    AdviceSettles
    GuardedNeverLowered
    OptimizationsPersist
