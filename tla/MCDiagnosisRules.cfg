SPECIFICATION Spec
CONSTANTS
    Levels <- MCLevels
    Bases <- CalmBase
    MaxChanges = 2
INVARIANT
    DocumentedRules
