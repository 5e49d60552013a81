SPECIFICATION Spec
CONSTANTS
    opensnoop = opensnoop
    cachestat = cachestat
    profile = profile
    Tools <- MCTools
    Self = Self
    Other = Other
    NoPid = NoPid
    Prints <- MCPrints
    ParserMax <- MCParserMax
    Unflagged <- MCUnflagged
    MinFit <- MCMinFit
    CfgMax = 2
    MaxTraced <- OneEach
INVARIANT
    NoSelfNoise
