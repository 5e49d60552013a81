SPECIFICATION Spec
CONSTANTS
    cpu = cpu
    mem = mem
    biolat = biolat
    tcpre = tcpre
    Light <- MCLight
    BCC <- MCBCC
    Native <- MCNative
    CategoryOf <- MCCategoryOf
    Rank <- MCRank
    Configs <- MCConfigs
    NoOne = NoOne
INVARIANTS
    TypeOK
    NoObserverEffect
    ResultsExact
    ReportDeterministic
PROPERTIES
    ImplementsCollection
    PromptReturn
    RunReturns
