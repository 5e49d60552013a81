SPECIFICATION Spec
CONSTANTS
    tool = tool
    helper = helper
    daemon = daemon
    Leader = tool
    Children <- MCChildren
    Escaped <- MCEscaped
    Grace = 3
    FlushTicks = 2
    N = 2
    MaxOutput = 3
INVARIANTS
    BufferQuiet
    OutputComplete
    FlushKept
PROPERTIES
    RunReturns
    NoGoroutineLeak
