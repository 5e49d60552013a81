SPECIFICATION Spec
CONSTANTS
    first = first
    second = second
    Calls <- MCCalls
    Hosts <- MCHosts
    Requests <- MCRequests
    Flags <- MCFlags
    ArrivalTimes = {0, 12}
    Tier1Max = 5
    Never = 1000
INVARIANTS
    AnsweredInTime
    MeasuresInFull
    ProfileComplete
PROPERTIES
    CallsAnswered
CHECK_DEADLOCK FALSE
