SPECIFICATION Spec
CONSTANTS
    first = first
    second = second
    Calls <- MCCalls
    Hosts <- MCHosts
    Requests <- QuickRequests
    Flags <- QuickFlags
    ArrivalTimes = {0, 12}
    Tier1Max = 5
    Never = 1000
INVARIANT
    ProfileTakesItsTime
CHECK_DEADLOCK FALSE
