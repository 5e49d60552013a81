SPECIFICATION Spec
CONSTANTS
    k1 = k1
    k2 = k2
    alice = alice
    bob = bob
    Clients <- MCClients
    Codes <- MCCodes
    BadCode = BadCode
    NoCode = NoCode
    Bodies <- MCBodies
    DeleteLists <- MCDeleteLists
    retryOnCollision = 2
    Retention = 1
    TicksPerSecond = 2
    MaxNow = 3
    MaxBoots = 2
INVARIANTS
    LinkResolves
    StoredOnce
    RefusedNotStored
    TakedownEffective
PROPERTIES
    NoEarlyExpiry
    ExpiredSwept
CHECK_DEADLOCK FALSE
