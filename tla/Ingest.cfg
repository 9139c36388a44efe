SPECIFICATION FairSpec
CONSTANTS
    r1 = r1
    r2 = r2
    Nobody = Nobody
    Orders <- MCOrders
    Runs <- MCRuns
    Page = 1
    MaxChanges = 2
    MaxBackfills = 2
    MaxAdmin = 1
    MaxFaults = 1
INVARIANTS TypeOK NothingMissed CaughtUp
PROPERTIES ReplayEndsOnNewest ChangesArrive
