SPECIFICATION FairSpec
CONSTANTS
    inventory = inventory
    r1 = r1
    r2 = r2
    w1 = w1
    w2 = w2
    Nobody = Nobody
    Services <- MCServices
    Relays <- MCRelays
    Watchdogs <- MCWatchdogs
    Batch = 2
    MaxAttempts = 2
    MaxTroubles = 1
    MaxRenotify = 0
    MaxRequeues = 1
    MaxFaults = 1
INVARIANTS TypeOK SentWasPublished DeliveredOnce OneAlertPerWindow
PROPERTY OutageIsTold
