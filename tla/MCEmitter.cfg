CONSTANTS
    cam1 = cam1
    cam2 = cam2
    Camera <- MCCamera
    HlsTime = 2
    QueueSize = 1
    MaxInflight = 2
    MaxTime = 2
    MaxFiles = 3
    MaxDrops = 1
    MaxCrashes = 1
SPECIFICATION FairSpec
INVARIANTS
    TypeOK
    Truthful
    NothingDropped
PROPERTIES
    IsFeed
    AllAnnounced
CHECK_DEADLOCK FALSE
