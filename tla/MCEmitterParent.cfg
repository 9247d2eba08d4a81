CONSTANTS
    cam1 = cam1
    cam2 = cam2
    Camera <- MCCamera
    HlsTime = 2
    QueueSize = 1
    MaxInflight = 2
    MaxTime = 2
    MaxFiles = 3
    MaxDrops = 0
    MaxCrashes = 0
SPECIFICATION Spec
INVARIANTS
    SnapshotHasSegment
CHECK_DEADLOCK FALSE
