CONSTANTS
    Container = {"chopper", "nginx"}
    Interval = 8
    WatchdogSec = 12
    RestartSec = 2
    StopSec = 12
    MaxLayers = 2
    MaxLayer = 12
    MaxCommand = 1
    MaxFaults = 3
SPECIFICATION FairSpec
INVARIANTS
    TypeOK
    Punctual
    StopLeavesNothing
PROPERTIES
    StaysCalm
    Recovers
    Calms
