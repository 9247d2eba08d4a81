CONSTANTS
    front = front
    porch = porch
    Camera <- MCCamera
    IpOf <- MCIpOf
    MaxFound = 2
    User = {"admin", "guest"}
    Password = {}
    MaxStreams = 1
    Host = {"h1", "h2"}
    Port = {}
    MaxBrokers = 2
SPECIFICATION FairSpec
VIEW Live
INVARIANTS
    TypeOK
    NoAnswerLost
    ScreenSafe
    ConfiguredFaithful
    InstallFaithful
PROPERTIES
    ForwardOnly
    BusyRunsDown
    KeepsContract
    BusyEnds
