CONSTANTS
    front = front
    porch = porch
    alice = alice
    bob = bob
    Camera <- MCCamera
    Credential <- MCCredential
    MaxCameras = 3
    MaxStreams = 2
SPECIFICATION FairSpec
INVARIANTS
    PendingExact
    ViewSafe
    OwnStreams
    ConfirmedAnswered
PROPERTIES
    SettledStays
    ProbingEnds
