CONSTANTS
    front = front
    porch = porch
    yard = yard
    Camera <- MCCamera
    IpOf <- MCIpOf
    MaxCameras = 3
    User = {"admin"}
    Password = {"one"}
SPECIFICATION Spec
INVARIANTS
    AllGiven
    PromptSafe
PROPERTIES
    EarlierKept
