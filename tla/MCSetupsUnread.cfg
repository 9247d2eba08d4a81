CONSTANTS
    Host = {"ip1", "ip2"}
    Word <- MCWord
    Login <- MCLogin
    Escape <- MCEscape
    Line <- MCLine
    Extra = {"COMPOSE_PROJECT_NAME"}
    MaxCameras = 2
    MaxEdits = 2
SPECIFICATION Spec
PROPERTIES
    ServiceFileKept
