SPECIFICATION ServiceSpec
INVARIANTS
    UninstallStops
