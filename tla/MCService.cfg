SPECIFICATION ServiceSpec
INVARIANTS
    ServiceTypeOK
    SuccessHolds
