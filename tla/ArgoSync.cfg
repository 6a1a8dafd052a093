CONSTANTS
    Revision = {r1, r2, bad}
    Valid = {r1, r2}
    None = None
    MaxCalls = 2
    MaxMeddling = 2
SPECIFICATION Spec
PROPERTIES
    HealthyIsOwn
    RejectedIsExplicit
    FailureIsOwn
    DriftIsReal
CHECK_DEADLOCK FALSE
