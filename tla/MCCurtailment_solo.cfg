SPECIFICATION FairSpec
CONSTANTS
    A = A
    B = B
    Client = {c1}
    Inverter = {A, B}
    Handle = {t1, t2}
    NoRequest = NoRequest
    NoTimer = NoTimer
    SqlMayFail = FALSE
    MayStop = FALSE
    Fleets <- OneFleet
    Requests <- SoloRequests
INVARIANTS
    LeaseIsBacked
PROPERTIES
    RevertedWhenSilent
