SPECIFICATION FairSpec
CONSTANTS
    A = A
    B = B
    Client = {c1}
    Inverter = {A}
    Handle = {t1, t2}
    NoRequest = NoRequest
    NoTimer = NoTimer
    SqlMayFail = TRUE
    MayStop = FALSE
    Fleets <- SoloFleet
    Requests <- LeaseRequests
PROPERTY
    RevertedWhenSilent
