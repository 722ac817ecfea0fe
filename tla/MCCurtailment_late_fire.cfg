SPECIFICATION Spec
CONSTANTS
    A = A
    B = B
    Client = {c1}
    Inverter = {A}
    Handle = {t1, t2, t3}
    NoRequest = NoRequest
    NoTimer = NoTimer
    SqlMayFail = FALSE
    MayStop = FALSE
    Fleets <- SoloFleet
    Requests <- VictronRequests
INVARIANT
    SingleTimer
