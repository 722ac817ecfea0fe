SPECIFICATION Spec
CONSTANTS
    A = A
    B = B
    Client = {c1}
    Inverter = {A, B}
    Handle = {t1}
    NoRequest = NoRequest
    NoTimer = NoTimer
    SqlMayFail = FALSE
    MayStop = FALSE
    Fleets <- OneFleet
    Requests <- TwoUnitRequests
INVARIANT
    RestoreCancelsReversion
