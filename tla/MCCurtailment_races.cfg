SPECIFICATION Spec
CONSTANTS
    A = A
    B = B
    Client = {c1, c2}
    Inverter = {A}
    Handle = {t1, t2, t3}
    NoRequest = NoRequest
    NoTimer = NoTimer
    SqlMayFail = TRUE
    MayStop = TRUE
    Fleets <- SoloFleet
    Requests <- RaceRequests
INVARIANTS
    TypeOK
    PendingIsLive
    OrphansAreLateFires
