SPECIFICATION Spec
CONSTANTS
    A = A
    B = B
    Client = {c1}
    Inverter = {A}
    MaxReq = 1
    BuildMayFail = FALSE
    Null = Null
    NoEntry = NoEntry
    NoJob = NoJob
    NoSnapshot = NoSnapshot
    Fleets <- SoloFleet
    Rows <- Australian
    Requests <- ModeRequests
INVARIANTS
    RegionIsKept
