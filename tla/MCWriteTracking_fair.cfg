SPECIFICATION FairSpec
CONSTANTS
    A = A
    B = B
    Client = {c1}
    Inverter = {A}
    MaxReq = 1
    BuildMayFail = TRUE
    Null = Null
    NoEntry = NoEntry
    NoJob = NoJob
    NoSnapshot = NoSnapshot
    Fleets <- LeavingFleet
    Rows <- European
    Requests <- FairRequests
PROPERTIES
    InProgressIsKept
    WritesSettle
