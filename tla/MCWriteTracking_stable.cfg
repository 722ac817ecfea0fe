SPECIFICATION Spec
CONSTANTS
    A = A
    B = B
    Client = {c1}
    Inverter = {A, B}
    MaxReq = 1
    BuildMayFail = FALSE
    Null = Null
    NoEntry = NoEntry
    NoJob = NoJob
    NoSnapshot = NoSnapshot
    Fleets <- OneFleet
    Rows <- Mixed
    Requests <- StableRequests
INVARIANTS
    ExpectsLastQueued
    TypeOK
PROPERTIES
    CompletedWasReported
    FailedWasNotReported
    OutcomeSpec
