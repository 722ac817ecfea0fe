SPECIFICATION FairSpec
CONSTANTS
    c1 = c1
    A = A
    B = B
    Null = Null
    NoView = NoView
    NoJob = NoJob
    Client = {c1}
    Inverter = {A, B}
    PowerRow = {A}
    Failures <- Lapses
    Host <- Hosts
    Configs <- Gates
    ModelCode <- Codes
    Reported <- Rows
    Fleets <- Orders
    Frames <- Writes
INVARIANTS
    TypeOK
    UntouchedUnlessAllowed
PROPERTIES
    WriteStaysInItsModel
    WriteStaysAtItsUnit
    AcknowledgedIsStored
    DeviceSpec
    CapsAreShown
