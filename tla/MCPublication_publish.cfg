SPECIFICATION Spec
CONSTANTS
    UID = {1, 2, 3, 5, 9}
    Reserved = {9}
    Nameplates <- Catalogue
    Garbled = Garbled
    Unreadable = Garbled
    PhaseOption = 0
    DisableMPPT = FALSE
    Worlds <- Days
    MaxRefresh = 1
INVARIANTS
    TypeOK
    ChainIsWalkable
    WritablePlacesAreFixed
    FleetIsSumOfUnits
    SleepingMeansNoPower
    AlarmsSurface
    FleetCapCoversUnits
    CurveAgreesWithDroop
    TripsAreUsable
    PhasesAddUp
    WMaxIsSumOfCeilings
    WriteBackNeverTightens
CHECK_DEADLOCK FALSE
