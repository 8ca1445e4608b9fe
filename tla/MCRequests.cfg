CONSTANTS
    MaxIdBytes = 3
    MaxEncoded = 9
    CatalogLimit = 2
    ItemChanges = 1
    Items <- MCItems
    Requested <- MCRequested
    TicksPerSecond = 3
    MaxRangeSeconds = 2
    MaxEntities = 3
    NotFinite <- MCNotFinite
    Inputs <- MCInputs
    NumEntities = 3
    NumDevices = 2
    NumAreas = 2
    DeviceNames <- MCDeviceNames
    AreaNames <- MCAreaNames
    ListLimits = {2, 3}
    HomeChanges = 2
    MaxEntries = 2
    MaxPoints = 3
    RawAnswers <- MCAnswers
SPECIFICATION AllSpec
INVARIANTS SurfaceIsTrue UrisAreTrue InputsAreTrue ListingsAreTrue DevicesAreTrue
CHECK_DEADLOCK FALSE
