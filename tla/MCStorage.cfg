CONSTANTS
    Schemas <- MCSchemas
    Worked <- MCWorked
    Sizes <- MCSizes
    Keys <- MCKeys
    FirstKids <- MCKids
    FirstLeaves <- MCLeaves
    TreeRoot = "root"
    NoNode = "none"
    PageSize = 4096
    PageHeader = 24
    RidSize = 8
    RidAlign = 4
    FixedHeader = 44
    ColumnHeader = 8
    MaxKeyLength = 512
    RmPageSize = 4096
    PagePrefix = 4
    RmPageHdrSize = 8
    BitmapWidth = 8
    MaxRecordSize = 512
    MaxPages = 6
    MaxFaults = 2
    MaxCrashes = 2
    Pages = {p1, p2, p3, p4}
    Root = p1
    Sentinel = s
    None = none
    Capacity = 3
    WorkedSize = 450
    LastPage = 2
    MaxDeletes = 2
    LeafRoom = 2
    MaxFetchFails = 1
    Txns = {1}
    ValueSizes = {0, 5}
    NameSizes = {1, 4}
    BufferSize = 100
    LogMaxRecord = 512
    MaxLogs = 3
SPECIFICATION Spec
CHECK_DEADLOCK FALSE
INVARIANTS
    NewPagesAreFresh
    ClosedTreeOnDisk
    AcceptedSchemaWorks
    ScanVisitsAll
    ScanFindsRecords
    
    LogReadsBack
