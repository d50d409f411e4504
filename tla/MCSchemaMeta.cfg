CONSTANTS
    Bad = Bad
    Missing = Missing
    MapOrder <- MCMapOrder
    ColumnDefs <- MCColumnDefs
    IndexColumns <- MCIndexColumns
    OlderMetas <- MCOlderMetas
    FixedLength = 4
    IntBits = 16
    MaxIndexes = 2
    PageSize = 4096
    PageHeader = 24
    RidSize = 8
    RidAlign = 4
    FixedHeader = 44
    ColumnHeader = 8
    MaxKeyLength = 512
    RmPageSize = 4096
    PagePrefix = 4
    RmPageHdrSize = 8
    BitmapWidth = 8
    MaxRecordSize = 512
SPECIFICATION Spec
INVARIANTS SchemaSurvivesRestart CatalogMatchesFiles
