CONSTANTS
    Base = 7
    W16 = 1
    W32 = 2
    W64 = 2
    MaxPayload = 12
    MaxDiagnostic = 3
    Schemas <- MCSchemas
    Texts <- MCTexts
    Listings <- MCListings
    Bits <- MCBits
    Strings <- MCStrings
    CharLen = 5
    DiagnosticSizes = {0, 2, 3}
    ColumnBytes = 1
    RowBytes = 2
    CellBytes = 1
    MaxBuffered = 19
    MaxRawText = 12
    MaxRows = 2
    PayloadBytes = {0, 1, 3, 6}
    MaxBytes = 8
SPECIFICATION MCSpec
INVARIANTS
    DeliveredExactly
    NoProtocolError
    EncodingsCanonical
