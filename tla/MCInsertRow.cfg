SPECIFICATION RowSpec
CONSTANTS
    Sessions = {s1, s2, s3}
    Rids = {r1, r2, r3}
    N = 2
    Unique = {2}
    Keys = {k1, k2}
    NoRow = NoRow
    NoRid = NoRid
    MaxRowFaults = 2
SYMMETRY Symmetry
INVARIANTS
    EntriesPointToRecords
    InsertAtomic
    
