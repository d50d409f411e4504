SPECIFICATION Spec
CONSTANTS
    Tables = {t1, t2}
    NoTable = NoTable
    MaxFaults = 1
    MaxCrashes = 0
INVARIANT RollbackKeepsMeta
