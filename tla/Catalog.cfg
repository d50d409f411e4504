SPECIFICATION Spec
CONSTANTS
    Tables = {t1, t2}
    NoTable = NoTable
    MaxFaults = 2
    MaxCrashes = 2
INVARIANTS
    MetaNamesReadyTables
    HandlesBackCatalog
    RollbackComplete
