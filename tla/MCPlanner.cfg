SPECIFICATION Spec
CONSTANTS
    Schema <- MCSchema
    Indexes <- MCIndexes
    Statements <- MCStatements
    Vals = {0, 1}
    NoTab = "none"
INVARIANTS
    PlanComputesQuery
    NoInternalError
