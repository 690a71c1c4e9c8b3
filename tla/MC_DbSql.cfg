CONSTANTS
    v1 = v1
    v2 = v2
    NoVal = NoVal
    NoArg = NoArg
    All = All
    Keys <- MC_Keys
    Vals <- MC_Vals
    ValLen <- MC_ValLen
    Inserts <- MC_Inserts
    WhereConds <- MC_WhereConds
    RawStmts <- MC_RawStmts
    MaxRows = 5
    MaxLeaked = 1

SPECIFICATION Spec

INVARIANT TypeOK
PROPERTY SqlTableRefinement
