SPECIFICATION FairSpec
CONSTANTS
    Word = {a, b, c}
    NoColumn = NoColumn
    Server = {s1, s2, s3}
    Inspected = s1
    Alias = Alias
    Nowhere = Nowhere
CHECK_DEADLOCK FALSE
INVARIANTS TypeOK ColumnsPaired KeyIdentifiesRows MasterIsMaster ChangesReachInspector
PROPERTIES InspectionEnds
