SPECIFICATION GridSpec
CONSTANTS
    QueryTabs = {t1}
    SchemaTabs = {s1}
    Results = {r1, r2}
    Absent = Absent
    HasPrimaryKey = TRUE
    k1 = k1
    k2 = k2
    k3 = k3
    a = a
    b = b
    Keys = {k1, k2, k3}
    Values = {a, b}
    Null = Null
    Undefined = Undefined
    DefaultValue = b
    NoRow = NoRow
    Failed = Failed
    Tables <- MCTables
    NewRows <- MCNewRows
    Edits <- MCEdits
    JsonValues = {b}
    MaxStaged = 2
    MaxRows = 4
    MaxConverted = 1
SYMMETRY Symmetry
INVARIANTS GridInv DiscardRestores SQLWritesTheGrid DiscardHitsItsSelection
PROPERTIES OnlyCloseToRightBlanksTheScreen StagedChangesStay
