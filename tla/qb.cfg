SPECIFICATION Spec
CONSTANTS
    Stored <- MCStored
    ColumnOrder <- MCColumnOrder
    Vals <- MCVals
    Leaves <- MCLeaves
    Tests <- MCTests
    ValuedGroups = FALSE
    MaxSteps = 4
    MaxBuilders = 4
INVARIANTS
    ReadAsComposed
    ValuesInOrder
    ReadAsBuilt
PROPERTIES
    BasesKeepTheirText
CHECK_DEADLOCK FALSE
