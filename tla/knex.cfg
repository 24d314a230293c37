SPECIFICATION Spec
CONSTANTS
    Columns <- MCColumns
    OtherColumns <- MCOtherColumns
    OtherRows <- MCOtherRows
    Values <- MCValues
    Tested <- MCTested
    Given <- MCGiven
    Compared <- MCCompared
    Ranges <- MCRanges
    JoinsGiven <- MCJoinsGiven
    Updates <- MCUpdates
    MaxConditions = 3
    Lists <- MCLists
    Objects <- MCObjects
    Inserts <- MCInserts
    Raws <- MCRaws
    FirstRows <- MCFirstRows
    MaxCalls = 4
INVARIANTS
    ValuesBound
    CountAgrees
PROPERTIES
    Narrowing
    OnlySelectedChange
    InsertedAsGiven
CHECK_DEADLOCK FALSE
