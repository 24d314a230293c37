SPECIFICATION Spec
CONSTANTS
    Callers <- MCCallers
    Scripts <- MCScripts
    Start <- MCStart
    Home = "home"
    ConnectionLimit <- MCLimits
    QueueLimit <- MCQueues
    MaxBreaks = 2
    MaxTime = 1
    Rows <- MCRows
    Displayed <- MCDisplayed
INVARIANTS
    LabelledOnce
    IndexesInOrder
    PurgedWasArchived
    ReportsWhatWas
CHECK_DEADLOCK FALSE
