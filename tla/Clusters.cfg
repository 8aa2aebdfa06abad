CONSTANTS
    Names <- MCNames
    Wanted <- MCWanted
    Templated <- MCTemplated
    Controlling <- MCControlling
    Versions <- MCVersions
    Default <- MCDefault
    Bodies <- MCBodies
    Costs <- MCCosts
    MaxCost = 2
    MaxUID = 2
SPECIFICATION FairSpec
CHECK_DEADLOCK FALSE
INVARIANTS TypeOK AnsweredWhole WrongReportPending
PROPERTIES PoolsCollected ExpiredGo
