SPECIFICATION EvaluationSpec
CONSTANTS
    flagA = flagA
    flagB = flagB
    flagC = flagC
    missing = missing
    Keys <- MCKeys
    Graphs <- MCGraphs
    Requests <- MCRequests
    Trues <- MCTrues
    Falses <- MCFalses
    Number <- MCNumber
    NaN = NaN
    Version <- MCVersion
    Less <- MCLess
    IsPart <- MCIsPart
    Matches <- MCMatches
    Hash <- MCHash
    Json <- MCJson
    Part <- MCPart
    Users <- MCUsers
    NoUser = NoUser
    Storage <- MCStorage
    Texts <- MCTexts
    Thresholds <- MCThresholds
    MaxRollout = 1
    Definition <- MCDefinition
INVARIANTS
    SortIsExact
    EvaluationIsReference
    RolloutIsSticky
    TargetingIsMembership
    ThresholdsAreOrdered
PROPERTIES
    SortEnds
\* An evaluation ends.
CHECK_DEADLOCK FALSE
