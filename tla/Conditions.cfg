SPECIFICATION CondSpec
CONSTANTS
    SymType <- MCSymType
    Rank <- MCRank
    Number <- MCNumber
    WordSize = 64
    MaxOperands = 8
    Written <- MCWritten
    Parents <- MCParents
    ModulesSym = "MODULES"
    Assignments <- MCAssignments
INVARIANTS MeaningIsKept CoveredNeedsIt PrintedReadsBack
CHECK_DEADLOCK FALSE
