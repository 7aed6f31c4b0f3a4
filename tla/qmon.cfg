SPECIFICATION FairSpec
CONSTANTS
    MaxPolls <- TwoPolls
    Pieces = 2
    Answers <- AnyAnswer
    ByAnalyst = TRUE
CHECK_DEADLOCK FALSE
INVARIANTS
    MonitorIsSound
    NoticeOfOneAnswer
PROPERTIES
    EveryUpdateNoticed
