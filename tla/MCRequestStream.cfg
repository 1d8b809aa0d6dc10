CONSTANTS
    Scripts <- MCScripts
    Separator = 2
    InitialSize = 4
SPECIFICATION FairSpec
INVARIANTS HeadsAreFound InOrder EndIsReal UndefinedOnlyInHead
PROPERTIES Answered
CHECK_DEADLOCK FALSE
