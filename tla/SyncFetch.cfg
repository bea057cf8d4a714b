SPECIFICATION FairSpec
CONSTANT Last = 4
PROPERTIES ImplementsFetchLoop LoopEnds
CHECK_DEADLOCK FALSE
