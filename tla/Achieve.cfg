\* Jev with a model behind it, on a page that may leave the allowed origin.
SPECIFICATION FairSpec
CONSTANTS
    here = here  there = there
    Tables <- Faces
    Origins = {here, there}
    Allowed = {here}
    MayCommit = FALSE
    Escalating = TRUE
    MaxSteps = 3
    MaxLoads = 2
    DONE = DONE  BLOCKED = BLOCKED  unknown = unknown  NoState = NoState
CHECK_DEADLOCK FALSE
INVARIANTS FreshEyes NothingWasInput AimedAtWhatWasRead ConsequentialAsked
PROPERTIES StopIsFinal LoopEnds
