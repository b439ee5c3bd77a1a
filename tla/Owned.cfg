\* Three owned calls of one session, and the handles of two.
SPECIFICATION FairSpec
CONSTANTS
    None = None
    me = me  other = other  h1 = h1  h2 = h2
    Sessions = {me, other}
    Me = me
    Handles = {h1, h2}
    MaxCalls = 3
    Kinds = {"snapshot", "act", "achieve"}
    Tabs = {t1, t2}
    MaxSteps = 1
    MaxMoves = 1
    MaxSwaps = 1
    MaxLosses = 1
CONSTRAINT Scenes
CHECK_DEADLOCK FALSE
INVARIANT HandlesAgree
PROPERTIES ActsOnNewestAtRest EveryCallSettles
