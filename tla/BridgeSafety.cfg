\* Every kind of failure but a removal, one reset, a session that may close.
SPECIFICATION FairSpec
CONSTANTS
  p1 = p1  b1 = b1  b2 = b2  r1 = r1  r2 = r2
  Plain = {p1}
  Browsing = {b1, b2}
  Resets = {r1}
  MaxAttempts = 2
  MaxFaults = 2
  Faults = {"exit", "wedge", "provision", "spawn", "replay"}
  MayClose = TRUE
CHECK_DEADLOCK FALSE
INVARIANTS SwapAlone CurrentServes NoStrayChild
PROPERTIES SecondReplyOnlyWhileClosing ResetHonest EveryAnswered
