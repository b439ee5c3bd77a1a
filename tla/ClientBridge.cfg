\* Two link or gateway failures and one crash, wherever they fall; the file of
\* the frame fails, or is written by another bridge.
SPECIFICATION FairSpec
CONSTANTS
  hello = hello  c1 = c1  c2 = c2
  Hello = hello
  Calls = {c1, c2}
  MaxFaults = 2
  MaxCrashes = 1
  MayStop = TRUE
  FileFaults = {"write", "shared"}
CHECK_DEADLOCK FALSE
INVARIANTS OnOneLink OwnFrame
PROPERTIES LateReplyOnlyWhileClosing EveryAnswered LinkRestored
