\* Three navigations over two documents, any two mishaps.
SPECIFICATION FairSpec
CONSTANTS
  a = a  b = b
  Urls = {a, b}
  MaxNavs = 3
  Strikes = 2
  Faults = {"move", "wedge", "blind", "mute", "exit"}
  MaxFaults = 2
CHECK_DEADLOCK FALSE
INVARIANTS StruckOnlyIfLeft StrikesOwnChild
PROPERTY WedgeCleared
