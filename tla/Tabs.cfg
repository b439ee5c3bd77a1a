\* Two captures, two choices of the client for two passes, and one tab that
\* closes on its own or one replacement of the child.
SPECIFICATION FairSpec
CONSTANTS
  s1 = s1  s2 = s2
  Captures = {s1, s2}
  Passes = 2
  MaxTabs = 3
  MaxChoices = 2
  MaxTrouble = 1
CHECK_DEADLOCK FALSE
INVARIANT InjectedHidden
PROPERTIES ChoiceStands CaptureInFront CaptureGoes
