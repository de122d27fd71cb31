SPECIFICATION FairSpec
CONSTANTS
  Modes = {0, 1, 2}
  Selected = {1, 2}
  Own = 2
  Teamrace = "9-12"
  AbsTimeout = 0
INVARIANTS
  OutputsAreFresh
PROPERTIES
  FailsafeComes
  SelectedIsServed
