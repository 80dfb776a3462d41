\* One signal, which may come before the capture polls.
SPECIFICATION FairSpec
CONSTANTS
  MaxSignals = 1
  Allowed = {"early"}
PROPERTIES
  Terminates
