\* One signal, which may interrupt a call of localtime_r.
SPECIFICATION FairSpec
CONSTANTS
  MaxSignals = 1
  Allowed = {"inCall"}
PROPERTIES
  Terminates
