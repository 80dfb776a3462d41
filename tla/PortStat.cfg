\* Three signals at any moment, on either thread, a thread that may not start and a
\* pid file that may not open: every mishap.
SPECIFICATION FairSpec
CONSTANTS
  MaxSignals = 3
  Allowed = {"early", "inCall", "race", "late", "noThread", "unstored"}
INVARIANTS
  TypeOK
  NeverCrashes
  NoUseAfterDelete
  OrderlyEnd
  HandlerOnlySigns
PROPERTIES
  TerminatesUnlessStuck
  PidFileSpec
