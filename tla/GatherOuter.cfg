\* A minute of 8 seconds, and the largest stall and the longest Write that TimingAssumption allows.
SPECIFICATION FairSpec
CONSTANTS
  Period = 8
  Grace = 3
  MaxStall = 2
  MaxHold = 1
  Lengths = {0, 1}
  MaxTime = 20
  MaxBytes = 2
INVARIANTS
  TypeOK
  NoStaleWrite
  Conservation
  BalancedLog
  PunctualUpdate
  PrintedInTime
  FinalFlush
PROPERTIES
  NoLineOverwritten
  LedgerSpec
  ShutdownCompletes
