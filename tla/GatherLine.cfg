SPECIFICATION Spec
CONSTANTS
  Zero = Zero
  Junk = Junk
  Rest = Rest
  mLocal = me
  Peers = {a}
  Ports = {0, 1}
  Lengths = {0, 2}
  CellSizes = {1, 16}
  Half = 3
  MaxPackets = 3
INVARIANTS
  TypeOK
  BalanceInv
  PortBalance
  PrintedOnce
PROPERTY
  TotalsSpec
CHECK_DEADLOCK FALSE
