\* Days of 4, 3 and 5 hours in any order, packets up to 2 hours old.
SPECIFICATION Spec
CONSTANTS
  Day = 4
  Lengths = {3, 4, 5}
  Delay = 2
  LastDay = 6
INVARIANTS
  TypeOK
  InItsDay
  AtMostADayOff
  RetriedAfterFailure
\* The clock stops on the last day.
CHECK_DEADLOCK FALSE
