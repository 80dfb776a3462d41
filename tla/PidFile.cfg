\* Two pids, two commands that kill, every mishap.
SPECIFICATION FairSpec
CONSTANTS
  Pid = {p1, p2}
  Killer = {k1, k2}
  Allowed = {"double", "restart", "unstored", "early", "inCall", "orphan", "reuse"}
INVARIANTS
  TypeOK
  Reachable
  FileTells
  OnlyDaemonsKilled
PROPERTY
  KillEnds
