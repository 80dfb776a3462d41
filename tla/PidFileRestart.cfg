\* A daemon is started while the last one, which was told to end, is still closing.
SPECIFICATION Spec
CONSTANTS
  Pid = {p1, p2}
  Killer = {k1}
  Allowed = {"restart"}
INVARIANT
  KillFinds
