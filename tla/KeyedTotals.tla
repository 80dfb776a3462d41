----------------------------- MODULE KeyedTotals -----------------------------
(***************************************************************************)
(* What the line of a minute promises: for every key it adds up two        *)
(* numbers of fixed width, and it reports every one that is not zero.      *)
(***************************************************************************)
EXTENDS Integers

CONSTANTS Key, Lengths, Wrap(_)

VARIABLES
  total,   \* per key and direction
  report,  \* what has been reported
  open     \* whether it still counts

vars == <<total, report, open>>

Directions == {"in", "out"}

Init ==
  /\ total = [k \in Key |-> [d \in Directions |-> 0]]
  /\ report = {}
  /\ open = TRUE

Count(k, d, len) ==
  /\ open
  /\ total' = [total EXCEPT ![k][d] = Wrap(@ + len)]
  /\ UNCHANGED <<report, open>>

Report ==
  /\ open
  /\ report' = {r \in {<<k, d, total[k][d]>> : k \in Key, d \in Directions} : r[3] # 0}
  /\ open' = FALSE
  /\ UNCHANGED total

Next ==
  \/ \E k \in Key, d \in Directions, len \in Lengths : Count(k, d, len)
  \/ Report

Spec == Init /\ [][Next]_vars
===============================================================================
