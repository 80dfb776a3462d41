------------------------------ MODULE ByteLedger ------------------------------
(***************************************************************************)
(* What a traffic counter that reports in instalments promises, whatever   *)
(* it keeps in memory and however many threads it uses: it accepts bytes   *)
(* while it is open, reports only what it has accepted, never takes a      *)
(* report back, and closes only when it has reported everything.           *)
(***************************************************************************)
EXTENDS Integers

CONSTANTS
  Slot,     \* what bytes are counted under
  Lengths   \* the numbers of bytes accepted at a time

VARIABLES
  accepted,  \* bytes accepted per slot
  reported,  \* bytes reported per slot
  open       \* whether the counter has been closed

vars == <<accepted, reported, open>>

Init ==
  /\ accepted = [s \in Slot |-> 0]
  /\ reported = [s \in Slot |-> 0]
  /\ open = TRUE

Accept(s, len) ==
  /\ open
  /\ accepted' = [accepted EXCEPT ![s] = @ + len]
  /\ UNCHANGED <<reported, open>>

\* A report covers any part of what is outstanding.
Report ==
  /\ open
  /\ reported' \in [Slot -> Nat]
  /\ \A s \in Slot : reported[s] <= reported'[s] /\ reported'[s] <= accepted[s]
  /\ UNCHANGED <<accepted, open>>

Close ==
  /\ open /\ reported = accepted
  /\ open' = FALSE
  /\ UNCHANGED <<accepted, reported>>

Next == (\E s \in Slot, len \in Lengths : Accept(s, len)) \/ Report \/ Close

Spec == Init /\ [][Next]_vars
=============================================================================
