----------------------------- MODULE MCGatherLine -----------------------------
(* GatherLine for TLC, with a property that adds up rows. *)
EXTENDS GatherLine, FiniteSetsExt

\* An address has four octets and a port two.
ASSUME FiniteAssumption == IsFiniteSet(Peers) /\ IsFiniteSet(Ports)

\* The rows of all peers of the local port q, and what they hold together.
KeysOf(q) == {k \in Key : k[3] = q}

Sum(q, d) == MapThenSumSet(LAMBDA k : Total(mData, k, d), KeysOf(q))

Other(d) == IF d = "in" THEN "out" ELSE "in"

\* Between two packets the row of the local address and one of its ports holds
\* what the rows of all peers of that port hold together, in the width of an int,
\* and what the local address exchanged on that port with its own port 0, which
\* goes to the same row once more (Output.cpp:298, 303).  So the updates of a packet
\* are never split, doubled or booked elsewhere.  Of port 0 itself, whose rows are
\* those of the other local ports, nothing is said.
PortBalance ==
  line = "filling" /\ todo = <<>> =>
    \A q \in Ports \ {0}, d \in Directions :
      Total(mData, <<mLocal, q, 0>>, d)
        = Wrap(Sum(q, d) + Total(mData, <<mLocal, 0, q>>, Other(d)))
-----------------------------------------------------------------------------
(* The invariant the proof is about: what holds in the middle of a packet. *)

\* What the update u adds to the count of a key.
Gives(u, k, d) == IF u.key = k /\ u.dir = d THEN u.len ELSE 0

\* What the updates t add to it; a call of Write makes four at most.
Part(t, i, k, d) == IF i \in DOMAIN t THEN Gives(t[i], k, d) ELSE 0

Pending(t, k, d) == Part(t, 1, k, d) + Part(t, 2, k, d) + Part(t, 3, k, d) + Part(t, 4, k, d)

\* The counts c as they will be when the updates t are done.
Settled(c, t) == [k \in Key |-> [d \in Directions |-> c[k][d] + Pending(t, k, d)]]

CountedSum(c, q, d) == MapThenSumSet(LAMBDA k : c[k][d], KeysOf(q))

Balanced(c) ==
  \A q \in Ports \ {0}, d \in Directions :
    c[<<mLocal, q, 0>>][d] = CountedSum(c, q, d) + c[<<mLocal, 0, q>>][Other(d)]

BalanceInv == IInv /\ Len(todo) <= 4 /\ Balanced(Settled(counted, todo))
===============================================================================
