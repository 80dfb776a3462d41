------------------------------ MODULE GatherLine ------------------------------
(***************************************************************************)
(* The rows of one minute (src/src/GatherLine.cpp): what GatherOuter::     *)
(* Write adds to a line, packet by packet and update by update, and what   *)
(* GatherOuter::RemoveLine prints of it before it deletes it.  That the    *)
(* two never touch the line at once is the business of GatherOuter.        *)
(*                                                                         *)
(* A row has a key of three parts.  A packet from peer:p to local:q is     *)
(* counted in the row <<peer, p, q>> and in the row <<local, q, 0>>, and   *)
(* so is a packet the other way.  The counters are ints.  A port may be 0: *)
(* nothing rejects it, and then the row of the peer local:q of the local   *)
(* port 0 is the row of the local port q.                                  *)
(***************************************************************************)
EXTENDS BlkArray, Sequences

CONSTANTS
  mLocal,      \* the address whose traffic is counted
  Peers,       \* other addresses
  Ports,       \* ports of packets, 0 among them
  Lengths,     \* payload lengths
  CellSizes,   \* values of sizeof(StatCell); it is 16 in the build
  Half,        \* an int is in -Half .. Half - 1
  MaxPackets   \* bound on the packets of the minute

ASSUME LineAssumption ==
  /\ mLocal \notin Peers
  /\ 0 \in Ports /\ Ports \subseteq Nat
  /\ Lengths \subseteq Nat
  /\ CellSizes \subseteq Nat \ {0}
  /\ Half \in Nat \ {0}
  /\ MaxPackets \in Nat

VARIABLES
  line,     \* the CGatherLine: "new", "filling" or "deleted"
  mData,    \* its rows
  todo,     \* the updates the call of Write still has to make
  packets,  \* how many packets came
  log,      \* what RemoveLine printed
  counted   \* history: the bytes of the updates, per key and direction

vars == <<line, mData, todo, packets, log, counted>>

Addresses == Peers \cup {mLocal}

Key == Addresses \X Ports \X Ports

Directions == {"in", "out"}

StatCell == [key : Key, in : Int, out : Int]

\* An int that overflows wraps in the build.
Wrap(n) == ((n + Half) % (2 * Half)) - Half

Init ==
  /\ line = "new"
  /\ mData = NewArray
  /\ todo = <<>> /\ packets = 0
  /\ log = {}
  /\ counted = [k \in Key |-> [d \in Directions |-> 0]]

Construct(blk) ==
  /\ line = "new"
  /\ line' = "filling"
  /\ mData' = RemoveAll(SetBlkSize(mData, blk))
  /\ UNCHANGED <<todo, packets, log, counted>>
-----------------------------------------------------------------------------
Change(key, dir, len) == [key |-> key, dir |-> dir, len |-> len]

\* Mutated OutOf: the bytes of the local address are booked under the peer's port.
OutOfPeer(dst, sport, dport, len) ==
  <<Change(<<dst, dport, sport>>, "out", len), Change(<<mLocal, dport, 0>>, "out", len)>>

\* The updates for a packet to the local address, and for one from it.
InTo(src, sport, dport, len) ==
  <<Change(<<src, sport, dport>>, "in", len), Change(<<mLocal, dport, 0>>, "in", len)>>

OutOf(dst, sport, dport, len) ==
  <<Change(<<dst, dport, sport>>, "out", len), Change(<<mLocal, sport, 0>>, "out", len)>>

\* Write looks at the destination first; a packet of the local address to
\* itself is counted both ways.
Write(src, dst, sport, dport, len) ==
  /\ line = "filling" /\ todo = <<>>
  /\ packets < MaxPackets
  /\ len >= 1 /\ mLocal \in {src, dst}
  /\ todo' = IF src = dst THEN InTo(src, sport, dport, len) \o OutOf(dst, sport, dport, len)
             ELSE IF dst = mLocal THEN InTo(src, sport, dport, len)
             ELSE OutOf(dst, sport, dport, len)
  /\ packets' = packets + 1
  /\ UNCHANGED <<line, mData, log, counted>>

Rows(a) == 0 .. (a.m_Length - 1)

Matching(a, key) == {i \in Rows(a) : At(a, i).key = key}

\* Mutated FindCell: the local port is not compared.
FindCellSparse(a, key) ==
  LET hits == {i \in Rows(a) : At(a, i).key[1] = key[1] /\ At(a, i).key[2] = key[2]}
      new == Add(a, [key |-> key, in |-> 0, out |-> 0])
  IN IF hits = {} THEN [rows |-> new, at |-> new.m_nSize - a.m_BlkSize]
     ELSE [rows |-> a, at |-> (CHOOSE i \in hits : \A j \in hits : i <= j) * a.m_BlkSize]

\* CGatherLine::FindCell: the rows, and where in m_pData the one it returns is.
FindCell(a, key) ==
  LET hits == Matching(a, key)
      new == Add(a, [key |-> key, in |-> 0, out |-> 0])
  IN IF hits = {} THEN [rows |-> new, at |-> new.m_nSize - a.m_BlkSize]
     ELSE [rows |-> a, at |-> (CHOOSE i \in hits : \A j \in hits : i <= j) * a.m_BlkSize]

\* CGatherLine::update.
Update ==
  /\ todo # <<>>
  /\ LET u == Head(todo)
         found == FindCell(mData, u.key)
         cell == found.rows.m_pData[found.at]
     IN /\ mData' = Store(found.rows, found.at, [cell EXCEPT ![u.dir] = Wrap(@ + u.len)])
        /\ counted' = [counted EXCEPT ![u.key][u.dir] = @ + u.len]
  /\ todo' = Tail(todo)
  /\ UNCHANGED <<line, packets, log>>
-----------------------------------------------------------------------------
\* Mutated Printed: the last row is left out.
PrintedShort(a) ==
  {e \in {[row |-> i, key |-> At(a, i).key, dir |-> d, amount |-> At(a, i)[d]] :
            i \in Rows(a) \ {a.m_Length - 1}, d \in Directions} : e.amount # 0}

\* The lines of the log: each row has one per counter that is not zero.
Printed(a) ==
  {e \in {[row |-> i, key |-> At(a, i).key, dir |-> d, amount |-> At(a, i)[d]] :
            i \in Rows(a), d \in Directions} : e.amount # 0}

RemoveLine ==
  /\ line = "filling" /\ todo = <<>>
  /\ log' = Printed(mData)
  /\ mData' = RemoveAll(mData)
  /\ line' = "deleted"
  /\ UNCHANGED <<todo, packets, counted>>

Next ==
  \/ \E blk \in CellSizes : Construct(blk)
  \/ \E src, dst \in Addresses, sport, dport \in Ports, len \in Lengths :
       Write(src, dst, sport, dport, len)
  \/ Update
  \/ RemoveLine

Spec == Init /\ [][Next]_vars
-----------------------------------------------------------------------------
Byte == StatCell \cup {Zero, Junk, Rest}

IsArray(a) ==
  /\ DOMAIN a = DOMAIN NewArray
  /\ a.m_nSize \in Nat /\ a.m_nMaxSize \in Nat /\ a.m_Length \in Nat
  /\ a.m_BlkSize \in Nat \ {0}
  /\ a.m_pData \in [0 .. (a.m_nMaxSize - 1) -> Byte]

TypeOK ==
  /\ line \in {"new", "filling", "deleted"}
  /\ IsArray(mData)
  /\ todo \in Seq([key : Key, dir : Directions, len : Lengths])
  /\ packets \in 0 .. MaxPackets
  /\ log \subseteq [row : Nat, key : Key, dir : Directions, amount : Int]
  /\ counted \in [Key -> [Directions -> Nat]]

\* The rows fill the first m_nSize bytes, which have been allocated, and every
\* byte of them was written as the byte of the row it is read as.
Whole(a) ==
  /\ a.m_nSize = a.m_Length * a.m_BlkSize
  /\ a.m_nSize <= a.m_nMaxSize
  /\ \A i \in Rows(a) :
       /\ At(a, i) \in StatCell
       /\ \A b \in 1 .. (a.m_BlkSize - 1) : a.m_pData[i * a.m_BlkSize + b] = Rest

\* The search never finds one of two rows.
OneRowEach(a) == \A i, j \in Rows(a) : At(a, i).key = At(a, j).key => i = j

\* What the rows say of a key; a key without a row has counted nothing.
Total(a, key, dir) ==
  IF Matching(a, key) = {} THEN 0 ELSE At(a, CHOOSE i \in Matching(a, key) : TRUE)[dir]

\* The rows add up to what the updates have counted, in the width of an int,
\* however often the array has moved.
Counted ==
  line # "deleted" =>
    \A k \in Key, d \in Directions : Total(mData, k, d) = Wrap(counted[k][d])

\* RemoveLine prints every counter that is not zero, once, and no other.
PrintedOnce ==
  line = "deleted" =>
    \A k \in Key, d \in Directions :
      LET lines == {e \in log : e.key = k /\ e.dir = d}
          count == Wrap(counted[k][d])
      IN IF count = 0 THEN lines = {} ELSE \E e \in lines : lines = {e} /\ e.amount = count

\* Outside the minute nothing is under way and there is no row.
Idle == line # "filling" => todo = <<>> /\ mData.m_Length = 0

\* The invariant the proofs are about.
IInv ==
  TypeOK /\ Whole(mData) /\ OneRowEach(mData) /\ Counted /\ Idle /\ PrintedOnce

\* The line implements KeyedTotals: the totals are those of its rows, and those
\* of the log once the rows are deleted.
InLog(key, dir) ==
  LET lines == {e \in log : e.key = key /\ e.dir = dir}
  IN IF lines = {} THEN 0 ELSE (CHOOSE e \in lines : TRUE).amount

TotalNow ==
  [k \in Key |-> [d \in Directions |->
     IF line = "deleted" THEN InLog(k, d) ELSE Total(mData, k, d)]]

Reported == {<<e.key, e.dir, e.amount>> : e \in log}

Totals == INSTANCE KeyedTotals WITH
  total <- TotalNow, report <- Reported, open <- line # "deleted"

TotalsSpec == Totals!Spec
===============================================================================
