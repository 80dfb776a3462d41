--------------------------- MODULE GatherLineProofs ---------------------------
(***************************************************************************)
(* Proofs about GatherLine for every size of a cell, every width of an int *)
(* and any number of packets: first what the operations of the array do to *)
(* its elements, then what FindCell and an update do to the totals, then   *)
(* the invariant of the line and its refinement of KeyedTotals.            *)
(***************************************************************************)
EXTENDS GatherLine, TLAPS

-----------------------------------------------------------------------------
(* Arithmetic.                                                             *)

LEMMA Division ==
  ASSUME NEW m \in Nat \ {0}, NEW x \in Int
  PROVE  /\ x % m \in 0 .. (m - 1)
         /\ x \div m \in Int
         /\ x = m * (x \div m) + (x % m)
OBVIOUS

LEMMA Remainder ==
  ASSUME NEW m \in Nat \ {0}, NEW q \in Int, NEW r \in 0 .. (m - 1)
  PROVE  (m * q + r) % m = r
OBVIOUS

\* Adding to a remainder is adding to the number.
LEMMA AddModulo ==
  ASSUME NEW m \in Nat \ {0}, NEW x \in Int, NEW y \in Int
  PROVE  ((x % m) + y) % m = (x + y) % m
<1>. DEFINE s == (x % m) + y
            q == (x \div m) + (s \div m)
<1>1. s \in Int /\ s = m * (s \div m) + (s % m) /\ s % m \in 0 .. (m - 1) /\ s \div m \in Int
  BY Division
<1>2. x = m * (x \div m) + (x % m) /\ x \div m \in Int /\ x % m \in Int
  BY Division
<1>3. m * q = m * (x \div m) + m * (s \div m) /\ q \in Int
  BY <1>1, <1>2
<1>4. x + y = m * q + (s % m)
  BY <1>1, <1>2, <1>3
<1>. HIDE DEF q, s
<1>5. (m * q + (s % m)) % m = s % m
  BY <1>1, <1>3, Remainder
<1>. QED BY <1>4, <1>5 DEF s

LEMMA WrapInt == ASSUME NEW n \in Int PROVE Wrap(n) \in Int
BY LineAssumption, Division DEF Wrap

LEMMA WrapZero == Wrap(0) = 0
<1>1. Half = (2 * Half) * 0 + Half /\ Half \in 0 .. (2 * Half - 1) /\ 2 * Half \in Nat \ {0}
  BY LineAssumption
<1>2. Half % (2 * Half) = Half
  BY <1>1, Remainder
<1>. QED BY <1>1, <1>2, LineAssumption DEF Wrap

\* The counter an update finds may have wrapped already.
LEMMA WrapWrap ==
  ASSUME NEW n \in Int, NEW len \in Int
  PROVE  Wrap(Wrap(n) + len) = Wrap(n + len)
<1>1. 2 * Half \in Nat \ {0} /\ Half \in Int
  BY LineAssumption
<1>2. (n + Half) % (2 * Half) \in Int
  BY <1>1, Division
<1>3. Wrap(n) + len + Half = ((n + Half) % (2 * Half)) + len
  BY <1>1, <1>2 DEF Wrap
<1>4. (((n + Half) % (2 * Half)) + len) % (2 * Half) = (n + Half + len) % (2 * Half)
  <2>1. n + Half \in Int
    BY <1>1
  <2>. QED BY <1>1, <2>1, AddModulo
<1>5. n + Half + len = n + len + Half
  BY <1>1
<1>. QED BY <1>3, <1>4, <1>5 DEF Wrap

\* Elements do not overlap.
LEMMA Offsets ==
  ASSUME NEW B \in Nat \ {0}, NEW i \in Nat, NEW j \in Nat, i < j
  PROVE  /\ i * B \in Nat /\ j * B \in Nat
         /\ i * B + B <= j * B
<1>1. (j - i) * B = j * B - i * B
  OBVIOUS
<1>2. (j - i) * B >= B
  <2>1. j - i \in Nat \ {0}
    OBVIOUS
  <2>2. \A n \in Nat \ {0} : n * B >= B
    OBVIOUS
  <2>. QED BY <2>1, <2>2
<1>. QED BY <1>1, <1>2

LEMMA NextOffset ==
  ASSUME NEW B \in Nat \ {0}, NEW i \in Nat
  PROVE  (i + 1) * B = i * B + B /\ i * B \in Nat
OBVIOUS
-----------------------------------------------------------------------------
(* The array.                                                              *)

LEMMA Fields ==
  DOMAIN NewArray = {"m_pData", "m_nSize", "m_nMaxSize", "m_Length", "m_BlkSize"}
BY DEF NewArray

LEMMA Empty ==
  ASSUME NEW blk \in Nat \ {0}
  PROVE  /\ IsArray(SetBlkSize(NewArray, blk)) /\ IsArray(NewArray)
         /\ SetBlkSize(NewArray, blk).m_Length = 0
         /\ SetBlkSize(NewArray, blk).m_nSize = 0
BY DEF IsArray, SetBlkSize, NewArray, NULL

LEMMA NewMaxEnough ==
  ASSUME NEW a, IsArray(a), NEW n \in Nat
  PROVE  NewMax(a, n) \in Nat /\ n <= NewMax(a, n)
<1>. DEFINE eighth == a.m_nSize \div 8
<1>1. eighth \in Int
  <2>1. a.m_nSize \in Int /\ 8 \in Nat \ {0}
    BY DEF IsArray
  <2>. QED BY <2>1, Division
<1>. HIDE DEF eighth
<1>. DEFINE grow == IF eighth < 4 THEN 4 ELSE IF eighth > 1024 THEN 1024 ELSE eighth
<1>2. grow \in Nat
  BY <1>1
<1>3. NewMax(a, n) = IF n < a.m_nMaxSize + grow THEN a.m_nMaxSize + grow ELSE n
  BY DEF NewMax, eighth
<1>. HIDE DEF grow
<1>. QED BY <1>2, <1>3 DEF IsArray

\* SetSize(n) keeps what is there and the sizes that are not its own.
LEMMA SetSizeKeeps ==
  ASSUME NEW a, IsArray(a), a.m_nSize <= a.m_nMaxSize, NEW n \in Nat, a.m_nSize < n
  PROVE  /\ IsArray(SetSize(a, n))
         /\ SetSize(a, n).m_nSize = a.m_nSize /\ SetSize(a, n).m_Length = a.m_Length
         /\ SetSize(a, n).m_BlkSize = a.m_BlkSize
         /\ n <= SetSize(a, n).m_nMaxSize
         /\ \A b \in 0 .. (a.m_nSize - 1) : SetSize(a, n).m_pData[b] = a.m_pData[b]
<1>. USE Fields DEF IsArray
<1>1. Zero \in Byte /\ Junk \in Byte
  BY DEF Byte
<1>2. CASE a.m_nMaxSize = 0
  <2>. DEFINE mem == [b \in 0 .. (n - 1) |-> Zero]
  <2>1. SetSize(a, n) = [a EXCEPT !.m_pData = mem, !.m_nMaxSize = n]
    BY <1>2 DEF SetSize
  <2>2. mem \in [0 .. (n - 1) -> Byte]
    BY <1>1
  <2>. HIDE DEF mem
  <2>. QED BY <1>2, <2>1, <2>2
<1>3. CASE a.m_nMaxSize # 0 /\ n <= a.m_nMaxSize
  <2>. DEFINE mem == [b \in DOMAIN a.m_pData |->
                        IF b \in a.m_nSize .. (n - 1) \cup n .. (a.m_nSize - 1)
                        THEN Zero ELSE a.m_pData[b]]
  <2>1. SetSize(a, n) = [a EXCEPT !.m_pData = mem]
    BY <1>3 DEF SetSize
  <2>2. mem \in [0 .. (a.m_nMaxSize - 1) -> Byte]
    BY <1>1
  <2>3. \A b \in 0 .. (a.m_nSize - 1) : mem[b] = a.m_pData[b]
    OBVIOUS
  <2>. HIDE DEF mem
  <2>. QED BY <1>3, <2>1, <2>2, <2>3
<1>4. CASE a.m_nMaxSize # 0 /\ n > a.m_nMaxSize
  <2>. DEFINE mem == [b \in 0 .. (NewMax(a, n) - 1) |->
                        IF b < a.m_nSize THEN a.m_pData[b] ELSE IF b < n THEN Zero ELSE Junk]
  <2>1. SetSize(a, n) = [a EXCEPT !.m_pData = mem, !.m_nMaxSize = NewMax(a, n)]
    BY <1>4 DEF SetSize
  <2>2. NewMax(a, n) \in Nat /\ n <= NewMax(a, n)
    BY NewMaxEnough
  <2>3. mem \in [0 .. (NewMax(a, n) - 1) -> Byte]
    BY <1>1, <2>2
  <2>4. \A b \in 0 .. (a.m_nSize - 1) : mem[b] = a.m_pData[b]
    BY <2>2
  <2>. HIDE DEF mem
  <2>. QED BY <2>1, <2>2, <2>3, <2>4
<1>. QED BY <1>2, <1>3, <1>4

LEMMA RoomMade ==
  ASSUME NEW a, IsArray(a), a.m_nSize <= a.m_nMaxSize
  PROVE  /\ IsArray(Room(a))
         /\ Room(a).m_nSize = a.m_nSize /\ Room(a).m_Length = a.m_Length
         /\ Room(a).m_BlkSize = a.m_BlkSize
         /\ a.m_nSize + a.m_BlkSize <= Room(a).m_nMaxSize
         /\ \A b \in 0 .. (a.m_nSize - 1) : Room(a).m_pData[b] = a.m_pData[b]
<1>1. a.m_nSize \in Nat /\ a.m_BlkSize \in Nat \ {0} /\ a.m_nMaxSize \in Nat
  BY DEF IsArray
<1>2. CASE a.m_nSize + a.m_BlkSize >= a.m_nMaxSize
  <2>. DEFINE n == a.m_nSize + a.m_BlkSize * 4
  <2>1. n \in Nat /\ a.m_nSize < n /\ a.m_nSize + a.m_BlkSize <= n
    BY <1>1
  <2>2. Room(a) = SetSize(a, n)
    BY <1>2 DEF Room
  <2>. HIDE DEF n
  <2>3. SetSize(a, n).m_nMaxSize \in Nat
    BY <2>1, SetSizeKeeps DEF IsArray
  <2>. QED BY <1>1, <2>1, <2>2, <2>3, SetSizeKeeps
<1>3. CASE ~(a.m_nSize + a.m_BlkSize >= a.m_nMaxSize)
  BY <1>1, <1>3 DEF Room
<1>. QED BY <1>2, <1>3

LEMMA Stored ==
  ASSUME NEW a, IsArray(a), NEW at \in Nat, at + a.m_BlkSize <= a.m_nMaxSize,
         NEW e \in StatCell
  PROVE  /\ IsArray(Store(a, at, e))
         /\ Store(a, at, e).m_nSize = a.m_nSize /\ Store(a, at, e).m_Length = a.m_Length
         /\ Store(a, at, e).m_BlkSize = a.m_BlkSize
         /\ Store(a, at, e).m_nMaxSize = a.m_nMaxSize
         /\ Store(a, at, e).m_pData[at] = e
         /\ \A b \in 1 .. (a.m_BlkSize - 1) : Store(a, at, e).m_pData[at + b] = Rest
         /\ \A b \in 0 .. (a.m_nMaxSize - 1) :
              b \notin at .. (at + a.m_BlkSize - 1)
                => Store(a, at, e).m_pData[b] = a.m_pData[b]
<1>. USE Fields DEF IsArray
<1>. DEFINE mem == [b \in DOMAIN a.m_pData |->
                      IF b = at THEN e
                      ELSE IF b \in (at + 1) .. (at + a.m_BlkSize - 1) THEN Rest
                      ELSE a.m_pData[b]]
<1>1. Store(a, at, e) = [a EXCEPT !.m_pData = mem]
  BY DEF Store
<1>2. mem \in [0 .. (a.m_nMaxSize - 1) -> Byte]
  BY DEF Byte
<1>3. /\ mem[at] = e
      /\ \A b \in 1 .. (a.m_BlkSize - 1) : mem[at + b] = Rest
      /\ \A b \in 0 .. (a.m_nMaxSize - 1) :
           b \notin at .. (at + a.m_BlkSize - 1) => mem[b] = a.m_pData[b]
  OBVIOUS
<1>. HIDE DEF mem
<1>. QED BY <1>1, <1>2, <1>3

\* Where the bytes of row i are.
LEMMA RowBytes ==
  ASSUME NEW a, IsArray(a), Whole(a), NEW i \in Rows(a)
  PROVE  /\ i \in Nat /\ i * a.m_BlkSize \in Nat
         /\ i * a.m_BlkSize + a.m_BlkSize <= a.m_nSize
<1>1. i \in Nat /\ i < a.m_Length /\ a.m_Length \in Nat /\ a.m_BlkSize \in Nat \ {0}
  BY DEF IsArray, Rows
<1>2. a.m_nSize = a.m_Length * a.m_BlkSize
  BY DEF Whole
<1>. QED BY <1>1, <1>2, Offsets

LEMMA Added ==
  ASSUME NEW a, IsArray(a), Whole(a), NEW e \in StatCell
  PROVE  /\ IsArray(Add(a, e)) /\ Whole(Add(a, e))
         /\ Add(a, e).m_Length = a.m_Length + 1
         /\ Add(a, e).m_BlkSize = a.m_BlkSize
         /\ Add(a, e).m_nSize = a.m_nSize + a.m_BlkSize
         /\ At(Add(a, e), a.m_Length) = e
         /\ \A i \in Rows(a) : At(Add(a, e), i) = At(a, i)
<1>. DEFINE B == a.m_BlkSize
            r == Room(a)
            s == Store(r, a.m_nSize, e)
            c == Add(a, e)
<1>1. /\ a.m_nSize \in Nat /\ B \in Nat \ {0} /\ a.m_nMaxSize \in Nat /\ a.m_Length \in Nat
      /\ a.m_nSize = a.m_Length * B /\ a.m_nSize <= a.m_nMaxSize
  BY DEF IsArray, Whole
<1>2. /\ IsArray(r) /\ r.m_nSize = a.m_nSize /\ r.m_Length = a.m_Length
      /\ r.m_BlkSize = B /\ a.m_nSize + B <= r.m_nMaxSize /\ r.m_nMaxSize \in Nat
      /\ \A b \in 0 .. (a.m_nSize - 1) : r.m_pData[b] = a.m_pData[b]
  BY <1>1, RoomMade DEF IsArray
<1>. HIDE DEF r
<1>3. /\ IsArray(s) /\ s.m_BlkSize = B /\ s.m_nMaxSize = r.m_nMaxSize
      /\ s.m_pData[a.m_nSize] = e
      /\ \A b \in 1 .. (B - 1) : s.m_pData[a.m_nSize + b] = Rest
      /\ \A b \in 0 .. (r.m_nMaxSize - 1) :
           b \notin a.m_nSize .. (a.m_nSize + B - 1) => s.m_pData[b] = r.m_pData[b]
  BY <1>1, <1>2, Stored
<1>4. c = [s EXCEPT !.m_nSize = a.m_nSize + B, !.m_Length = a.m_Length + 1]
  BY DEF Add, r
<1>. HIDE DEF s, B
<1>5. /\ IsArray(c) /\ c.m_Length = a.m_Length + 1 /\ c.m_BlkSize = B
      /\ c.m_nSize = a.m_nSize + B /\ c.m_nMaxSize = r.m_nMaxSize /\ c.m_pData = s.m_pData
  BY <1>1, <1>3, <1>4, Fields DEF IsArray
<1>. HIDE DEF c
<1>6. \A b \in 0 .. (a.m_nSize - 1) : c.m_pData[b] = a.m_pData[b]
  BY <1>1, <1>2, <1>3, <1>5
<1>7. ASSUME NEW i \in Rows(a)
      PROVE  /\ At(c, i) = At(a, i) /\ At(c, i) \in StatCell
             /\ \A b \in 1 .. (B - 1) : c.m_pData[i * B + b] = Rest
  <2>1. i * B \in Nat /\ i * B + B <= a.m_nSize
    BY RowBytes DEF B
  <2>2. \A b \in 0 .. (B - 1) : c.m_pData[i * B + b] = a.m_pData[i * B + b]
    <3>1. \A b \in 0 .. (B - 1) : i * B + b \in 0 .. (a.m_nSize - 1)
      BY <1>1, <2>1
    <3>. QED BY <1>6, <3>1
  <2>3. c.m_pData[i * B] = a.m_pData[i * B]
    BY <1>1, <1>6, <2>1
  <2>4. At(a, i) \in StatCell /\ \A b \in 1 .. (B - 1) : a.m_pData[i * B + b] = Rest
    BY DEF Whole, B
  <2>5. At(c, i) = c.m_pData[i * B] /\ At(a, i) = a.m_pData[i * B]
    BY <1>5 DEF At, B
  <2>6. 1 .. (B - 1) \subseteq 0 .. (B - 1)
    BY <1>1
  <2>. QED BY <2>2, <2>3, <2>4, <2>5, <2>6
<1>8. /\ At(c, a.m_Length) = e
      /\ \A b \in 1 .. (B - 1) : c.m_pData[a.m_Length * B + b] = Rest
  BY <1>1, <1>3, <1>5 DEF At
<1>9. Rows(c) = Rows(a) \cup {a.m_Length}
  <2>1. \A n \in Nat : 0 .. (n + 1 - 1) = (0 .. (n - 1)) \cup {n}
    OBVIOUS
  <2>. QED BY <1>1, <1>5, <2>1 DEF Rows
<1>10. c.m_nSize = c.m_Length * c.m_BlkSize /\ c.m_nSize <= c.m_nMaxSize
  BY <1>1, <1>2, <1>5, NextOffset
<1>11. Whole(c)
  <2>1. ASSUME NEW i \in Rows(c)
        PROVE  At(c, i) \in StatCell /\ \A b \in 1 .. (c.m_BlkSize - 1) :
                                         c.m_pData[i * c.m_BlkSize + b] = Rest
    <3>1. CASE i \in Rows(a)
      BY <1>5, <1>7, <3>1
    <3>2. CASE i = a.m_Length
      BY <1>5, <1>8, <3>2
    <3>. QED BY <1>9, <3>1, <3>2
  <2>. QED BY <1>10, <2>1 DEF Whole
<1>. QED BY <1>5, <1>7, <1>8, <1>11 DEF B, c

LEMMA Replaced ==
  ASSUME NEW a, IsArray(a), Whole(a), NEW i \in Rows(a), NEW e \in StatCell
  PROVE  LET c == Store(a, i * a.m_BlkSize, e)
         IN /\ IsArray(c) /\ Whole(c) /\ Rows(c) = Rows(a)
            /\ At(c, i) = e
            /\ \A j \in Rows(a) \ {i} : At(c, j) = At(a, j)
<1>. DEFINE B == a.m_BlkSize
            c == Store(a, i * B, e)
<1>1. /\ a.m_nSize \in Nat /\ B \in Nat \ {0} /\ a.m_nMaxSize \in Nat /\ a.m_Length \in Nat
      /\ a.m_nSize = a.m_Length * B /\ a.m_nSize <= a.m_nMaxSize
  BY DEF IsArray, Whole
<1>2. i \in Nat /\ i * B \in Nat /\ i * B + B <= a.m_nSize
  BY RowBytes
<1>3. /\ IsArray(c) /\ c.m_nSize = a.m_nSize /\ c.m_Length = a.m_Length
      /\ c.m_BlkSize = B /\ c.m_nMaxSize = a.m_nMaxSize
      /\ c.m_pData[i * B] = e
      /\ \A b \in 1 .. (B - 1) : c.m_pData[i * B + b] = Rest
      /\ \A b \in 0 .. (a.m_nMaxSize - 1) :
           b \notin (i * B) .. (i * B + B - 1) => c.m_pData[b] = a.m_pData[b]
  BY <1>1, <1>2, Stored
<1>. HIDE DEF c
<1>4. ASSUME NEW j \in Rows(a), j # i
      PROVE  \A b \in 0 .. (B - 1) : c.m_pData[j * B + b] = a.m_pData[j * B + b]
  <2>1. j \in Nat /\ j * B \in Nat /\ j * B + B <= a.m_nSize
    BY RowBytes
  <2>2. j * B + B <= i * B \/ i * B + B <= j * B
    <3>1. i < j \/ j < i
      BY <1>2, <1>4, <2>1
    <3>. HIDE DEF B
    <3>. QED BY <1>1, <1>2, <2>1, <3>1, Offsets
  <2>. HIDE DEF B
  <2>3. \A b \in 0 .. (B - 1) :
          j * B + b \in 0 .. (a.m_nMaxSize - 1) /\ j * B + b \notin (i * B) .. (i * B + B - 1)
    BY <1>1, <1>2, <2>1, <2>2
  <2>. QED BY <1>3, <2>3
<1>5. ASSUME NEW j \in Rows(a), j # i
      PROVE  /\ At(c, j) = At(a, j) /\ At(c, j) \in StatCell
             /\ \A b \in 1 .. (B - 1) : c.m_pData[j * B + b] = Rest
  <2>1. At(a, j) \in StatCell /\ \A b \in 1 .. (B - 1) : a.m_pData[j * B + b] = Rest
    BY DEF Whole
  <2>2. At(c, j) = c.m_pData[j * B] /\ At(a, j) = a.m_pData[j * B]
    BY <1>3 DEF At
  <2>3. 0 \in 0 .. (B - 1) /\ 1 .. (B - 1) \subseteq 0 .. (B - 1) /\ j * B + 0 = j * B
    BY <1>1, RowBytes
  <2>4. c.m_pData[j * B] = a.m_pData[j * B]
    BY <1>4, <1>5, <2>3
  <2>5. \A b \in 1 .. (B - 1) : c.m_pData[j * B + b] = a.m_pData[j * B + b]
    BY <1>4, <1>5, <2>3
  <2>. QED BY <2>1, <2>2, <2>4, <2>5
<1>6. Rows(c) = Rows(a)
  BY <1>3 DEF Rows
<1>7. At(c, i) = e
  BY <1>3 DEF At
<1>8. Whole(c)
  <2>1. ASSUME NEW j \in Rows(c)
        PROVE  At(c, j) \in StatCell /\ \A b \in 1 .. (c.m_BlkSize - 1) :
                                         c.m_pData[j * c.m_BlkSize + b] = Rest
    BY <1>3, <1>5, <1>6, <1>7
  <2>. QED BY <1>1, <1>3, <2>1 DEF Whole
<1>. QED BY <1>3, <1>5, <1>6, <1>7, <1>8 DEF c
-----------------------------------------------------------------------------
(* The rows.                                                               *)

\* The row of a key says its total.
LEMMA TotalAt ==
  ASSUME NEW a, OneRowEach(a), NEW i \in Rows(a), NEW d
  PROVE  Total(a, At(a, i).key, d) = At(a, i)[d]
<1>1. Matching(a, At(a, i).key) = {i}
  BY DEF Matching, OneRowEach
<1>. QED BY <1>1 DEF Total

LEMMA TotalNone ==
  ASSUME NEW a, NEW key, \A i \in Rows(a) : At(a, i).key # key, NEW d
  PROVE  Total(a, key, d) = 0
BY DEF Total, Matching

\* Rows that agree say the same totals.
LEMMA SameTotal ==
  ASSUME NEW a, NEW c, OneRowEach(a), OneRowEach(c), NEW key, NEW d,
         \A i \in Rows(a) : At(a, i).key = key => i \in Rows(c) /\ At(c, i) = At(a, i),
         \A i \in Rows(c) : At(c, i).key = key => i \in Rows(a) /\ At(c, i) = At(a, i)
  PROVE  Total(c, key, d) = Total(a, key, d)
<1>1. CASE \E i \in Rows(a) : At(a, i).key = key
  <2>1. PICK i \in Rows(a) : At(a, i).key = key
    BY <1>1
  <2>. QED BY <2>1, TotalAt
<1>2. CASE \A i \in Rows(a) : At(a, i).key # key
  <2>1. ASSUME NEW i \in Rows(c), At(c, i).key = key PROVE FALSE
    BY <1>2, <2>1
  <2>. QED BY <1>2, <2>1, TotalNone
<1>. QED BY <1>1, <1>2

\* A new row of a key that had none.
LEMMA RowAdded ==
  ASSUME NEW a, IsArray(a), Whole(a), OneRowEach(a), NEW key \in Key,
         \A i \in Rows(a) : At(a, i).key # key
  PROVE  LET c == Add(a, [key |-> key, in |-> 0, out |-> 0])
         IN /\ IsArray(c) /\ Whole(c) /\ OneRowEach(c)
            /\ a.m_Length \in Rows(c) /\ At(c, a.m_Length).key = key
            /\ c.m_nSize - a.m_BlkSize = a.m_Length * c.m_BlkSize
            /\ \A k \in Key, d \in Directions : Total(c, k, d) = Total(a, k, d)
<1>. DEFINE e == [key |-> key, in |-> 0, out |-> 0]
            c == Add(a, e)
            n == a.m_Length
<1>1. e \in StatCell
  BY DEF StatCell
<1>2. /\ IsArray(c) /\ Whole(c) /\ c.m_Length = n + 1 /\ c.m_BlkSize = a.m_BlkSize
      /\ c.m_nSize = a.m_nSize + a.m_BlkSize
      /\ At(c, n) = e /\ \A i \in Rows(a) : At(c, i) = At(a, i)
  BY <1>1, Added
<1>3. n \in Nat /\ a.m_nSize = n * a.m_BlkSize /\ a.m_BlkSize \in Nat \ {0} /\ a.m_nSize \in Nat
  BY DEF IsArray, Whole
<1>. HIDE DEF c
<1>4. Rows(c) = Rows(a) \cup {n} /\ n \in Rows(c) /\ n \notin Rows(a)
  <2>1. \A m \in Nat : 0 .. (m + 1 - 1) = (0 .. (m - 1)) \cup {m} /\ m \notin 0 .. (m - 1)
    OBVIOUS
  <2>. HIDE DEF n
  <2>. QED BY <1>2, <1>3, <2>1 DEF Rows, n
<1>5. At(c, n).key = key /\ \A d \in Directions : At(c, n)[d] = 0
  BY <1>2 DEF Directions
<1>. HIDE DEF n, e
<1>6. OneRowEach(c)
  <2>1. ASSUME NEW i \in Rows(c), NEW j \in Rows(c), At(c, i).key = At(c, j).key
        PROVE  i = j
    <3>1. CASE i \in Rows(a) /\ j \in Rows(a)
      BY <1>2, <2>1, <3>1 DEF OneRowEach
    <3>2. CASE i = n \/ j = n
      BY <1>2, <1>4, <1>5, <2>1, <3>2
    <3>. QED BY <1>4, <3>1, <3>2
  <2>. QED BY <2>1 DEF OneRowEach
<1>7. ASSUME NEW k \in Key, NEW d \in Directions
      PROVE  Total(c, k, d) = Total(a, k, d)
  <2>1. CASE k = key
    BY <1>4, <1>5, <1>6, <2>1, TotalAt, TotalNone
  <2>2. CASE k # key
    <3>1. \A i \in Rows(a) : i \in Rows(c) /\ At(c, i) = At(a, i)
      BY <1>2, <1>4
    <3>2. \A i \in Rows(c) : At(c, i).key = k => i \in Rows(a) /\ At(c, i) = At(a, i)
      BY <1>2, <1>4, <1>5, <2>2
    <3>. QED BY <1>6, <3>1, <3>2, SameTotal
  <2>. QED BY <2>1, <2>2
<1>8. c.m_nSize - a.m_BlkSize = n * c.m_BlkSize
  BY <1>2, <1>3
<1>. QED BY <1>2, <1>4, <1>5, <1>6, <1>7, <1>8 DEF n, c, e

\* FindCell changes no total, and the row it returns is that of the key.
LEMMA Found ==
  ASSUME NEW a, IsArray(a), Whole(a), OneRowEach(a), NEW key \in Key
  PROVE  LET f == FindCell(a, key)
         IN /\ IsArray(f.rows) /\ Whole(f.rows) /\ OneRowEach(f.rows)
            /\ \E i \in Rows(f.rows) : /\ f.at = i * f.rows.m_BlkSize
                                       /\ At(f.rows, i).key = key
            /\ \A k \in Key, d \in Directions : Total(f.rows, k, d) = Total(a, k, d)
<1>1. CASE Matching(a, key) = {}
  <2>. DEFINE c == Add(a, [key |-> key, in |-> 0, out |-> 0])
  <2>1. FindCell(a, key) = [rows |-> c, at |-> c.m_nSize - a.m_BlkSize]
    BY <1>1 DEF FindCell
  <2>2. \A i \in Rows(a) : At(a, i).key # key
    BY <1>1 DEF Matching
  <2>3. /\ IsArray(c) /\ Whole(c) /\ OneRowEach(c)
        /\ a.m_Length \in Rows(c) /\ At(c, a.m_Length).key = key
        /\ c.m_nSize - a.m_BlkSize = a.m_Length * c.m_BlkSize
        /\ \A k \in Key, d \in Directions : Total(c, k, d) = Total(a, k, d)
    BY <2>2, RowAdded
  <2>. HIDE DEF c
  <2>. QED BY <2>1, <2>3
<1>2. CASE Matching(a, key) # {}
  <2>1. PICK i \in Rows(a) : At(a, i).key = key
    BY <1>2 DEF Matching
  <2>2. Matching(a, key) = {i}
    BY <2>1 DEF Matching, OneRowEach
  <2>3. i \in Int
    BY DEF Rows
  <2>4. (CHOOSE j \in {i} : \A k \in {i} : j <= k) = i
    BY <2>3
  <2>5. FindCell(a, key) = [rows |-> a, at |-> i * a.m_BlkSize]
    BY <1>2, <2>2, <2>4 DEF FindCell
  <2>. QED BY <2>1, <2>5
<1>. QED BY <1>1, <1>2

\* What update does to the rows.
Updated(a, key, dir, len) ==
  LET f == FindCell(a, key)
      cell == f.rows.m_pData[f.at]
  IN Store(f.rows, f.at, [cell EXCEPT ![dir] = Wrap(@ + len)])

LEMMA CellChanged ==
  ASSUME NEW e \in StatCell, NEW dir \in Directions, NEW n \in Int
  PROVE  LET c == [e EXCEPT ![dir] = n]
         IN /\ c \in StatCell /\ c.key = e.key /\ c[dir] = n
            /\ \A d \in Directions \ {dir} : c[d] = e[d]
            /\ e.key \in Key /\ \A d \in Directions : e[d] \in Int
BY DEF StatCell, Directions

LEMMA UpdatedRows ==
  ASSUME NEW a, IsArray(a), Whole(a), OneRowEach(a),
         NEW key \in Key, NEW dir \in Directions, NEW len \in Int
  PROVE  LET c == Updated(a, key, dir, len)
         IN /\ IsArray(c) /\ Whole(c) /\ OneRowEach(c)
            /\ Total(c, key, dir) = Wrap(Total(a, key, dir) + len)
            /\ \A k \in Key, d \in Directions :
                 <<k, d>> # <<key, dir>> => Total(c, k, d) = Total(a, k, d)
<1>. DEFINE f == FindCell(a, key)
            r == f.rows
<1>1. /\ IsArray(r) /\ Whole(r) /\ OneRowEach(r)
      /\ \E i \in Rows(r) : f.at = i * r.m_BlkSize /\ At(r, i).key = key
      /\ \A k \in Key, d \in Directions : Total(r, k, d) = Total(a, k, d)
  BY Found
<1>2. PICK i \in Rows(r) : f.at = i * r.m_BlkSize /\ At(r, i).key = key
  BY <1>1
<1>. DEFINE cell == At(r, i)
            e == [cell EXCEPT ![dir] = Wrap(cell[dir] + len)]
            c == Store(r, i * r.m_BlkSize, e)
<1>3. Updated(a, key, dir, len) = c
  BY <1>2 DEF Updated, At
<1>. HIDE DEF r
<1>4. cell \in StatCell
  BY <1>1 DEF Whole
<1>5. cell[dir] \in Int /\ Wrap(cell[dir] + len) \in Int
  <2>1. cell[dir] \in Int
    BY <1>4, CellChanged
  <2>2. cell[dir] + len \in Int
    BY <2>1
  <2>. QED BY <2>1, <2>2, WrapInt
<1>6. /\ e \in StatCell /\ e.key = key /\ e[dir] = Wrap(cell[dir] + len)
      /\ \A d \in Directions \ {dir} : e[d] = cell[d]
  BY <1>2, <1>4, <1>5, CellChanged
<1>. HIDE DEF e
<1>7. /\ IsArray(c) /\ Whole(c) /\ Rows(c) = Rows(r) /\ At(c, i) = e
      /\ \A j \in Rows(r) \ {i} : At(c, j) = At(r, j)
  BY <1>1, <1>6, Replaced
<1>. HIDE DEF c
<1>8. \A j \in Rows(r) : At(c, j).key = At(r, j).key
  BY <1>2, <1>6, <1>7
<1>9. OneRowEach(c)
  BY <1>1, <1>7, <1>8 DEF OneRowEach
<1>10. \A d \in Directions : Total(c, key, d) = e[d] /\ Total(r, key, d) = cell[d]
  <2>1. \A d \in Directions : Total(c, At(c, i).key, d) = At(c, i)[d]
    BY <1>7, <1>9, TotalAt
  <2>2. \A d \in Directions : Total(r, At(r, i).key, d) = At(r, i)[d]
    BY <1>1, TotalAt
  <2>. QED BY <1>2, <1>6, <1>7, <2>1, <2>2
<1>11. ASSUME NEW k \in Key, NEW d \in Directions, k # key
       PROVE  Total(c, k, d) = Total(r, k, d)
  <2>1. \A j \in Rows(r) : At(r, j).key = k => j \in Rows(c) /\ At(c, j) = At(r, j)
    BY <1>2, <1>7, <1>11
  <2>2. \A j \in Rows(c) : At(c, j).key = k => j \in Rows(r) /\ At(c, j) = At(r, j)
    BY <1>2, <1>7, <1>8, <1>11
  <2>. QED BY <1>1, <1>9, <2>1, <2>2, SameTotal
<1>12. Total(c, key, dir) = Wrap(Total(a, key, dir) + len)
  BY <1>1, <1>6, <1>10
<1>13. ASSUME NEW k \in Key, NEW d \in Directions, <<k, d>> # <<key, dir>>
       PROVE  Total(c, k, d) = Total(a, k, d)
  <2>1. CASE k = key
    BY <1>1, <1>6, <1>10, <1>13, <2>1
  <2>2. CASE k # key
    BY <1>1, <1>11, <2>2
  <2>. QED BY <2>1, <2>2
<1>. QED BY <1>3, <1>7, <1>9, <1>12, <1>13

LEMMA TotalInt ==
  ASSUME NEW a, IsArray(a), Whole(a), OneRowEach(a), NEW k \in Key, NEW d \in Directions
  PROVE  Total(a, k, d) \in Int
<1>1. CASE \E i \in Rows(a) : At(a, i).key = k
  <2>1. PICK i \in Rows(a) : At(a, i).key = k
    BY <1>1
  <2>2. At(a, i) \in StatCell
    BY DEF Whole
  <2>3. At(a, i)[d] \in Int
    BY <2>2 DEF StatCell, Directions
  <2>. QED BY <2>1, <2>3, TotalAt
<1>2. CASE \A i \in Rows(a) : At(a, i).key # k
  BY <1>2, TotalNone
<1>. QED BY <1>1, <1>2

\* What RemoveLine prints of a key.
LEMMA PrintedTotal ==
  ASSUME NEW a, IsArray(a), Whole(a), OneRowEach(a), NEW k \in Key, NEW d \in Directions
  PROVE  LET lines == {e \in Printed(a) : e.key = k /\ e.dir = d}
         IN IF Total(a, k, d) = 0 THEN lines = {}
            ELSE \E e \in lines : lines = {e} /\ e.amount = Total(a, k, d)
<1>. DEFINE lines == {e \in Printed(a) : e.key = k /\ e.dir = d}
            Entry(i, dir) == [row |-> i, key |-> At(a, i).key, dir |-> dir,
                              amount |-> At(a, i)[dir]]
<1>1. \A e : e \in Printed(a) <=>
        \E i \in Rows(a), dir \in Directions : e = Entry(i, dir) /\ At(a, i)[dir] # 0
  BY DEF Printed
<1>2. CASE \A i \in Rows(a) : At(a, i).key # k
  <2>1. Total(a, k, d) = 0
    BY <1>2, TotalNone
  <2>2. lines = {}
    BY <1>1, <1>2
  <2>. QED BY <2>1, <2>2
<1>3. CASE \E i \in Rows(a) : At(a, i).key = k
  <2>1. PICK i \in Rows(a) : At(a, i).key = k
    BY <1>3
  <2>2. Total(a, k, d) = At(a, i)[d]
    BY <2>1, TotalAt
  <2>3. \A e \in lines : e = Entry(i, d) /\ At(a, i)[d] # 0
    BY <1>1, <2>1 DEF OneRowEach
  <2>4. At(a, i)[d] # 0 => Entry(i, d) \in lines
    BY <1>1, <2>1
  <2>. QED BY <2>2, <2>3, <2>4
<1>. QED BY <1>2, <1>3

LEMMA PrintedType ==
  ASSUME NEW a, IsArray(a), Whole(a)
  PROVE  Printed(a) \subseteq [row : Nat, key : Key, dir : Directions, amount : Int]
<1>1. ASSUME NEW i \in Rows(a), NEW d \in Directions
      PROVE  i \in Nat /\ At(a, i).key \in Key /\ At(a, i)[d] \in Int
  <2>1. At(a, i) \in StatCell
    BY DEF Whole
  <2>. QED BY <2>1 DEF StatCell, Directions, Rows
<1>. QED BY <1>1 DEF Printed
-----------------------------------------------------------------------------
(* The invariant.                                                          *)

LEMMA EmptyLine ==
  ASSUME NEW a, IsArray(a), a.m_Length = 0, a.m_nSize = 0
  PROVE  /\ Whole(a) /\ OneRowEach(a)
         /\ \A k \in Key, d \in Directions : Total(a, k, d) = 0
<1>1. Rows(a) = {}
  BY DEF Rows
<1>2. a.m_nSize = a.m_Length * a.m_BlkSize /\ a.m_nSize <= a.m_nMaxSize
  BY DEF IsArray
<1>. QED BY <1>1, <1>2, TotalNone DEF Whole, OneRowEach

LEMMA InitInv == Init => IInv
<1>. SUFFICES ASSUME Init PROVE IInv
  OBVIOUS
<1>1. mData = NewArray /\ IsArray(NewArray) /\ NewArray.m_Length = 0 /\ NewArray.m_nSize = 0
  <2>1. 1 \in Nat \ {0}
    OBVIOUS
  <2>2. IsArray(NewArray)
    BY <2>1, Empty
  <2>. QED BY <2>2 DEF Init, NewArray
<1>2. TypeOK
  BY <1>1, LineAssumption DEF Init, TypeOK
<1>3. Counted
  BY <1>1, EmptyLine, WrapZero DEF Init, Counted
<1>4. PrintedOnce /\ Idle
  BY <1>1 DEF Init, PrintedOnce, Idle
<1>. QED BY <1>1, <1>2, <1>3, <1>4, EmptyLine DEF IInv

\* A line is constructed empty.
LEMMA ConstructStep == ASSUME IInv, NEW blk \in CellSizes, Construct(blk) PROVE IInv'
<1>1. IsArray(mData') /\ mData'.m_Length = 0 /\ mData'.m_nSize = 0
  <2>1. blk \in Nat \ {0}
    BY LineAssumption
  <2>2. mData' = SetBlkSize(NewArray, blk)
    BY DEF Construct, RemoveAll, SetBlkSize, NewArray
  <2>. QED BY <2>1, <2>2, Empty
<1>2. Whole(mData') /\ OneRowEach(mData') /\ \A k \in Key, d \in Directions : Total(mData', k, d) = 0
  BY <1>1, EmptyLine
<1>3. line = "new" /\ line' = "filling" /\ UNCHANGED <<todo, packets, log, counted>>
  BY DEF Construct
<1>4. TypeOK'
  BY <1>1, <1>3 DEF IInv, TypeOK
<1>5. \A k \in Key, d \in Directions : Wrap(counted[k][d]) = 0
  <2>1. mData.m_Length = 0 /\ mData.m_nSize = 0 /\ IsArray(mData)
    BY <1>3 DEF IInv, Idle, TypeOK, Whole, IsArray
  <2>. QED BY <1>3, <2>1, EmptyLine DEF IInv, Counted
<1>6. Counted' /\ PrintedOnce' /\ Idle'
  BY <1>2, <1>3, <1>5 DEF Counted, PrintedOnce, Idle
<1>. QED BY <1>2, <1>4, <1>6 DEF IInv

LEMMA WriteStep ==
  ASSUME IInv, NEW src \in Addresses, NEW dst \in Addresses, NEW sport \in Ports,
         NEW dport \in Ports, NEW len \in Lengths, Write(src, dst, sport, dport, len)
  PROVE  IInv'
<1>1. UNCHANGED <<line, mData, log, counted>>
  BY DEF Write
<1>2. packets' \in 0 .. MaxPackets
  BY LineAssumption DEF Write, IInv, TypeOK
<1>. DEFINE C == [key : Key, dir : Directions, len : Lengths]
<1>3. todo' \in Seq(C)
  <2>1. InTo(src, sport, dport, len) \in Seq(C) /\ OutOf(dst, sport, dport, len) \in Seq(C)
    <3>1. mLocal \in Addresses
      BY DEF Addresses
    <3>2. /\ Change(<<src, sport, dport>>, "in", len) \in C
          /\ Change(<<mLocal, dport, 0>>, "in", len) \in C
          /\ Change(<<dst, dport, sport>>, "out", len) \in C
          /\ Change(<<mLocal, sport, 0>>, "out", len) \in C
      BY <3>1, LineAssumption DEF Change, Key, Directions
    <3>. HIDE DEF C
    <3>. QED BY <3>2 DEF InTo, OutOf
  <2>. HIDE DEF C
  <2>2. InTo(src, sport, dport, len) \o OutOf(dst, sport, dport, len) \in Seq(C)
    BY <2>1
  <2>. QED BY <2>1, <2>2 DEF Write
<1>4. TypeOK'
  BY <1>1, <1>2, <1>3 DEF IInv, TypeOK
<1>5. line = "filling"
  BY DEF Write
<1>. QED BY <1>1, <1>4, <1>5 DEF IInv, Counted, PrintedOnce, Idle

LEMMA UpdateStep == ASSUME IInv, Update PROVE IInv'
<1>. DEFINE u == Head(todo)
            C == [key : Key, dir : Directions, len : Lengths]
<1>1. todo \in Seq(C) /\ todo # <<>>
  BY DEF IInv, TypeOK, Update
<1>2. u \in C /\ Tail(todo) \in Seq(C)
  <2>. HIDE DEF C
  <2>. QED BY <1>1
<1>3. u.key \in Key /\ u.dir \in Directions /\ u.len \in Nat
  BY <1>2, LineAssumption
<1>4. /\ mData' = Updated(mData, u.key, u.dir, u.len)
      /\ counted' = [counted EXCEPT ![u.key][u.dir] = @ + u.len]
      /\ todo' = Tail(todo) /\ UNCHANGED <<line, packets, log>>
  BY DEF Update, Updated
<1>. HIDE DEF u, C
<1>5. line = "filling"
  BY <1>1 DEF IInv, Idle
<1>6. IsArray(mData) /\ Whole(mData) /\ OneRowEach(mData) /\ counted \in [Key -> [Directions -> Nat]]
  BY DEF IInv, TypeOK
<1>7. /\ IsArray(mData') /\ Whole(mData') /\ OneRowEach(mData')
      /\ Total(mData', u.key, u.dir) = Wrap(Total(mData, u.key, u.dir) + u.len)
      /\ \A k \in Key, d \in Directions :
           <<k, d>> # <<u.key, u.dir>> => Total(mData', k, d) = Total(mData, k, d)
  <2>1. u.len \in Int
    BY <1>3
  <2>. QED BY <1>3, <1>4, <1>6, <2>1, UpdatedRows
<1>8. /\ counted' \in [Key -> [Directions -> Nat]]
      /\ counted'[u.key][u.dir] = counted[u.key][u.dir] + u.len
      /\ \A k \in Key, d \in Directions :
           <<k, d>> # <<u.key, u.dir>> => counted'[k][d] = counted[k][d]
  BY <1>3, <1>4, <1>6
<1>9. Counted'
  <2>1. \A k \in Key, d \in Directions : Total(mData, k, d) = Wrap(counted[k][d])
    BY <1>5 DEF IInv, Counted
  <2>2. Total(mData', u.key, u.dir) = Wrap(counted'[u.key][u.dir])
    <3>1. counted[u.key][u.dir] \in Int /\ u.len \in Int
      BY <1>3, <1>6
    <3>. QED BY <1>3, <1>7, <1>8, <2>1, <3>1, WrapWrap
  <2>3. \A k \in Key, d \in Directions :
          <<k, d>> # <<u.key, u.dir>> => Total(mData', k, d) = Wrap(counted'[k][d])
    BY <1>7, <1>8, <2>1
  <2>. QED BY <2>2, <2>3 DEF Counted
<1>10. TypeOK'
  BY <1>2, <1>4, <1>7, <1>8 DEF IInv, TypeOK, C
<1>11. PrintedOnce' /\ Idle'
  BY <1>4, <1>5 DEF PrintedOnce, Idle
<1>. QED BY <1>7, <1>9, <1>10, <1>11 DEF IInv

LEMMA RemoveLineStep == ASSUME IInv, RemoveLine PROVE IInv'
<1>1. /\ IsArray(mData) /\ Whole(mData) /\ OneRowEach(mData) /\ line = "filling"
      /\ \A k \in Key, d \in Directions : Total(mData, k, d) = Wrap(counted[k][d])
  BY DEF IInv, TypeOK, Counted, RemoveLine
<1>2. /\ todo = <<>> /\ log' = Printed(mData) /\ line' = "deleted"
      /\ UNCHANGED <<todo, packets, counted>>
  BY DEF RemoveLine
<1>3. IsArray(mData') /\ mData'.m_Length = 0 /\ mData'.m_nSize = 0
  <2>1. mData' = SetBlkSize(NewArray, mData.m_BlkSize)
    BY DEF RemoveLine, RemoveAll, SetBlkSize
  <2>2. mData.m_BlkSize \in Nat \ {0}
    BY <1>1 DEF IsArray
  <2>. QED BY <2>1, <2>2, Empty
<1>4. TypeOK'
  BY <1>1, <1>2, <1>3, PrintedType DEF IInv, TypeOK
<1>5. PrintedOnce'
  BY <1>1, <1>2, PrintedTotal DEF PrintedOnce
<1>6. Whole(mData') /\ OneRowEach(mData')
  BY <1>3, EmptyLine
<1>. QED BY <1>2, <1>3, <1>4, <1>5, <1>6 DEF IInv, Counted, Idle

\* The invariant holds in every state of every behaviour.
THEOREM Invariance == Spec => []IInv
<1>1. ASSUME IInv, [Next]_vars PROVE IInv'
  <2>1. CASE UNCHANGED vars
    <3>1. TypeOK' /\ Whole(mData') /\ OneRowEach(mData')
      BY <1>1, <2>1 DEF vars, IInv, TypeOK
    <3>2. Counted' /\ Idle'
      BY <1>1, <2>1 DEF vars, IInv, Counted, Idle
    <3>3. PrintedOnce'
      BY <1>1, <2>1 DEF vars, IInv, PrintedOnce
    <3>. QED BY <3>1, <3>2, <3>3 DEF IInv
  <2>. QED BY <1>1, <2>1, ConstructStep, WriteStep, UpdateStep, RemoveLineStep DEF Next
<1>. QED BY <1>1, InitInv, PTL DEF Spec

\* Every variable keeps its type; in particular no row lies outside the memory.
THEOREM TypeCorrect == Spec => []TypeOK
<1>1. IInv => TypeOK
  BY DEF IInv
<1>. QED BY <1>1, Invariance, PTL

\* RemoveLine prints every counter that is not zero, once.
THEOREM PrintedOnceHolds == Spec => []PrintedOnce
<1>1. IInv => PrintedOnce
  BY DEF IInv
<1>. QED BY <1>1, Invariance, PTL
-----------------------------------------------------------------------------
(* The refinement.                                                         *)

LEMMA TotalsInit == Init => Totals!Init
<1>. SUFFICES ASSUME Init PROVE Totals!Init
  OBVIOUS
<1>1. IsArray(mData) /\ mData.m_Length = 0 /\ mData.m_nSize = 0
  <2>1. 1 \in Nat \ {0}
    OBVIOUS
  <2>. QED BY <2>1, Empty DEF Init, NewArray
<1>2. \A k \in Key, d \in Directions : Total(mData, k, d) = 0
  BY <1>1, EmptyLine
<1>3. TotalNow = [k \in Key |-> [d \in Directions |-> 0]]
  BY <1>2 DEF Init, TotalNow
<1>4. Reported = {} /\ line # "deleted"
  BY DEF Init, Reported
<1>. QED BY <1>3, <1>4 DEF Totals!Init, Directions, Totals!Directions

LEMMA TotalsConstruct ==
  ASSUME IInv, IInv', NEW blk \in CellSizes, Construct(blk)
  PROVE  UNCHANGED Totals!vars
<1>1. line = "new" /\ line' = "filling" /\ counted' = counted /\ log' = log
  BY DEF Construct
<1>2. \A k \in Key, d \in Directions : Total(mData', k, d) = Total(mData, k, d)
  BY <1>1 DEF IInv, Counted
<1>3. TotalNow' = TotalNow
  BY <1>1, <1>2 DEF TotalNow
<1>4. Reported' = Reported
  BY <1>1 DEF Reported
<1>. QED BY <1>1, <1>3, <1>4 DEF Totals!vars

LEMMA TotalsUpdate == ASSUME IInv, Update PROVE Totals!Next
<1>. DEFINE u == Head(todo)
            C == [key : Key, dir : Directions, len : Lengths]
<1>1. todo \in Seq(C) /\ todo # <<>>
  BY DEF IInv, TypeOK, Update
<1>2. u \in C
  <2>. HIDE DEF C
  <2>. QED BY <1>1
<1>3. u.key \in Key /\ u.dir \in Directions /\ u.len \in Lengths /\ u.len \in Int
  <2>. HIDE DEF u
  <2>1. u.key \in Key /\ u.dir \in Directions /\ u.len \in Lengths
    BY <1>2
  <2>2. u.len \in Nat
    BY <2>1, LineAssumption
  <2>. QED BY <2>1, <2>2
<1>4. mData' = Updated(mData, u.key, u.dir, u.len) /\ UNCHANGED <<line, log>>
  BY DEF Update, Updated
<1>. HIDE DEF u, C
<1>5. line = "filling"
  BY <1>1 DEF IInv, Idle
<1>6. /\ Total(mData', u.key, u.dir) = Wrap(Total(mData, u.key, u.dir) + u.len)
      /\ \A k \in Key, d \in Directions :
           <<k, d>> # <<u.key, u.dir>> => Total(mData', k, d) = Total(mData, k, d)
  <2>1. IsArray(mData) /\ Whole(mData) /\ OneRowEach(mData)
    BY DEF IInv, TypeOK
  <2>. QED BY <1>3, <1>4, <2>1, UpdatedRows
<1>. DEFINE Old(k, d) == Total(mData, k, d)
            New(k, d) == Total(mData', k, d)
<1>7. TotalNow = [k \in Key |-> [d \in Directions |-> Old(k, d)]]
  BY <1>5 DEF TotalNow
<1>8. TotalNow' = [k \in Key |-> [d \in Directions |-> New(k, d)]]
  BY <1>4, <1>5 DEF TotalNow
<1>. HIDE DEF Old, New
<1>9. /\ New(u.key, u.dir) = Wrap(Old(u.key, u.dir) + u.len)
      /\ \A k \in Key, d \in Directions : <<k, d>> # <<u.key, u.dir>> => New(k, d) = Old(k, d)
  BY <1>6 DEF Old, New
<1>10. TotalNow' = [TotalNow EXCEPT ![u.key][u.dir] = Wrap(@ + u.len)]
  BY <1>3, <1>7, <1>8, <1>9
<1>11. Reported' = Reported
  BY <1>4 DEF Reported
<1>12. Totals!Count(u.key, u.dir, u.len)
  BY <1>4, <1>5, <1>10, <1>11 DEF Totals!Count
<1>. QED BY <1>3, <1>12 DEF Totals!Next, Directions, Totals!Directions

LEMMA TotalsReport == ASSUME IInv, RemoveLine PROVE Totals!Next
<1>1. IsArray(mData) /\ Whole(mData) /\ OneRowEach(mData) /\ line = "filling"
  BY DEF IInv, TypeOK, RemoveLine
<1>2. log' = Printed(mData) /\ line' = "deleted"
  BY DEF RemoveLine
<1>3. ASSUME NEW k \in Key, NEW d \in Directions
      PROVE  LET lines == {e \in log' : e.key = k /\ e.dir = d}
             IN IF Total(mData, k, d) = 0 THEN lines = {}
                ELSE \E e \in lines : lines = {e} /\ e.amount = Total(mData, k, d)
  BY <1>1, <1>2, PrintedTotal
<1>4. \A k \in Key, d \in Directions : InLog(k, d)' = Total(mData, k, d)
  BY <1>3 DEF InLog
<1>5. TotalNow' = TotalNow
  BY <1>1, <1>2, <1>4 DEF TotalNow
<1>6. \A k \in Key, d \in Directions : TotalNow[k][d] = Total(mData, k, d)
  BY <1>1 DEF TotalNow
<1>7. log' \subseteq [row : Nat, key : Key, dir : Directions, amount : Int]
  BY <1>1, <1>2, PrintedType
<1>8. Reported' = {r \in {<<k, d, TotalNow[k][d]>> : k \in Key, d \in Directions} : r[3] # 0}
  <2>1. ASSUME NEW e \in log'
        PROVE  /\ e.key \in Key /\ e.dir \in Directions
               /\ e.amount = TotalNow[e.key][e.dir] /\ e.amount # 0
    <3>1. e.key \in Key /\ e.dir \in Directions
      BY <1>7
    <3>. QED BY <1>3, <1>6, <3>1
  <2>2. ASSUME NEW k \in Key, NEW d \in Directions, TotalNow[k][d] # 0
        PROVE  \E e \in log' : <<e.key, e.dir, e.amount>> = <<k, d, TotalNow[k][d]>>
    BY <1>3, <1>6, <2>2
  <2>3. Reported' = {<<e.key, e.dir, e.amount>> : e \in log'}
    BY DEF Reported
  <2>. QED BY <2>1, <2>2, <2>3
<1>9. Totals!Report
  BY <1>1, <1>2, <1>5, <1>8 DEF Totals!Report, Directions, Totals!Directions
<1>. QED BY <1>9 DEF Totals!Next

\* The line implements KeyedTotals: its growing array of rows counts and reports
\* like a table with an entry for every key.
THEOREM Implements == Spec => TotalsSpec
<1>1. IInv /\ IInv' /\ [Next]_vars => [Totals!Next]_(Totals!vars)
  <2>. SUFFICES ASSUME IInv, IInv', [Next]_vars PROVE [Totals!Next]_(Totals!vars)
    OBVIOUS
  <2>1. ASSUME NEW src \in Addresses, NEW dst \in Addresses, NEW sport \in Ports,
               NEW dport \in Ports, NEW len \in Lengths, Write(src, dst, sport, dport, len)
        PROVE  UNCHANGED Totals!vars
    BY <2>1 DEF Write, Totals!vars, TotalNow, Reported, InLog
  <2>2. CASE UNCHANGED vars
    BY <2>2 DEF vars, Totals!vars, TotalNow, Reported, InLog
  <2>. QED BY <2>1, <2>2, TotalsConstruct, TotalsUpdate, TotalsReport DEF Next
<1>. QED BY <1>1, TotalsInit, Invariance, PTL DEF Spec, TotalsSpec, Totals!Spec
===============================================================================
