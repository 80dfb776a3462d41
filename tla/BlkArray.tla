------------------------------- MODULE BlkArray -------------------------------
(***************************************************************************)
(* CBlkArray (src/src/BlkArray.cpp): an array of elements of m_BlkSize     *)
(* bytes in memory that grows.  m_nSize and m_nMaxSize count bytes,        *)
(* m_Length counts elements.                                               *)
(*                                                                         *)
(* The memory is a function of the bytes allocated.  The first byte of an  *)
(* element holds the element, and every other byte of it holds Rest.       *)
(* m_pData is null exactly when m_nMaxSize is 0, and m_nSize is 0 then.    *)
(* SetAt and RemoveAt have no caller.                                      *)
(***************************************************************************)
EXTENDS Integers

CONSTANTS
  Zero,  \* a byte that was set to zero
  Junk,  \* a byte that was allocated and not written since
  Rest   \* a byte of an element that is not its first

NULL == [b \in {} |-> Zero]

NewArray == [m_pData |-> NULL, m_nSize |-> 0, m_nMaxSize |-> 0, m_Length |-> 0,
             m_BlkSize |-> 1]

SetBlkSize(a, blk) == [NewArray EXCEPT !.m_BlkSize = blk]

\* Mutated RemoveAll: the capacity is kept.
RemoveAllKept(a) == [a EXCEPT !.m_pData = NULL, !.m_nSize = 0, !.m_Length = 0]

RemoveAll(a) == SetBlkSize(a, a.m_BlkSize)

\* How much SetSize(n) allocates when n bytes do not fit.
NewMax(a, n) ==
  LET eighth == a.m_nSize \div 8
      nGrowBy == IF eighth < 4 THEN 4 ELSE IF eighth > 1024 THEN 1024 ELSE eighth
  IN IF n < a.m_nMaxSize + nGrowBy THEN a.m_nMaxSize + nGrowBy ELSE n

\* SetSize(n) for n > 0.  It leaves m_nSize to its caller.
SetSize(a, n) ==
  IF a.m_nMaxSize = 0
  THEN [a EXCEPT !.m_pData = [b \in 0 .. (n - 1) |-> Zero], !.m_nMaxSize = n]
  ELSE IF n <= a.m_nMaxSize
  THEN [a EXCEPT !.m_pData =
          [b \in DOMAIN @ |-> IF b \in a.m_nSize .. (n - 1) \cup n .. (a.m_nSize - 1)
                              THEN Zero ELSE @[b]]]
  ELSE [a EXCEPT !.m_pData =
          [b \in 0 .. (NewMax(a, n) - 1) |->
             IF b < a.m_nSize THEN a.m_pData[b] ELSE IF b < n THEN Zero ELSE Junk],
        !.m_nMaxSize = NewMax(a, n)]

\* An element written over the bytes from "at" on.
Store(a, at, e) ==
  [a EXCEPT !.m_pData =
     [b \in DOMAIN @ |-> IF b = at THEN e
                         ELSE IF b \in (at + 1) .. (at + a.m_BlkSize - 1) THEN Rest
                         ELSE @[b]]]

\* Mutated Room: memory is added once it has run out.
RoomLate(a) ==
  IF a.m_nSize > a.m_nMaxSize \/ a.m_nMaxSize = 0
  THEN SetSize(a, a.m_nSize + a.m_BlkSize * 4) ELSE a

\* Add makes room for one element and three more when the last is reached.
Room(a) ==
  IF a.m_nSize + a.m_BlkSize >= a.m_nMaxSize
  THEN SetSize(a, a.m_nSize + a.m_BlkSize * 4) ELSE a

Add(a, e) ==
  [Store(Room(a), a.m_nSize, e) EXCEPT !.m_nSize = a.m_nSize + a.m_BlkSize,
                                       !.m_Length = a.m_Length + 1]

\* GetData() as an array of elements.
At(a, i) == a.m_pData[i * a.m_BlkSize]
===============================================================================
