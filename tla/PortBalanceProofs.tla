--------------------------- MODULE PortBalanceProofs ---------------------------
(***************************************************************************)
(* That the rows of a minute balance: the row of a local port holds what   *)
(* the rows of its peers hold together.  First what MapThenSumSet computes *)
(* for every finite set, by induction over its subsets, then the invariant *)
(* that the counts will balance once the packet at hand is booked.         *)
(***************************************************************************)
EXTENDS MCGatherLine, GatherLineProofs, FiniteSetTheorems

-----------------------------------------------------------------------------
(* Sums over a finite set.                                                 *)

\* Induction over the subsets of a finite set, with a set for the predicate.
LEMMA SubsetInduction ==
  ASSUME NEW S, IsFiniteSet(S), NEW F,
         \A T \in SUBSET S : (\A U \in SUBSET T : U # T => U \in F) => T \in F
  PROVE  \A T \in SUBSET S : T \in F
<1>. DEFINE Bad == {T \in SUBSET S : T \notin F}
<1>1. SUFFICES ASSUME Bad # {} PROVE FALSE
  OBVIOUS
<1>2. FiniteSubsetsOf(S) = SUBSET S
  BY FS_FiniteSubsetsOfFinite
<1>3. IsWellFoundedOn(StrictSubsetOrdering(S), FiniteSubsetsOf(S))
  BY FS_StrictSubsetOrderingWellFounded
<1>4. Bad \subseteq FiniteSubsetsOf(S)
  BY <1>2
<1>. HIDE DEF Bad
<1>5. PICK T \in Bad : \A U \in Bad : <<U, T>> \notin StrictSubsetOrdering(S)
  BY <1>1, <1>3, <1>4, WFMin
<1>6. T \in SUBSET S /\ T \notin F
  BY <1>5 DEF Bad
<1>7. ASSUME NEW U \in SUBSET T, U # T, U \notin F PROVE FALSE
  <2>1. U \in Bad
    BY <1>6, <1>7 DEF Bad
  <2>2. <<U, T>> \in StrictSubsetOrdering(S)
    BY <1>6, <1>7 DEF StrictSubsetOrdering
  <2>. QED BY <1>5, <2>1, <2>2
<1>. QED BY <1>6, <1>7

\* The sum of a function, as MapThenSumSet computes it.
Picked(s) == CHOOSE x \in s : TRUE

SumOf(h, S) == MapThenSumSet(LAMBDA k : h[k], S)

\* The recursion behind it, on the subsets of S.
Sums(g, h, S) ==
  g = [s \in SUBSET S |-> IF s = {} THEN 0 ELSE h[Picked(s)] + g[s \ {Picked(s)}]]

LEMMA PickedIn == ASSUME NEW s, s # {} PROVE Picked(s) \in s
BY DEF Picked

LEMMA SumsAt ==
  ASSUME NEW S, NEW h, NEW g, Sums(g, h, S), NEW s \in SUBSET S
  PROVE  g[s] = IF s = {} THEN 0 ELSE h[Picked(s)] + g[s \ {Picked(s)}]
<1>. DEFINE v(t) == IF t = {} THEN 0 ELSE h[Picked(t)] + g[t \ {Picked(t)}]
<1>1. g = [t \in SUBSET S |-> v(t)]
  BY DEF Sums
<1>. HIDE DEF v
<1>2. g[s] = v(s)
  BY <1>1
<1>. QED BY <1>2 DEF v

\* Two such recursions agree where both are defined.
LEMMA SumsAgree ==
  ASSUME NEW S, NEW T, IsFiniteSet(S), NEW h, NEW f, NEW g,
         Sums(f, h, S), Sums(g, h, T)
  PROVE  \A s \in SUBSET S : s \subseteq T => f[s] = g[s]
<1>. DEFINE F == {s \in SUBSET S : s \subseteq T => f[s] = g[s]}
<1>1. ASSUME NEW s \in SUBSET S, \A u \in SUBSET s : u # s => u \in F
      PROVE  s \in F
  <2>. SUFFICES ASSUME s \subseteq T PROVE f[s] = g[s]
    OBVIOUS
  <2>1. CASE s = {}
    BY <2>1, SumsAt
  <2>2. CASE s # {}
    <3>1. Picked(s) \in s
      BY <2>2, PickedIn
    <3>2. f[s \ {Picked(s)}] = g[s \ {Picked(s)}]
      <4>1. s \ {Picked(s)} \in F
        BY <1>1, <3>1
      <4>. QED BY <4>1
    <3>3. f[s] = h[Picked(s)] + f[s \ {Picked(s)}]
      BY <2>2, SumsAt
    <3>4. g[s] = h[Picked(s)] + g[s \ {Picked(s)}]
      BY <2>2, SumsAt
    <3>. QED BY <3>2, <3>3, <3>4
  <2>. QED BY <2>1, <2>2
<1>. HIDE DEF F
<1>2. \A s \in SUBSET S : s \in F
  BY <1>1, SubsetInduction
<1>. QED BY <1>2 DEF F

\* There is one.
LEMMA SumsExist ==
  ASSUME NEW S, IsFiniteSet(S), NEW h
  PROVE  \E g : Sums(g, h, S)
<1>. DEFINE F == {T \in SUBSET S : \E g : Sums(g, h, T)}
<1>1. ASSUME NEW T \in SUBSET S, \A U \in SUBSET T : U # T => U \in F
      PROVE  T \in F
  <2>. DEFINE sub(U) == CHOOSE g : Sums(g, h, U)
              part(s) == IF s = {} THEN 0
                         ELSE h[Picked(s)] + sub(s \ {Picked(s)})[s \ {Picked(s)}]
              g == [s \in SUBSET T |-> part(s)]
  <2>1. \A U \in SUBSET T : U # T => Sums(sub(U), h, U)
    BY <1>1
  <2>. HIDE DEF sub
  <2>2. \A U \in SUBSET T : U # T => g[U] = sub(U)[U]
    <3>. SUFFICES ASSUME NEW U \in SUBSET T, U # T PROVE g[U] = sub(U)[U]
      OBVIOUS
    <3>1. g[U] = part(U)
      OBVIOUS
    <3>2. CASE U = {}
      <4>1. sub(U)[U] = 0
        BY <2>1, <3>2, SumsAt
      <4>. QED BY <3>1, <3>2, <4>1
    <3>3. CASE U # {}
      <4>. DEFINE V == U \ {Picked(U)}
      <4>1. V \in SUBSET U /\ V \in SUBSET T /\ V # T
        BY <3>3, PickedIn
      <4>2. Sums(sub(V), h, V) /\ Sums(sub(U), h, U)
        BY <2>1, <4>1
      <4>3. IsFiniteSet(V)
        BY <4>1, FS_Subset
      <4>4. sub(V)[V] = sub(U)[V]
        <5>. HIDE DEF V
        <5>1. V \in SUBSET V
          OBVIOUS
        <5>. QED BY <4>1, <4>2, <4>3, <5>1, SumsAgree
      <4>5. sub(U)[U] = h[Picked(U)] + sub(U)[V]
        BY <3>3, <4>2, SumsAt
      <4>. QED BY <3>1, <3>3, <4>4, <4>5
    <3>. QED BY <3>2, <3>3
  <2>3. \A s \in SUBSET T :
          part(s) = IF s = {} THEN 0 ELSE h[Picked(s)] + g[s \ {Picked(s)}]
    <3>. SUFFICES ASSUME NEW s \in SUBSET T, s # {}
                  PROVE  g[s \ {Picked(s)}] = sub(s \ {Picked(s)})[s \ {Picked(s)}]
      OBVIOUS
    <3>1. s \ {Picked(s)} \in SUBSET T /\ s \ {Picked(s)} # T
      BY PickedIn
    <3>. HIDE DEF g
    <3>. QED BY <2>2, <3>1
  <2>4. Sums(g, h, T)
    <3>1. g = [s \in SUBSET T |-> part(s)]
      OBVIOUS
    <3>. HIDE DEF g, part
    <3>. QED BY <2>3, <3>1 DEF Sums
  <2>. QED BY <2>4
<1>. HIDE DEF F
<1>2. \A T \in SUBSET S : T \in F
  BY <1>1, SubsetInduction
<1>3. S \in F
  BY <1>2
<1>. QED BY <1>3 DEF F

LEMMA SumOfSums ==
  ASSUME NEW S, IsFiniteSet(S), NEW h, NEW g, Sums(g, h, S), NEW T \in SUBSET S
  PROVE  SumOf(h, T) = g[T]
<1>. DEFINE it == CHOOSE f : Sums(f, h, T)
<1>1. IsFiniteSet(T)
  BY FS_Subset
<1>2. Sums(it, h, T)
  BY <1>1, SumsExist
<1>3. SumOf(h, T) = it[T]
  BY DEF SumOf, MapThenSumSet, MapThenFoldSet, Sums, Picked
<1>. HIDE DEF it
<1>4. T \in SUBSET T
  OBVIOUS
<1>5. it[T] = g[T]
  BY <1>1, <1>2, <1>4, SumsAgree
<1>. QED BY <1>3, <1>5

\* What the sum is.
LEMMA SumEmpty == ASSUME NEW h PROVE SumOf(h, {}) = 0
<1>1. IsFiniteSet({})
  BY FS_EmptySet
<1>2. PICK g : Sums(g, h, {})
  BY <1>1, SumsExist
<1>3. SumOf(h, {}) = g[{}]
  BY <1>1, <1>2, SumOfSums
<1>. QED BY <1>2, <1>3, SumsAt

LEMMA SumPicked ==
  ASSUME NEW S, IsFiniteSet(S), S # {}, NEW h
  PROVE  SumOf(h, S) = h[Picked(S)] + SumOf(h, S \ {Picked(S)})
<1>1. PICK g : Sums(g, h, S)
  BY SumsExist
<1>2. S \ {Picked(S)} \in SUBSET S /\ S \in SUBSET S
  OBVIOUS
<1>3. SumOf(h, S) = g[S] /\ SumOf(h, S \ {Picked(S)}) = g[S \ {Picked(S)}]
  BY <1>1, <1>2, SumOfSums
<1>. QED BY <1>1, <1>2, <1>3, SumsAt

LEMMA SumInt ==
  ASSUME NEW S, IsFiniteSet(S), NEW h, \A k \in S : h[k] \in Int
  PROVE  SumOf(h, S) \in Int
<1>. DEFINE F == {T \in SUBSET S : SumOf(h, T) \in Int}
<1>1. ASSUME NEW T \in SUBSET S, \A U \in SUBSET T : U # T => U \in F
      PROVE  T \in F
  <2>1. CASE T = {}
    BY <2>1, SumEmpty
  <2>2. CASE T # {}
    <3>1. Picked(T) \in T
      BY <2>2, PickedIn
    <3>2. SumOf(h, T \ {Picked(T)}) \in Int
      BY <1>1, <3>1
    <3>3. SumOf(h, T) = h[Picked(T)] + SumOf(h, T \ {Picked(T)})
      BY <2>2, FS_Subset, SumPicked
    <3>. QED BY <3>1, <3>2, <3>3
  <2>. QED BY <2>1, <2>2
<1>. HIDE DEF F
<1>2. \A T \in SUBSET S : T \in F
  BY <1>1, SubsetInduction
<1>. QED BY <1>2 DEF F

\* Any element may be taken out first.
LEMMA SumRemove ==
  ASSUME NEW S, IsFiniteSet(S), NEW h, \A k \in S : h[k] \in Int, NEW e \in S
  PROVE  SumOf(h, S) = h[e] + SumOf(h, S \ {e})
<1>. DEFINE F == {T \in SUBSET S : \A x \in T : SumOf(h, T) = h[x] + SumOf(h, T \ {x})}
<1>1. ASSUME NEW T \in SUBSET S, \A U \in SUBSET T : U # T => U \in F
      PROVE  T \in F
  <2>. SUFFICES ASSUME NEW x \in T PROVE SumOf(h, T) = h[x] + SumOf(h, T \ {x})
    OBVIOUS
  <2>. DEFINE p == Picked(T)
  <2>1. p \in T
    BY PickedIn
  <2>2. SumOf(h, T) = h[p] + SumOf(h, T \ {p})
    BY FS_Subset, SumPicked
  <2>. HIDE DEF p
  <2>3. CASE x = p
    BY <2>2, <2>3
  <2>4. CASE x # p
    <3>1. T \ {p} \in F /\ T \ {x} \in F
      BY <1>1, <2>1
    <3>2. SumOf(h, T \ {p}) = h[x] + SumOf(h, (T \ {p}) \ {x})
      <4>1. x \in T \ {p}
        BY <2>4
      <4>. QED BY <3>1, <4>1
    <3>3. SumOf(h, T \ {x}) = h[p] + SumOf(h, (T \ {x}) \ {p})
      <4>1. p \in T \ {x}
        BY <2>1, <2>4
      <4>. QED BY <3>1, <4>1
    <3>4. (T \ {p}) \ {x} = (T \ {x}) \ {p}
      OBVIOUS
    <3>5. SumOf(h, (T \ {p}) \ {x}) \in Int
      <4>1. (T \ {p}) \ {x} \in SUBSET S
        OBVIOUS
      <4>2. IsFiniteSet((T \ {p}) \ {x})
        BY <4>1, FS_Subset
      <4>. QED BY <4>1, <4>2, SumInt
    <3>6. h[p] \in Int /\ h[x] \in Int
      BY <2>1
    <3>. DEFINE rest == SumOf(h, (T \ {p}) \ {x})
    <3>7. SumOf(h, T) = h[p] + (h[x] + rest)
      BY <2>2, <3>2
    <3>8. h[x] + SumOf(h, T \ {x}) = h[x] + (h[p] + rest)
      BY <3>3, <3>4
    <3>9. rest \in Int
      BY <3>5
    <3>. HIDE DEF rest
    <3>10. h[p] + (h[x] + rest) = h[x] + (h[p] + rest)
      BY <3>6, <3>9
    <3>. QED BY <3>7, <3>8, <3>10
  <2>. QED BY <2>3, <2>4
<1>. HIDE DEF F
<1>2. \A T \in SUBSET S : T \in F
  BY <1>1, SubsetInduction
<1>. QED BY <1>2 DEF F

LEMMA SumSame ==
  ASSUME NEW S, IsFiniteSet(S), NEW f, NEW h, \A k \in S : f[k] = h[k]
  PROVE  SumOf(f, S) = SumOf(h, S)
<1>. DEFINE F == {T \in SUBSET S : SumOf(f, T) = SumOf(h, T)}
<1>1. ASSUME NEW T \in SUBSET S, \A U \in SUBSET T : U # T => U \in F
      PROVE  T \in F
  <2>1. CASE T = {}
    BY <2>1, SumEmpty
  <2>2. CASE T # {}
    <3>1. Picked(T) \in T
      BY <2>2, PickedIn
    <3>2. SumOf(f, T \ {Picked(T)}) = SumOf(h, T \ {Picked(T)})
      <4>1. T \ {Picked(T)} \in F
        BY <1>1, <3>1
      <4>. QED BY <4>1
    <3>3. /\ SumOf(f, T) = f[Picked(T)] + SumOf(f, T \ {Picked(T)})
          /\ SumOf(h, T) = h[Picked(T)] + SumOf(h, T \ {Picked(T)})
      BY <2>2, FS_Subset, SumPicked
    <3>. QED BY <3>1, <3>2, <3>3
  <2>. QED BY <2>1, <2>2
<1>. HIDE DEF F
<1>2. \A T \in SUBSET S : T \in F
  BY <1>1, SubsetInduction
<1>. QED BY <1>2 DEF F

LEMMA SumZero ==
  ASSUME NEW S, IsFiniteSet(S), NEW h, \A k \in S : h[k] = 0
  PROVE  SumOf(h, S) = 0
<1>. DEFINE F == {T \in SUBSET S : SumOf(h, T) = 0}
<1>1. ASSUME NEW T \in SUBSET S, \A U \in SUBSET T : U # T => U \in F
      PROVE  T \in F
  <2>1. CASE T = {}
    BY <2>1, SumEmpty
  <2>2. CASE T # {}
    <3>1. Picked(T) \in T
      BY <2>2, PickedIn
    <3>2. SumOf(h, T \ {Picked(T)}) = 0
      BY <1>1, <3>1
    <3>3. SumOf(h, T) = h[Picked(T)] + SumOf(h, T \ {Picked(T)})
      BY <2>2, FS_Subset, SumPicked
    <3>. QED BY <3>1, <3>2, <3>3
  <2>. QED BY <2>1, <2>2
<1>. HIDE DEF F
<1>2. \A T \in SUBSET S : T \in F
  BY <1>1, SubsetInduction
<1>. QED BY <1>2 DEF F

\* Wrapping the summands first changes nothing once the sum is wrapped.
LEMMA SumWraps ==
  ASSUME NEW S, IsFiniteSet(S), NEW f, NEW h,
         \A k \in S : h[k] \in Int /\ f[k] = Wrap(h[k])
  PROVE  Wrap(SumOf(f, S)) = Wrap(SumOf(h, S))
<1>. DEFINE F == {T \in SUBSET S : Wrap(SumOf(f, T)) = Wrap(SumOf(h, T))}
<1>1. ASSUME NEW T \in SUBSET S, \A U \in SUBSET T : U # T => U \in F
      PROVE  T \in F
  <2>1. CASE T = {}
    BY <2>1, SumEmpty
  <2>2. CASE T # {}
    <3>. DEFINE p == Picked(T)
                U == T \ {p}
    <3>1. p \in T /\ h[p] \in Int /\ f[p] = Wrap(h[p]) /\ f[p] \in Int
      BY <2>2, PickedIn, WrapInt
    <3>2. IsFiniteSet(T) /\ IsFiniteSet(U) /\ U \in SUBSET S
      BY FS_Subset
    <3>3. /\ SumOf(f, T) = f[p] + SumOf(f, U)
          /\ SumOf(h, T) = h[p] + SumOf(h, U)
      BY <2>2, <3>2, SumPicked
    <3>4. SumOf(f, U) \in Int /\ SumOf(h, U) \in Int
      <4>1. \A k \in U : h[k] \in Int /\ f[k] \in Int
        BY WrapInt
      <4>. HIDE DEF U
      <4>. QED BY <3>2, <4>1, SumInt
    <3>5. Wrap(SumOf(f, U)) = Wrap(SumOf(h, U))
      <4>1. U \in F
        BY <1>1, <3>1
      <4>. QED BY <4>1
    <3>. HIDE DEF p, U
    <3>6. Wrap(f[p] + SumOf(f, U)) = Wrap(h[p] + SumOf(f, U))
      BY <3>1, <3>4, WrapWrap
    <3>7. Wrap(SumOf(f, U) + h[p]) = Wrap(SumOf(h, U) + h[p])
      <4>1. /\ Wrap(Wrap(SumOf(f, U)) + h[p]) = Wrap(SumOf(f, U) + h[p])
            /\ Wrap(Wrap(SumOf(h, U)) + h[p]) = Wrap(SumOf(h, U) + h[p])
        BY <3>1, <3>4, WrapWrap
      <4>. QED BY <3>5, <4>1
    <3>8. /\ h[p] + SumOf(f, U) = SumOf(f, U) + h[p]
          /\ h[p] + SumOf(h, U) = SumOf(h, U) + h[p]
      BY <3>1, <3>4
    <3>. QED BY <3>3, <3>6, <3>7, <3>8
  <2>. QED BY <2>1, <2>2
<1>. HIDE DEF F
<1>2. \A T \in SUBSET S : T \in F
  BY <1>1, SubsetInduction
<1>. QED BY <1>2 DEF F
-----------------------------------------------------------------------------
(* The sums of the line.                                                   *)

LEMMA KeysFinite == ASSUME NEW q PROVE IsFiniteSet(KeysOf(q))
<1>. DEFINE Pairs == (Addresses \X Ports) \X Ports
            f == [x \in Pairs |-> <<x[1][1], x[1][2], x[2]>>]
<1>1. IsFiniteSet(Addresses) /\ IsFiniteSet(Ports)
  BY FiniteAssumption, FS_AddElement DEF Addresses
<1>2. IsFiniteSet(Pairs)
  <2>1. IsFiniteSet(Addresses \X Ports)
    BY <1>1, FS_Product
  <2>. QED BY <1>1, <2>1, FS_Product
<1>3. f \in Surjection(Pairs, Key)
  <2>1. f \in [Pairs -> Key]
    BY DEF Key
  <2>2. ASSUME NEW k \in Key PROVE \E x \in Pairs : f[x] = k
    <3>1. <<<<k[1], k[2]>>, k[3]>> \in Pairs
      BY DEF Key
    <3>2. f[<<<<k[1], k[2]>>, k[3]>>] = k
      BY <3>1 DEF Key
    <3>. QED BY <3>1, <3>2
  <2>. HIDE DEF f, Pairs
  <2>. QED BY <2>1, <2>2 DEF Surjection
<1>. HIDE DEF f, Pairs
<1>4. IsFiniteSet(Key)
  BY <1>2, <1>3, FS_Surjection
<1>5. KeysOf(q) \in SUBSET Key
  BY DEF KeysOf
<1>. QED BY <1>4, <1>5, FS_Subset

RowTotals(d) == [k \in Key |-> Total(mData, k, d)]
CountedTotals(c, d) == [k \in Key |-> c[k][d]]

LEMMA SumIsSum == ASSUME NEW q, NEW d PROVE Sum(q, d) = SumOf(RowTotals(d), KeysOf(q))
<1>. DEFINE K == KeysOf(q)
            h == RowTotals(d)
            it == CHOOSE g : g = [s \in SUBSET K |->
                    IF s = {} THEN 0
                    ELSE Total(mData, Picked(s), d) + g[s \ {Picked(s)}]]
<1>1. Sum(q, d) = it[K]
  BY DEF Sum, MapThenSumSet, MapThenFoldSet, Picked
<1>2. \A k \in K : h[k] = Total(mData, k, d)
  BY DEF KeysOf, RowTotals
<1>3. IsFiniteSet(K)
  BY KeysFinite
<1>4. PICK g : Sums(g, h, K)
  BY <1>3, SumsExist
<1>. HIDE DEF K, h
<1>5. \A f : Sums(f, h, K) <=> f = [s \in SUBSET K |->
               IF s = {} THEN 0 ELSE Total(mData, Picked(s), d) + f[s \ {Picked(s)}]]
  <2>. TAKE f
  <2>1. ASSUME NEW s \in SUBSET K, s # {} PROVE h[Picked(s)] = Total(mData, Picked(s), d)
    BY <1>2, <2>1, PickedIn
  <2>. QED BY <2>1 DEF Sums
<1>6. Sums(it, h, K)
  BY <1>4, <1>5
<1>. HIDE DEF it
<1>7. SumOf(h, K) = it[K]
  BY <1>3, <1>6, SumOfSums
<1>. QED BY <1>1, <1>7 DEF K, h

LEMMA CountedIsSum ==
  ASSUME NEW c, NEW q, NEW d
  PROVE  CountedSum(c, q, d) = SumOf(CountedTotals(c, d), KeysOf(q))
<1>. DEFINE K == KeysOf(q)
            h == CountedTotals(c, d)
            it == CHOOSE g : g = [s \in SUBSET K |->
                    IF s = {} THEN 0 ELSE c[Picked(s)][d] + g[s \ {Picked(s)}]]
<1>1. CountedSum(c, q, d) = it[K]
  BY DEF CountedSum, MapThenSumSet, MapThenFoldSet, Picked
<1>2. \A k \in K : h[k] = c[k][d]
  BY DEF KeysOf, CountedTotals
<1>3. IsFiniteSet(K)
  BY KeysFinite
<1>4. PICK g : Sums(g, h, K)
  BY <1>3, SumsExist
<1>. HIDE DEF K, h
<1>5. \A f : Sums(f, h, K) <=> f = [s \in SUBSET K |->
               IF s = {} THEN 0 ELSE c[Picked(s)][d] + f[s \ {Picked(s)}]]
  <2>. TAKE f
  <2>1. ASSUME NEW s \in SUBSET K, s # {} PROVE h[Picked(s)] = c[Picked(s)][d]
    BY <1>2, <2>1, PickedIn
  <2>. QED BY <2>1 DEF Sums
<1>6. Sums(it, h, K)
  BY <1>4, <1>5
<1>. HIDE DEF it
<1>7. SumOf(h, K) = it[K]
  BY <1>3, <1>6, SumOfSums
<1>. QED BY <1>1, <1>7 DEF K, h

LEMMA CountedInt ==
  ASSUME NEW c \in [Key -> [Directions -> Nat]], NEW q, NEW d \in Directions
  PROVE  CountedSum(c, q, d) \in Int
<1>. DEFINE h == CountedTotals(c, d)
            K == KeysOf(q)
<1>1. \A k \in K : h[k] \in Int
  BY DEF CountedTotals, KeysOf
<1>. HIDE DEF h
<1>2. SumOf(h, K) \in Int
  BY <1>1, KeysFinite, SumInt
<1>. QED BY <1>2, CountedIsSum DEF h

\* One key grows by n in the direction d, and with it the sum over its port.
Grows(c, e, key, n, d) ==
  /\ \A k \in Key : c[k][d] \in Nat
  /\ \A k \in Key : e[k][d] = IF k = key THEN c[k][d] + n ELSE c[k][d]

LEMMA SumsAfter ==
  ASSUME NEW c, NEW e, NEW key \in Key, NEW n \in Nat, NEW q, NEW d, Grows(c, e, key, n, d)
  PROVE  CountedSum(e, q, d) = IF key[3] = q THEN CountedSum(c, q, d) + n
                                             ELSE CountedSum(c, q, d)
<1>. DEFINE K == KeysOf(q)
            R == K \ {key}
            f == CountedTotals(e, d)
            h == CountedTotals(c, d)
<1>1. IsFiniteSet(K) /\ K \subseteq Key
  BY KeysFinite DEF KeysOf
<1>2. CountedSum(e, q, d) = SumOf(f, K) /\ CountedSum(c, q, d) = SumOf(h, K)
  BY CountedIsSum
<1>3. key \in K <=> key[3] = q
  BY DEF KeysOf
<1>4. \A k \in Key : /\ h[k] \in Nat
                     /\ f[k] = IF k = key THEN h[k] + n ELSE h[k]
  BY DEF CountedTotals, Grows
<1>. HIDE DEF K, f, h
<1>5. \A k \in K : h[k] \in Int /\ f[k] \in Int
  BY <1>1, <1>4
<1>7. CASE key \in K
  <2>1. f[key] = h[key] + n /\ h[key] \in Int
    BY <1>4, <1>7
  <2>2. \A k \in R : f[k] = h[k]
    BY <1>1, <1>4, <1>5
  <2>3. IsFiniteSet(R) /\ \A k \in R : h[k] \in Int
    BY <1>1, <1>5, FS_Subset
  <2>4. SumOf(f, K) = f[key] + SumOf(f, R)
    BY <1>1, <1>5, <1>7, SumRemove
  <2>5. SumOf(h, K) = h[key] + SumOf(h, R)
    BY <1>1, <1>5, <1>7, SumRemove
  <2>. HIDE DEF R
  <2>6. SumOf(f, R) = SumOf(h, R)
    BY <2>2, <2>3, SumSame
  <2>7. SumOf(h, R) \in Int
    BY <2>3, SumInt
  <2>8. SumOf(f, K) = SumOf(h, K) + n
    BY <2>1, <2>4, <2>5, <2>6, <2>7
  <2>. QED BY <1>2, <1>3, <1>7, <2>8
<1>8. CASE key \notin K
  <2>1. \A k \in K : f[k] = h[k]
    BY <1>1, <1>4, <1>5, <1>8
  <2>2. SumOf(f, K) = SumOf(h, K)
    BY <1>1, <2>1, SumSame
  <2>. QED BY <1>2, <1>3, <1>8, <2>2
<1>. QED BY <1>7, <1>8
-----------------------------------------------------------------------------
(* The counts while a packet is booked.                                    *)

Updates == [key : Key, dir : Directions, len : Lengths]

Counts == [Key -> [Directions -> Nat]]

\* The counts after the update u.
Booked(c, u) == [c EXCEPT ![u.key][u.dir] = @ + u.len]

LEMMA KeyParts ==
  /\ \A k \in Key : k[1] \in Addresses /\ k[2] \in Ports /\ k[3] \in Ports
  /\ \A a \in Addresses, x, y \in Ports : <<a, x, y>> \in Key
  /\ mLocal \in Addresses /\ 0 \in Ports
  /\ \A d \in Directions : Other(d) \in Directions
BY LineAssumption DEF Key, Addresses, Directions, Other

LEMMA UpdateParts ==
  ASSUME NEW u \in Updates
  PROVE  u.key \in Key /\ u.dir \in Directions /\ u.len \in Nat
BY LineAssumption DEF Updates

LEMMA BookedAt ==
  ASSUME NEW c \in Counts, NEW u \in Updates
  PROVE  /\ Booked(c, u) \in Counts
         /\ \A k \in Key, d \in Directions : Booked(c, u)[k][d] = c[k][d] + Gives(u, k, d)
<1>1. u.key \in Key /\ u.dir \in Directions /\ u.len \in Nat
  BY UpdateParts
<1>2. Booked(c, u) \in Counts
  BY <1>1 DEF Booked, Counts
<1>3. ASSUME NEW k \in Key, NEW d \in Directions
      PROVE  Booked(c, u)[k][d] = c[k][d] + Gives(u, k, d)
  <2>1. c[k][d] \in Nat
    BY DEF Counts
  <2>2. CASE u.key = k
    BY <1>1, <2>1, <2>2 DEF Booked, Gives, Counts
  <2>3. CASE u.key # k
    BY <1>1, <2>1, <2>3 DEF Booked, Gives, Counts
  <2>. QED BY <2>2, <2>3
<1>. QED BY <1>2, <1>3

\* What an update adds to the sum of a port.
Adds(u, q, d) == IF u.key[3] = q /\ u.dir = d THEN u.len ELSE 0

LEMMA BookedSum ==
  ASSUME NEW c \in Counts, NEW u \in Updates, NEW q, NEW d \in Directions
  PROVE  CountedSum(Booked(c, u), q, d) = CountedSum(c, q, d) + Adds(u, q, d)
<1>. DEFINE n == IF u.dir = d THEN u.len ELSE 0
<1>1. u.key \in Key /\ n \in Nat
  BY UpdateParts
<1>2. Grows(c, Booked(c, u), u.key, n, d)
  BY BookedAt DEF Grows, Gives, Counts
<1>3. CountedSum(c, q, d) \in Int
  BY CountedInt DEF Counts
<1>4. CountedSum(Booked(c, u), q, d) =
        IF u.key[3] = q THEN CountedSum(c, q, d) + n ELSE CountedSum(c, q, d)
  <2>1. PICK b, e, key, m : b = c /\ e = Booked(c, u) /\ key = u.key /\ m = n
    OBVIOUS
  <2>2. Grows(b, e, key, m, d)
    BY <1>2, <2>1, Zenon
  <2>3. key \in Key
    BY <1>1, <2>1
  <2>4. m \in Nat
    BY <1>1, <2>1
  <2>5. CountedSum(e, q, d) = IF key[3] = q THEN CountedSum(b, q, d) + m
                                            ELSE CountedSum(b, q, d)
    BY <2>2, <2>3, <2>4, SumsAfter, Z3
  <2>. QED BY <2>1, <2>5, Zenon
<1>. QED BY <1>3, <1>4 DEF Adds

\* By how much the rows of a local port are out of balance, and what an update does
\* to that.
Off(c, q, d) ==
  CountedSum(c, q, d) + c[<<mLocal, 0, q>>][Other(d)] - c[<<mLocal, q, 0>>][d]

Effect(u, q, d) ==
  Adds(u, q, d) + Gives(u, <<mLocal, 0, q>>, Other(d)) - Gives(u, <<mLocal, q, 0>>, d)

LEMMA OffInt ==
  ASSUME NEW c \in Counts, NEW q \in Ports, NEW d \in Directions PROVE Off(c, q, d) \in Int
<1>1. CountedSum(c, q, d) \in Int
  BY CountedInt DEF Counts
<1>2. c[<<mLocal, 0, q>>][Other(d)] \in Int /\ c[<<mLocal, q, 0>>][d] \in Int
  BY KeyParts DEF Counts
<1>. QED BY <1>1, <1>2 DEF Off

LEMMA BalancedIsOff ==
  ASSUME NEW c \in Counts
  PROVE  Balanced(c) <=> \A q \in Ports \ {0}, d \in Directions : Off(c, q, d) = 0
<1>. SUFFICES ASSUME NEW q \in Ports \ {0}, NEW d \in Directions
              PROVE  c[<<mLocal, q, 0>>][d]
                         = CountedSum(c, q, d) + c[<<mLocal, 0, q>>][Other(d)]
                       <=> Off(c, q, d) = 0
  BY DEF Balanced
<1>1. CountedSum(c, q, d) \in Int
  BY CountedInt DEF Counts
<1>2. c[<<mLocal, 0, q>>][Other(d)] \in Int /\ c[<<mLocal, q, 0>>][d] \in Int
  BY KeyParts DEF Counts
<1>. QED BY <1>1, <1>2 DEF Off

LEMMA OffAfter ==
  ASSUME NEW c \in Counts, NEW u \in Updates, NEW q \in Ports, NEW d \in Directions
  PROVE  /\ Off(Booked(c, u), q, d) = Off(c, q, d) + Effect(u, q, d)
         /\ Effect(u, q, d) \in Int
<1>. DEFINE e == Booked(c, u)
            k == <<mLocal, q, 0>>
            l == <<mLocal, 0, q>>
            o == Other(d)
<1>1. k \in Key /\ l \in Key /\ o \in Directions
  BY KeyParts
<1>2. /\ e[k][d] = c[k][d] + Gives(u, k, d)
      /\ e[l][o] = c[l][o] + Gives(u, l, o)
  BY <1>1, BookedAt
<1>3. CountedSum(e, q, d) = CountedSum(c, q, d) + Adds(u, q, d)
  BY BookedSum
<1>4. Gives(u, k, d) \in Int /\ Gives(u, l, o) \in Int /\ Adds(u, q, d) \in Int
  <2>1. u.len \in Int
    BY UpdateParts
  <2>. QED BY <2>1 DEF Gives, Adds
<1>5. c[k][d] \in Int /\ c[l][o] \in Int /\ CountedSum(c, q, d) \in Int
  BY <1>1, CountedInt DEF Counts
<1>6. /\ Off(e, q, d) = CountedSum(e, q, d) + e[l][o] - e[k][d]
      /\ Off(c, q, d) = CountedSum(c, q, d) + c[l][o] - c[k][d]
      /\ Effect(u, q, d) = Adds(u, q, d) + Gives(u, l, o) - Gives(u, k, d)
  BY DEF Off, Effect
<1>. HIDE DEF e, k, l, o
<1>7. Off(e, q, d) = Off(c, q, d) + Effect(u, q, d) /\ Effect(u, q, d) \in Int
  BY <1>2, <1>3, <1>4, <1>5, <1>6
<1>. QED BY <1>7 DEF e

\* What the two updates of a packet that comes in leave out of balance: nothing,
\* unless the local address talks to itself from or to port 0.  The two of the same
\* packet on its way out leave the opposite.
Extra(a, sport, dport, len, q, d) ==
  IF a = mLocal /\ sport = 0 /\ dport = q /\ d = "out" THEN len
  ELSE IF a = mLocal /\ sport = q /\ dport = 0 /\ d = "in" THEN 0 - len
  ELSE 0

LEMMA PairEffects ==
  ASSUME NEW a \in Addresses, NEW sport \in Ports, NEW dport \in Ports,
         NEW len \in Lengths, NEW q \in Ports \ {0}, NEW d \in Directions
  PROVE  LET in == InTo(a, sport, dport, len)
             out == OutOf(a, sport, dport, len)
             extra == Extra(a, sport, dport, len, q, d)
         IN /\ Effect(in[1], q, d) + Effect(in[2], q, d) = extra
            /\ Effect(out[1], q, d) + Effect(out[2], q, d) = 0 - extra
            /\ extra \in Int
<1>. DEFINE in == InTo(a, sport, dport, len)
            out == OutOf(a, sport, dport, len)
<1>1. len \in Nat
  BY LineAssumption
<1>2. /\ in[1] = Change(<<a, sport, dport>>, "in", len)
      /\ in[2] = Change(<<mLocal, dport, 0>>, "in", len)
      /\ out[1] = Change(<<a, dport, sport>>, "out", len)
      /\ out[2] = Change(<<mLocal, sport, 0>>, "out", len)
  BY DEF InTo, OutOf
<1>. HIDE DEF in, out
<1>3. CASE d = "in"
  <2>1. /\ Effect(in[1], q, d) = (IF dport = q THEN len ELSE 0)
             - (IF a = mLocal /\ sport = q /\ dport = 0 THEN len ELSE 0)
        /\ Effect(in[2], q, d) = 0 - (IF dport = q THEN len ELSE 0)
        /\ Effect(out[1], q, d) = IF a = mLocal /\ dport = 0 /\ sport = q THEN len ELSE 0
        /\ Effect(out[2], q, d) = 0
    BY <1>1, <1>2, <1>3 DEF Effect, Gives, Adds, Change, Other
  <2>2. Extra(a, sport, dport, len, q, d)
          = 0 - (IF a = mLocal /\ sport = q /\ dport = 0 THEN len ELSE 0)
    BY <1>1, <1>3 DEF Extra
  <2>. QED BY <1>1, <2>1, <2>2 DEF in, out
<1>4. CASE d = "out"
  <2>1. /\ Effect(in[1], q, d) = IF a = mLocal /\ sport = 0 /\ dport = q THEN len ELSE 0
        /\ Effect(in[2], q, d) = 0
        /\ Effect(out[1], q, d) = (IF sport = q THEN len ELSE 0)
             - (IF a = mLocal /\ dport = q /\ sport = 0 THEN len ELSE 0)
        /\ Effect(out[2], q, d) = 0 - (IF sport = q THEN len ELSE 0)
    BY <1>1, <1>2, <1>4 DEF Effect, Gives, Adds, Change, Other
  <2>2. Extra(a, sport, dport, len, q, d)
          = IF a = mLocal /\ sport = 0 /\ dport = q THEN len ELSE 0
    BY <1>1, <1>4 DEF Extra
  <2>. QED BY <1>1, <2>1, <2>2 DEF in, out
<1>. QED BY <1>3, <1>4 DEF Directions

LEMMA PairTypes ==
  ASSUME NEW a \in Addresses, NEW sport \in Ports, NEW dport \in Ports, NEW len \in Lengths
  PROVE  LET in == InTo(a, sport, dport, len)
             out == OutOf(a, sport, dport, len)
         IN /\ in[1] \in Updates /\ in[2] \in Updates /\ Len(in) = 2
            /\ out[1] \in Updates /\ out[2] \in Updates /\ Len(out) = 2
BY KeyParts DEF InTo, OutOf, Updates, Change, Directions

\* The updates of a packet keep the balance when both of a pair are booked, and when
\* both pairs are for a packet of the local address to itself.
LEMMA PairBooked ==
  ASSUME NEW c \in Counts, NEW u1 \in Updates, NEW u2 \in Updates,
         NEW q \in Ports, NEW d \in Directions
  PROVE  LET e == Booked(Booked(c, u1), u2)
         IN e \in Counts /\ Off(e, q, d) = Off(c, q, d) + (Effect(u1, q, d) + Effect(u2, q, d))
<1>. DEFINE c1 == Booked(c, u1)
            e == Booked(c1, u2)
<1>1. c1 \in Counts /\ e \in Counts
  BY BookedAt
<1>2. /\ Off(c1, q, d) = Off(c, q, d) + Effect(u1, q, d) /\ Effect(u1, q, d) \in Int
      /\ Off(e, q, d) = Off(c1, q, d) + Effect(u2, q, d) /\ Effect(u2, q, d) \in Int
  BY <1>1, OffAfter
<1>3. Off(c, q, d) \in Int
  BY OffInt
<1>. HIDE DEF e
<1>4. Off(e, q, d) = Off(c, q, d) + (Effect(u1, q, d) + Effect(u2, q, d))
  BY <1>2, <1>3
<1>. QED BY <1>1, <1>4 DEF e
-----------------------------------------------------------------------------
(* The invariant.                                                          *)

LEMMA SettledAt ==
  ASSUME NEW c \in Counts, NEW t \in Seq(Updates)
  PROVE  /\ Settled(c, t) \in Counts
         /\ \A k \in Key, d \in Directions : Settled(c, t)[k][d] = c[k][d] + Pending(t, k, d)
         /\ \A i, k, d : Part(t, i, k, d) \in Nat
<1>1. ASSUME NEW i, NEW k, NEW d PROVE Part(t, i, k, d) \in Nat
  <2>1. ASSUME i \in DOMAIN t PROVE t[i].len \in Nat
    <3>1. t[i] \in Updates
      BY <2>1
    <3>. QED BY <3>1, UpdateParts
  <2>. QED BY <2>1 DEF Part, Gives
<1>2. \A k \in Key, d \in Directions : c[k][d] + Pending(t, k, d) \in Nat
  BY <1>1 DEF Pending, Counts
<1>. QED BY <1>1, <1>2 DEF Settled, Counts

\* Two counts with the same entries are the same.
LEMMA CountsSame ==
  ASSUME NEW c \in Counts, NEW e \in Counts,
         \A k \in Key, d \in Directions : c[k][d] = e[k][d]
  PROVE  c = e
<1>1. \A k \in Key : c[k] = e[k]
  BY DEF Counts
<1>. QED BY <1>1 DEF Counts

\* With nothing left to do the counts are settled.
LEMMA SettledNone == ASSUME NEW c \in Counts PROVE Settled(c, <<>>) = c
<1>1. \A k \in Key, d \in Directions : Pending(<<>>, k, d) = 0
  BY DEF Pending, Part
<1>2. <<>> \in Seq(Updates)
  OBVIOUS
<1>3. /\ Settled(c, <<>>) \in Counts
      /\ \A k \in Key, d \in Directions :
           Settled(c, <<>>)[k][d] = c[k][d] + Pending(<<>>, k, d)
  BY <1>2, SettledAt
<1>4. \A k \in Key, d \in Directions : c[k][d] \in Nat
  BY DEF Counts
<1>5. \A k \in Key, d \in Directions : Settled(c, <<>>)[k][d] = c[k][d]
  BY <1>1, <1>3, <1>4
<1>. QED BY <1>3, <1>5, CountsSame

\* To do the first update changes nothing in what they will be.
LEMMA SettledTail ==
  ASSUME NEW c \in Counts, NEW t \in Seq(Updates), t # <<>>, Len(t) <= 4
  PROVE  /\ Settled(Booked(c, Head(t)), Tail(t)) = Settled(c, t)
         /\ Booked(c, Head(t)) \in Counts
<1>. DEFINE u == Head(t)
            e == Booked(c, u)
            r == Tail(t)
<1>1. /\ u \in Updates /\ u = t[1] /\ 1 \in DOMAIN t /\ r \in Seq(Updates)
      /\ DOMAIN r = 1 .. (Len(t) - 1) /\ DOMAIN t = 1 .. Len(t)
      /\ \A i \in DOMAIN r : r[i] = t[i + 1]
  <2>. HIDE DEF Updates
  <2>. QED OBVIOUS
<1>2. e \in Counts
  BY <1>1, BookedAt
<1>3. ASSUME NEW k \in Key, NEW d \in Directions
      PROVE  Settled(e, r)[k][d] = Settled(c, t)[k][d]
  <2>1. e[k][d] = c[k][d] + Gives(u, k, d) /\ c[k][d] \in Nat
    BY <1>1, BookedAt DEF Counts
  <2>2. Part(t, 1, k, d) = Gives(u, k, d)
    BY <1>1 DEF Part
  <2>3. /\ Part(r, 1, k, d) = Part(t, 2, k, d)
        /\ Part(r, 2, k, d) = Part(t, 3, k, d)
        /\ Part(r, 3, k, d) = Part(t, 4, k, d)
        /\ Part(r, 4, k, d) = 0
    BY <1>1 DEF Part
  <2>4. /\ Settled(e, r)[k][d] = e[k][d] + Pending(r, k, d)
        /\ Settled(c, t)[k][d] = c[k][d] + Pending(t, k, d)
        /\ \A i : Part(t, i, k, d) \in Nat
    BY <1>1, <1>2, SettledAt
  <2>. HIDE DEF u, e, r
  <2>. QED BY <2>1, <2>2, <2>3, <2>4 DEF Pending
<1>4. Settled(e, r) \in Counts /\ Settled(c, t) \in Counts
  BY <1>1, <1>2, SettledAt
<1>. HIDE DEF u, e, r
<1>5. Settled(e, r) = Settled(c, t)
  BY <1>3, <1>4, CountsSame
<1>. QED BY <1>2, <1>5 DEF u, e, r

LEMMA SettledPair ==
  ASSUME NEW c \in Counts, NEW u \in Seq(Updates), Len(u) = 2,
         NEW t \in Seq(Updates), Len(t) <= 2
  PROVE  Settled(c, u \o t) = Settled(Booked(Booked(c, u[1]), u[2]), t)
<1>. DEFINE s == u \o t
            s1 == Tail(s)
            c1 == Booked(c, u[1])
<1>1. /\ s \in Seq(Updates) /\ s # <<>> /\ Len(s) <= 4
      /\ Head(s) = u[1]
      /\ s1 \in Seq(Updates) /\ s1 # <<>> /\ Len(s1) <= 4
      /\ Head(s1) = u[2] /\ Tail(s1) = t
  <2>. HIDE DEF Updates
  <2>1. PICK x \in Updates, y \in Updates : u = <<x, y>>
    <3>1. u[1] \in Updates /\ u[2] \in Updates
      <4>1. 1 \in 1 .. Len(u) /\ 2 \in 1 .. Len(u) /\ DOMAIN u = 1 .. Len(u)
        OBVIOUS
      <4>2. u \in [1 .. Len(u) -> Updates]
        OBVIOUS
      <4>. QED BY <4>1, <4>2
    <3>2. u = <<u[1], u[2]>>
      OBVIOUS
    <3>. QED BY <3>1, <3>2
  <2>. QED BY <2>1
<1>. HIDE DEF s, s1
<1>2. Settled(c, s) = Settled(c1, s1) /\ c1 \in Counts
  <2>1. Settled(Booked(c, Head(s)), Tail(s)) = Settled(c, s) /\ Booked(c, Head(s)) \in Counts
    BY <1>1, SettledTail
  <2>. QED BY <1>1, <2>1 DEF s1
<1>. HIDE DEF c1
<1>3. Settled(c1, s1) = Settled(Booked(c1, u[2]), t)
  <2>1. Settled(Booked(c1, Head(s1)), Tail(s1)) = Settled(c1, s1)
    BY <1>1, <1>2, SettledTail
  <2>. QED BY <1>1, <2>1
<1>. QED BY <1>2, <1>3 DEF s, c1

LEMMA BalanceInit == Init => BalanceInv
<1>. SUFFICES ASSUME Init PROVE BalanceInv
  OBVIOUS
<1>1. IInv
  BY InitInv
<1>2. /\ todo = <<>> /\ counted \in Counts
      /\ \A k \in Key, d \in Directions : counted[k][d] = 0
  BY DEF Init, Counts
<1>3. Settled(counted, todo) = counted
  BY <1>2, SettledNone
<1>4. ASSUME NEW q \in Ports \ {0}, NEW d \in Directions PROVE Off(counted, q, d) = 0
  <2>1. CountedSum(counted, q, d) = 0
    <3>. DEFINE h == CountedTotals(counted, d)
                K == KeysOf(q)
    <3>1. \A k \in K : h[k] = 0
      BY <1>2 DEF CountedTotals, KeysOf
    <3>. HIDE DEF h
    <3>2. SumOf(h, K) = 0
      BY <3>1, KeysFinite, SumZero
    <3>. QED BY <3>2, CountedIsSum DEF h
  <2>2. counted[<<mLocal, 0, q>>][Other(d)] = 0 /\ counted[<<mLocal, q, 0>>][d] = 0
    BY <1>2, KeyParts
  <2>. QED BY <2>1, <2>2 DEF Off
<1>. QED BY <1>1, <1>2, <1>3, <1>4, BalancedIsOff DEF BalanceInv

LEMMA BalanceWrite ==
  ASSUME BalanceInv, NEW src \in Addresses, NEW dst \in Addresses, NEW sport \in Ports,
         NEW dport \in Ports, NEW len \in Lengths, Write(src, dst, sport, dport, len)
  PROVE  Len(todo') <= 4 /\ Balanced(Settled(counted', todo'))
<1>. DEFINE in == InTo(src, sport, dport, len)
            out == OutOf(dst, sport, dport, len)
            one == Booked(Booked(counted, in[1]), in[2])
            other == Booked(Booked(counted, out[1]), out[2])
            both == Booked(Booked(one, out[1]), out[2])
<1>1. /\ counted \in Counts /\ counted' = counted /\ todo = <<>>
      /\ mLocal \in {src, dst}
      /\ todo' = IF src = dst THEN in \o out ELSE IF dst = mLocal THEN in ELSE out
  BY DEF Write, BalanceInv, IInv, TypeOK, Counts
<1>2. /\ in = <<in[1], in[2]>> /\ in[1] \in Updates /\ in[2] \in Updates
      /\ out = <<out[1], out[2]>> /\ out[1] \in Updates /\ out[2] \in Updates
  BY PairTypes DEF InTo, OutOf
<1>3. \A q \in Ports \ {0}, d \in Directions : Off(counted, q, d) = 0
  <2>1. Balanced(counted)
    BY <1>1, SettledNone DEF BalanceInv
  <2>. QED BY <1>1, <2>1, BalancedIsOff
<1>4. \A q \in Ports \ {0}, d \in Directions :
        /\ Effect(in[1], q, d) + Effect(in[2], q, d) = Extra(src, sport, dport, len, q, d)
        /\ Effect(out[1], q, d) + Effect(out[2], q, d)
             = 0 - Extra(dst, sport, dport, len, q, d)
        /\ Extra(src, sport, dport, len, q, d) \in Int
        /\ Extra(dst, sport, dport, len, q, d) \in Int
  BY PairEffects
<1>. HIDE DEF in, out
<1>5. /\ one \in Counts /\ other \in Counts /\ both \in Counts
      /\ \A q \in Ports, d \in Directions :
           /\ Off(one, q, d) = Off(counted, q, d)
                + (Effect(in[1], q, d) + Effect(in[2], q, d))
           /\ Off(other, q, d) = Off(counted, q, d)
                + (Effect(out[1], q, d) + Effect(out[2], q, d))
           /\ Off(both, q, d) = Off(one, q, d)
                + (Effect(out[1], q, d) + Effect(out[2], q, d))
  <2>1. one \in Counts /\ other \in Counts
    BY <1>1, <1>2, BookedAt
  <2>2. both \in Counts
    BY <1>2, <2>1, BookedAt
  <2>. HIDE DEF one
  <2>3. \A q \in Ports, d \in Directions :
          Off(both, q, d) = Off(one, q, d) + (Effect(out[1], q, d) + Effect(out[2], q, d))
    BY <1>2, <2>1, PairBooked
  <2>4. \A q \in Ports, d \in Directions :
          /\ Off(one, q, d) = Off(counted, q, d)
                + (Effect(in[1], q, d) + Effect(in[2], q, d))
          /\ Off(other, q, d) = Off(counted, q, d)
                + (Effect(out[1], q, d) + Effect(out[2], q, d))
    BY <1>1, <1>2, PairBooked DEF one
  <2>. HIDE DEF other, both
  <2>. QED BY <2>1, <2>2, <2>3, <2>4
<1>6. /\ <<>> \in Seq(Updates) /\ Len(<<>>) = 0 /\ out \in Seq(Updates) /\ Len(out) = 2
      /\ in \o <<>> = in /\ out \o <<>> = out /\ Len(in \o out) = 4 /\ Len(in) = 2
      /\ in \in Seq(Updates) /\ Len(<<>>) <= 2
  <2>1. PICK a \in Updates, b \in Updates, c \in Updates, e \in Updates :
          in = <<a, b>> /\ out = <<c, e>>
    BY <1>2
  <2>. HIDE DEF Updates
  <2>. QED BY <2>1
<1>. HIDE DEF one, other, both
<1>7. CASE src = dst
  <2>1. todo' = in \o out
    BY <1>1, <1>7
  <2>2. Settled(counted', todo') = both
    <3>1. Settled(counted, in \o out) = Settled(one, out)
      BY <1>1, <1>6, SettledPair DEF one
    <3>2. Settled(one, out \o <<>>) = Settled(both, <<>>)
      BY <1>5, <1>6, SettledPair DEF both
    <3>. QED BY <1>1, <1>5, <1>6, <2>1, <3>1, <3>2, SettledNone
  <2>3. \A q \in Ports \ {0}, d \in Directions : Off(both, q, d) = 0
    BY <1>3, <1>4, <1>5, <1>7
  <2>. QED BY <1>5, <1>6, <2>1, <2>2, <2>3, BalancedIsOff
<1>8. CASE src # dst /\ dst = mLocal
  <2>1. todo' = in
    BY <1>1, <1>8
  <2>2. Settled(counted', todo') = one
    <3>1. Settled(counted, in \o <<>>) = Settled(one, <<>>)
      BY <1>1, <1>6, SettledPair DEF one
    <3>. QED BY <1>1, <1>5, <1>6, <2>1, <3>1, SettledNone
  <2>3. \A q \in Ports \ {0}, d \in Directions : Extra(src, sport, dport, len, q, d) = 0
    BY <1>8 DEF Extra
  <2>4. \A q \in Ports \ {0}, d \in Directions : Off(one, q, d) = 0
    BY <1>3, <1>4, <1>5, <2>3
  <2>. QED BY <1>5, <1>6, <2>1, <2>2, <2>4, BalancedIsOff
<1>9. CASE src # dst /\ dst # mLocal
  <2>1. todo' = out
    BY <1>1, <1>9
  <2>2. Settled(counted', todo') = other
    <3>1. Settled(counted, out \o <<>>) = Settled(other, <<>>)
      BY <1>1, <1>6, SettledPair DEF other
    <3>. QED BY <1>1, <1>5, <1>6, <2>1, <3>1, SettledNone
  <2>3. \A q \in Ports \ {0}, d \in Directions : Extra(dst, sport, dport, len, q, d) = 0
    BY <1>9 DEF Extra
  <2>4. \A q \in Ports \ {0}, d \in Directions : Off(other, q, d) = 0
    BY <1>3, <1>4, <1>5, <2>3
  <2>. QED BY <1>5, <1>6, <2>1, <2>2, <2>4, BalancedIsOff
<1>. QED BY <1>7, <1>8, <1>9

LEMMA BalanceUpdate ==
  ASSUME BalanceInv, Update
  PROVE  Len(todo') <= 4 /\ Balanced(Settled(counted', todo'))
<1>1. /\ todo \in Seq(Updates) /\ todo # <<>> /\ Len(todo) <= 4
      /\ counted \in Counts /\ todo' = Tail(todo)
  BY DEF BalanceInv, IInv, TypeOK, Update, Updates, Counts
<1>2. counted' = Booked(counted, Head(todo))
  BY DEF Update, Booked
<1>3. Settled(counted', todo') = Settled(counted, todo)
  BY <1>1, <1>2, SettledTail
<1>4. Len(todo') <= 4
  <2>. HIDE DEF Updates
  <2>. QED BY <1>1
<1>. QED BY <1>3, <1>4 DEF BalanceInv

LEMMA BalanceKept ==
  ASSUME BalanceInv, UNCHANGED <<todo, counted>>
  PROVE  Len(todo') <= 4 /\ Balanced(Settled(counted', todo'))
BY DEF BalanceInv

\* At every step the counts will balance once the packet at hand is booked.
THEOREM BalanceInvariance == Spec => []BalanceInv
<1>1. ASSUME BalanceInv, [Next]_vars
      PROVE  Len(todo') <= 4 /\ Balanced(Settled(counted', todo'))
  <2>1. CASE UNCHANGED vars
    BY <1>1, <2>1, BalanceKept DEF vars
  <2>2. ASSUME NEW blk \in CellSizes, Construct(blk)
        PROVE  Len(todo') <= 4 /\ Balanced(Settled(counted', todo'))
    BY <1>1, <2>2, BalanceKept DEF Construct
  <2>3. CASE RemoveLine
    BY <1>1, <2>3, BalanceKept DEF RemoveLine
  <2>. QED BY <1>1, <2>1, <2>2, <2>3, BalanceWrite, BalanceUpdate DEF Next
<1>2. IInv /\ Len(todo) <= 4 /\ Balanced(Settled(counted, todo)) => BalanceInv
  BY DEF BalanceInv
<1>3. BalanceInv => IInv
  BY DEF BalanceInv
<1>4. BalanceInv /\ [Next]_vars /\ IInv' => BalanceInv'
  BY <1>1 DEF BalanceInv
<1>. QED BY <1>4, BalanceInit, Invariance, PTL DEF Spec

\* Between two packets every local port balances with its peers, whatever the
\* packets were and however often the counters have wrapped; what the local address
\* exchanged with its own port 0 is in the row of the other port once more.
THEOREM PortBalanceHolds == Spec => []PortBalance
<1>1. BalanceInv => PortBalance
  <2>. SUFFICES ASSUME BalanceInv, line = "filling", todo = <<>>,
                       NEW q \in Ports \ {0}, NEW d \in Directions
                PROVE  Total(mData, <<mLocal, q, 0>>, d)
                         = Wrap(Sum(q, d) + Total(mData, <<mLocal, 0, q>>, Other(d)))
    BY DEF PortBalance
  <2>. DEFINE K == KeysOf(q)
              f == RowTotals(d)
              h == CountedTotals(counted, d)
              k == <<mLocal, q, 0>>
              l == <<mLocal, 0, q>>
              o == Other(d)
  <2>1. /\ counted \in Counts /\ k \in Key /\ l \in Key /\ o \in Directions
        /\ \A x \in Key, y \in Directions : Total(mData, x, y) = Wrap(counted[x][y])
    BY KeyParts DEF BalanceInv, IInv, TypeOK, Counted, Counts
  <2>2. counted[k][d] = CountedSum(counted, q, d) + counted[l][o]
    <3>1. Balanced(counted)
      BY <2>1, SettledNone DEF BalanceInv
    <3>. QED BY <3>1 DEF Balanced
  <2>3. \A x \in K : h[x] \in Int /\ f[x] = Wrap(h[x])
    BY <2>1 DEF KeysOf, RowTotals, CountedTotals, Counts
  <2>4. CountedSum(counted, q, d) = SumOf(h, K) /\ Sum(q, d) = SumOf(f, K)
    BY CountedIsSum, SumIsSum
  <2>5. IsFiniteSet(K)
    BY KeysFinite
  <2>6. Total(mData, k, d) = Wrap(counted[k][d]) /\ Total(mData, l, o) = Wrap(counted[l][o])
        /\ counted[l][o] \in Int
    BY <2>1 DEF Counts
  <2>. HIDE DEF K, f, h, k, l, o
  <2>7. Wrap(SumOf(f, K)) = Wrap(SumOf(h, K))
    BY <2>3, <2>5, SumWraps
  <2>8. SumOf(f, K) \in Int /\ SumOf(h, K) \in Int
    <3>1. \A x \in K : f[x] \in Int
      BY <2>3, WrapInt
    <3>. QED BY <2>3, <2>5, <3>1, SumInt
  <2>. DEFINE sf == SumOf(f, K)
              sh == SumOf(h, K)
              c == counted[l][o]
  <2>9. /\ Wrap(sf + Wrap(c)) = Wrap(sf + c)
        /\ Wrap(Wrap(sf) + c) = Wrap(sf + c)
        /\ Wrap(Wrap(sh) + c) = Wrap(sh + c)
    <3>1. c \in Int /\ sf \in Int /\ sh \in Int /\ Wrap(c) \in Int
      BY <2>6, <2>8, WrapInt
    <3>. HIDE DEF c, sf, sh
    <3>2. Wrap(Wrap(c) + sf) = Wrap(c + sf)
      BY <3>1, WrapWrap
    <3>3. Wrap(c) + sf = sf + Wrap(c) /\ c + sf = sf + c
      BY <3>1
    <3>4. Wrap(Wrap(sf) + c) = Wrap(sf + c) /\ Wrap(Wrap(sh) + c) = Wrap(sh + c)
      BY <3>1, WrapWrap
    <3>. QED BY <3>2, <3>3, <3>4
  <2>10. Wrap(sf + Wrap(c)) = Wrap(sh + c)
    BY <2>7, <2>9
  <2>11. Total(mData, k, d) = Wrap(sh + c)
    BY <2>2, <2>4, <2>6
  <2>12. Sum(q, d) + Total(mData, l, o) = sf + Wrap(c)
    BY <2>4, <2>6
  <2>. QED BY <2>10, <2>11, <2>12 DEF k, l, o
<1>. QED BY <1>1, BalanceInvariance, PTL
===============================================================================
