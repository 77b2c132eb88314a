-------------------------- MODULE RankedSelection --------------------------
(***************************************************************************)
(* What ORDER BY ... LIMIT n selects, as the models write it: the members  *)
(* of S that fewer than n members of S come before.                        *)
(***************************************************************************)
EXTENDS Naturals, FiniteSets, FiniteSetTheorems, WellFoundedInduction, TLAPS

Below(S, R, e) == {f \in S : R[f] < R[e]}

Lowest(S, R, n) == {e \in S : Cardinality(Below(S, R, e)) < n}

\* A nonempty set has a member of lowest rank.
LEMMA LowestRank ==
    ASSUME NEW S, NEW R, \A e \in S : R[e] \in Nat, S # {}
    PROVE  \E e \in S : \A f \in S : R[e] <= R[f]
<1> DEFINE ranks == {R[e] : e \in S}
<1>1. ranks \subseteq Nat /\ ranks # {}
  OBVIOUS
<1>2. \E x \in ranks : \A y \in ranks : ~(<<y, x>> \in OpToRel(<, Nat))
  BY <1>1, NatLessThanWellFounded, WFMin, Zenon
<1>3. PICK e \in S : \A f \in S : ~(<<R[f], R[e]>> \in OpToRel(<, Nat))
  BY <1>2
<1>4. \A f \in S : ~(R[f] < R[e])
  BY <1>3 DEF OpToRel
<1>5. QED
  BY <1>4

\* Different members have different numbers of members before them.
LEMMA BelowGrows ==
    ASSUME NEW S, IsFiniteSet(S), NEW R, \A e \in S : R[e] \in Nat,
           NEW e \in S, NEW f \in S, R[e] < R[f]
    PROVE  Cardinality(Below(S, R, e)) < Cardinality(Below(S, R, f))
<1>1. IsFiniteSet(Below(S, R, f)) /\ Cardinality(Below(S, R, f)) \in Nat
  BY FS_Subset, FS_CardinalityType DEF Below
<1>2. Below(S, R, e) \subseteq Below(S, R, f) \ {e}
  BY DEF Below
<1>3. /\ IsFiniteSet(Below(S, R, f) \ {e})
      /\ Cardinality(Below(S, R, f) \ {e}) = Cardinality(Below(S, R, f)) - 1
  BY <1>1, FS_RemoveElement DEF Below
<1>4. /\ Cardinality(Below(S, R, e)) \in Nat
      /\ Cardinality(Below(S, R, e)) <= Cardinality(Below(S, R, f) \ {e})
  BY <1>2, <1>3, FS_Subset, FS_CardinalityType
<1>5. QED
  BY <1>1, <1>3, <1>4

\* The selection is within its limit, and full unless it takes everything; nothing it
\* leaves out comes before something it takes.
LEMMA LowestSelection ==
    ASSUME NEW S, IsFiniteSet(S), NEW R, \A e \in S : R[e] \in Nat,
           \A e, f \in S : R[e] = R[f] => e = f,
           NEW n \in Nat
    PROVE  /\ IsFiniteSet(Lowest(S, R, n)) /\ Cardinality(Lowest(S, R, n)) \in 0 .. n
           /\ Lowest(S, R, n) # S => Cardinality(Lowest(S, R, n)) = n
           /\ \A e \in Lowest(S, R, n), f \in S \ Lowest(S, R, n) : R[e] < R[f]
<1> DEFINE L == Lowest(S, R, n)
           Count(e) == Cardinality(Below(S, R, e))
<1>1. IsFiniteSet(L) /\ Cardinality(L) \in Nat
  BY FS_Subset, FS_CardinalityType DEF Lowest
<1>2. \A e \in S : Count(e) \in Nat
  BY FS_Subset, FS_CardinalityType DEF Below
<1>3. \A e, f \in S : R[e] < R[f] => Count(e) < Count(f)
  BY BelowGrows
<1>4. \A e \in L, f \in S \ L : R[e] < R[f]
  <2> SUFFICES ASSUME NEW e \in L, NEW f \in S \ L, ~(R[e] < R[f]) PROVE FALSE
    OBVIOUS
  <2>1. e \in S /\ Count(e) < n /\ ~(Count(f) < n)
    BY DEF Lowest
  <2>2. R[f] < R[e]
    BY <2>1
  <2>3. Count(f) < Count(e)
    BY <1>3, <2>1, <2>2
  <2>4. QED
    BY <1>2, <2>1, <2>3
<1>5. Cardinality(L) <= n
  <2> SUFFICES ASSUME Cardinality(L) > n PROVE FALSE
    BY <1>1
  <2> DEFINE T == 0 .. (n - 1)
             g == [e \in L |-> Count(e)]
  <2>1. IsFiniteSet(T) /\ Cardinality(T) = n
    BY FS_Interval
  <2>2. g \in [L -> T]
    BY <1>2 DEF Lowest
  <2>3. \E x, y \in L : x # y /\ g[x] = g[y]
    <3>1. Cardinality(T) < Cardinality(L)
      BY <1>1, <2>1
    <3> HIDE DEF L, T, g
    <3>2. QED
      BY <1>1, <2>1, <2>2, <3>1, FS_PigeonHole
  <2>4. PICK x \in S, y \in S : x # y /\ Count(x) = Count(y)
    BY <2>3 DEF Lowest
  <2>5. R[x] < R[y] \/ R[y] < R[x]
    BY <2>4
  <2>6. QED
    BY <1>2, <1>3, <2>4, <2>5
<1>6. L # S => Cardinality(L) = n
  <2> SUFFICES ASSUME L # S PROVE Cardinality(L) >= n
    BY <1>1, <1>5
  <2>1. S \ L # {} /\ \A e \in S \ L : R[e] \in Nat
    BY DEF Lowest
  <2>2. PICK e \in S \ L : \A f \in S \ L : R[e] <= R[f]
    BY <2>1, LowestRank
  <2>3. Below(S, R, e) \subseteq L
    BY <2>2 DEF Below
  <2>4. Count(e) <= Cardinality(L)
    BY <1>1, <2>3, FS_Subset
  <2>5. Count(e) \in Nat /\ Count(e) >= n
    BY <1>2 DEF Lowest
  <2>6. QED
    BY <1>1, <2>4, <2>5
<1>7. QED
  BY <1>1, <1>4, <1>5, <1>6
=============================================================================
