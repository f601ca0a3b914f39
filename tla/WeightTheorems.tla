--------------------------- MODULE WeightTheorems ---------------------------
(***************************************************************************)
(* The laws of sums over finite sets that the proofs about voting power    *)
(* and coin amounts use.                                                   *)
(***************************************************************************)
EXTENDS Weights, FiniteSetTheorems, TLAPS

\* A pair is a unit of S exactly when its holder is in S and its index counts.
LEMMA UnitMember ==
  ASSUME NEW S, NEW w, NEW x, NEW i
  PROVE  <<x, i>> \in UnitsOf(S, w) <=> x \in S /\ i \in 1 .. w[x]
BY DEF UnitsOf

\* Every unit is a pair.
LEMMA UnitIsPair ==
  ASSUME NEW S, NEW w, NEW u \in UnitsOf(S, w)
  PROVE  u = <<u[1], u[2]>> /\ u[1] \in S /\ u[2] \in 1 .. w[u[1]]
BY DEF UnitsOf

\* The units of finitely many holders are finitely many, so a sum is a number.
LEMMA WeightType ==
  ASSUME NEW S, IsFiniteSet(S), NEW w, \A x \in S : w[x] \in Nat
  PROVE  IsFiniteSet(UnitsOf(S, w)) /\ Weight(S, w) \in Nat
<1> DEFINE f == [x \in S |-> {x} \X (1 .. w[x])]
           T == {{x} \X (1 .. w[x]) : x \in S}
<1>1. f \in Surjection(S, T)
  <2>1. f \in [S -> T]
    OBVIOUS
  <2>2. \A t \in T : \E x \in S : f[x] = t
    OBVIOUS
  <2> QED BY Zenon, <2>1, <2>2 DEF Surjection
<1>2. IsFiniteSet(T)
  BY <1>1, FS_Surjection
<1>3. \A t \in T : IsFiniteSet(t)
  <2>1. SUFFICES ASSUME NEW x \in S PROVE IsFiniteSet({x} \X (1 .. w[x]))
    OBVIOUS
  <2>2. IsFiniteSet({x})
    BY Zenon, FS_Singleton
  <2>3. IsFiniteSet(1 .. w[x])
    BY FS_Interval
  <2> QED BY SMTT(30), <2>2, <2>3, FS_Product
<1>4. IsFiniteSet(UNION T)
  BY Zenon, <1>2, <1>3, FS_UNION
<1> QED BY <1>4, FS_CardinalityType DEF UnitsOf, Weight

\* A subset weighs no more than the set.
LEMMA WeightMonotone ==
  ASSUME NEW T, IsFiniteSet(T), NEW S, S \subseteq T,
         NEW w, \A x \in T : w[x] \in Nat
  PROVE  Weight(S, w) <= Weight(T, w)
<1>1. UnitsOf(S, w) \in SUBSET UnitsOf(T, w)
  BY DEF UnitsOf
<1>2. IsFiniteSet(UnitsOf(T, w))
  BY WeightType
<1> QED BY <1>1, <1>2, FS_Subset DEF Weight

\* The weight of a disjoint union is the sum of the weights.
LEMMA WeightDisjointUnion ==
  ASSUME NEW S, IsFiniteSet(S), NEW T, IsFiniteSet(T), S \cap T = {},
         NEW w, \A x \in S \cup T : w[x] \in Nat
  PROVE  Weight(S \cup T, w) = Weight(S, w) + Weight(T, w)
<1>1. UnitsOf(S \cup T, w) = UnitsOf(S, w) \cup UnitsOf(T, w)
  BY DEF UnitsOf
<1>2. UnitsOf(S, w) \cap UnitsOf(T, w) = {}
  BY UnitIsPair
<1>3. IsFiniteSet(UnitsOf(S, w)) /\ IsFiniteSet(UnitsOf(T, w))
  BY WeightType
<1>4. Weight(S, w) \in Nat /\ Weight(T, w) \in Nat
  BY WeightType
<1>5. Cardinality(UnitsOf(S, w) \cup UnitsOf(T, w))
        = Cardinality(UnitsOf(S, w)) + Cardinality(UnitsOf(T, w))
          - Cardinality(UnitsOf(S, w) \cap UnitsOf(T, w))
  BY <1>3, FS_Union
<1>6. Cardinality(UnitsOf(S, w) \cap UnitsOf(T, w)) = 0
  BY <1>2, FS_EmptySet
<1>7. Weight(S \cup T, w) = Weight(S, w) + Weight(T, w) - 0
  BY Zenon, <1>1, <1>5, <1>6 DEF Weight
<1> QED BY <1>4, <1>7

\* Weights that agree on S give S the same weight.
LEMMA WeightCongruence ==
  ASSUME NEW S, NEW w, NEW v, \A x \in S : w[x] = v[x]
  PROVE  Weight(S, w) = Weight(S, v)
<1>1. UnitsOf(S, w) = UnitsOf(S, v)
  BY DEF UnitsOf
<1> QED BY <1>1 DEF Weight

\* The empty set weighs nothing.
LEMMA WeightEmpty ==
  ASSUME NEW w
  PROVE  Weight({}, w) = 0
BY FS_EmptySet DEF Weight, UnitsOf

\* One holder weighs what it holds.
LEMMA WeightSingleton ==
  ASSUME NEW x, NEW w, w[x] \in Nat
  PROVE  Weight({x}, w) = w[x]
<1> DEFINE f == [i \in 1 .. w[x] |-> <<x, i>>]
           T == {x} \X (1 .. w[x])
<1>1. UnitsOf({x}, w) = T
  BY DEF UnitsOf
<1>2. IsFiniteSet(1 .. w[x]) /\ Cardinality(1 .. w[x]) = w[x]
  BY SMTT(30), FS_Interval
<1>3. f \in Bijection(1 .. w[x], T)
  <2>1. f \in [1 .. w[x] -> T]
    OBVIOUS
  <2>2. \A i, j \in 1 .. w[x] : f[i] = f[j] => i = j
    OBVIOUS
  <2>3. \A t \in T : \E i \in 1 .. w[x] : f[i] = t
    OBVIOUS
  <2> QED BY <2>1, <2>2, <2>3 DEF Bijection, Injection, Surjection, IsInjective
<1>4. ExistsBijection(1 .. w[x], T)
  BY Zenon, <1>3 DEF ExistsBijection
<1>5. Cardinality(T) = Cardinality(1 .. w[x])
  <2> HIDE DEF T
  <2> QED BY <1>2, <1>4, FS_Bijection
<1> QED BY Zenon, <1>1, <1>2, <1>5 DEF Weight

\* Changing what one member of S holds changes the weight by the difference.
LEMMA WeightUpdate ==
  ASSUME NEW S, IsFiniteSet(S), NEW x \in S,
         NEW w, \A y \in S : w[y] \in Nat,
         NEW v, \A y \in S : v[y] \in Nat,
         \A y \in S \ {x} : v[y] = w[y]
  PROVE  Weight(S, v) = Weight(S, w) - w[x] + v[x]
<1> DEFINE R == S \ {x}
<1>1. IsFiniteSet(R) /\ IsFiniteSet({x})
  BY Zenon, FS_RemoveElement, FS_Singleton
<1>2. R \cap {x} = {} /\ R \cup {x} = S
  OBVIOUS
<1>3. ASSUME NEW u, \A y \in S : u[y] \in Nat
      PROVE  Weight(S, u) = Weight(R, u) + u[x]
  <2>1. \A y \in R \cup {x} : u[y] \in Nat
    BY <1>3
  <2>2. Weight(R \cup {x}, u) = Weight(R, u) + Weight({x}, u)
    <3> HIDE DEF R
    <3> QED BY <1>1, <1>2, <2>1, WeightDisjointUnion
  <2>3. Weight({x}, u) = u[x]
    BY <2>1, WeightSingleton
  <2> QED BY <1>2, <2>2, <2>3
<1>4. Weight(S, w) = Weight(R, w) + w[x] /\ Weight(S, v) = Weight(R, v) + v[x]
  BY <1>3
<1>5. Weight(R, v) = Weight(R, w)
  BY WeightCongruence
<1>6. Weight(R, w) \in Nat
  BY <1>1, WeightType
<1> QED BY <1>4, <1>5, <1>6

\* A sum does not change when its members are renamed one to one.
LEMMA WeightReindex ==
  ASSUME NEW S, IsFiniteSet(S), NEW T, NEW f \in Bijection(S, T),
         NEW w, \A x \in S : w[x] \in Nat,
         NEW v, \A x \in S : v[f[x]] = w[x]
  PROVE  Weight(T, v) = Weight(S, w)
<1> DEFINE g == [u \in UnitsOf(S, w) |-> <<f[u[1]], u[2]>>]
<1>1. /\ f \in [S -> T]
      /\ \A a, b \in S : f[a] = f[b] => a = b
      /\ \A t \in T : \E x \in S : f[x] = t
  BY DEF Bijection, Injection, Surjection, IsInjective
<1>2. \A u \in UnitsOf(S, w) : u = <<u[1], u[2]>> /\ u[1] \in S /\ u[2] \in 1 .. w[u[1]]
  BY UnitIsPair
<1>3. \A u \in UnitsOf(T, v) : u = <<u[1], u[2]>> /\ u[1] \in T /\ u[2] \in 1 .. v[u[1]]
  BY UnitIsPair
<1>4. ASSUME NEW u \in UnitsOf(S, w)
      PROVE  g[u] \in UnitsOf(T, v)
  <2>1. f[u[1]] \in T /\ u[2] \in 1 .. v[f[u[1]]]
    BY <1>1, <1>2
  <2>2. <<f[u[1]], u[2]>> \in UnitsOf(T, v)
    BY <2>1, UnitMember
  <2> QED BY <2>2
<1>5. g \in [UnitsOf(S, w) -> UnitsOf(T, v)]
  BY <1>4
<1>6. ASSUME NEW a \in UnitsOf(S, w), NEW b \in UnitsOf(S, w), g[a] = g[b]
      PROVE  a = b
  <2>1. f[a[1]] = f[b[1]] /\ a[2] = b[2]
    BY <1>6
  <2>2. a[1] = b[1]
    BY <1>1, <1>2, <2>1
  <2> QED BY <1>2, <2>1, <2>2
<1>7. ASSUME NEW t \in UnitsOf(T, v)
      PROVE  \E u \in UnitsOf(S, w) : g[u] = t
  <2>1. PICK x \in S : f[x] = t[1]
    BY <1>1, <1>3
  <2>2. t[2] \in 1 .. w[x]
    BY <1>3, <2>1
  <2>3. <<x, t[2]>> \in UnitsOf(S, w)
    BY <2>2, UnitMember
  <2>4. g[<<x, t[2]>>] = t
    BY <1>3, <2>1, <2>3
  <2> QED BY <2>3, <2>4
<1>8. g \in Bijection(UnitsOf(S, w), UnitsOf(T, v))
  <2> HIDE DEF g
  <2>1. DOMAIN g = UnitsOf(S, w)
    BY <1>5
  <2> QED BY <1>5, <1>6, <1>7, <2>1 DEF Bijection, Injection, Surjection, IsInjective
<1>9. IsFiniteSet(UnitsOf(S, w))
  BY WeightType
<1>10. ExistsBijection(UnitsOf(S, w), UnitsOf(T, v))
  BY <1>8 DEF ExistsBijection
<1>11. Cardinality(UnitsOf(T, v)) = Cardinality(UnitsOf(S, w))
  BY <1>9, <1>10, FS_Bijection
<1> QED BY <1>11 DEF Weight
=============================================================================
