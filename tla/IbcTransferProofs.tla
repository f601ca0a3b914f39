-------------------------- MODULE IbcTransferProofs -------------------------
(***************************************************************************)
(* Proofs about the token registry and the transfers to other chains.      *)
(* First what the lookup in a list finds and how the messages change it,   *)
(* then the type invariant with the coins that exist, then the escrow of   *)
(* each channel and the sums of all coins.                                 *)
(***************************************************************************)
EXTENDS IbcTransfer, WeightTheorems, WellFoundedInduction

----------------------------------------------------------------------------
(* The list and the lookup.                                                 *)

\* A set of numbers that is not empty has a smallest member.
LEMMA Smallest ==
  ASSUME NEW S \in SUBSET Nat, S # {}
  PROVE  Min(S) \in S /\ \A n \in S : Min(S) <= n
<1>1. PICK R : IsWellFoundedOn(R, Nat) /\ \A m, n \in Nat : m < n => <<m, n>> \in R
  <2>1. \A m, n \in Nat : m < n => <<m, n>> \in OpToRel(<, Nat)
    BY Zenon DEF OpToRel
  <2> QED BY Zenon, <2>1, NatLessThanWellFounded
<1>2. PICK m \in S : \A n \in S : ~(<<n, m>> \in R)
  <2>1. S \subseteq Nat
    BY Zenon
  <2>2. IsWellFoundedOn(R, Nat)
    BY Zenon, <1>1
  <2>3. \E m \in S : \A n \in S : ~(<<n, m>> \in R)
    BY Zenon, <2>1, <2>2, WFMin
  <2> QED BY Zenon, <2>3
<1>3. \A n \in S : m <= n
  <2>1. \A n \in S : m \in Nat /\ n \in Nat
    BY Zenon
  <2>2. \A n \in S : ~(n < m)
    BY Zenon, <1>1, <1>2, <2>1
  <2> QED BY <2>1, <2>2
<1> QED BY Zenon, <1>3 DEF Min

\* The first entry of a name.
First(wl, denom, i) ==
  /\ i \in 1 .. Len(wl)
  /\ EqualFold(wl[i].denom, denom)
  /\ \A j \in 1 .. Len(wl) : j < i => ~EqualFold(wl[j].denom, denom)

LEMMA FindFirst ==
  ASSUME NEW S, NEW wl \in Seq(S), NEW denom
  PROVE  /\ Find(wl, denom) \in 0 .. Len(wl)
         /\ Find(wl, denom) # 0 => First(wl, denom, Find(wl, denom))
         /\ Find(wl, denom) = 0 => \A i \in 1 .. Len(wl) : ~EqualFold(wl[i].denom, denom)
<1> DEFINE I == {i \in 1 .. Len(wl) : EqualFold(wl[i].denom, denom)}
<1>1. Find(wl, denom) = IF I # {} THEN Min(I) ELSE 0
  <2>1. DOMAIN wl = 1 .. Len(wl)
    OBVIOUS
  <2> QED BY Zenon, <2>1 DEF Find
<1>2. Len(wl) \in Nat
  OBVIOUS
<1>3. I \in SUBSET Nat
  BY <1>2
<1>4. CASE I = {}
  BY <1>1, <1>2, <1>4
<1>5. CASE I # {}
  <2>1. Min(I) \in I /\ \A n \in I : Min(I) <= n
    BY Zenon, <1>3, <1>5, Smallest
  <2>2. PICK m : m = Min(I)
    BY Zenon
  <2>3. m \in I /\ \A n \in I : m <= n
    BY Zenon, <2>1, <2>2
  <2>4. \A j \in 1 .. Len(wl) : j < m => j \notin I
    BY <2>3, <1>3
  <2>5. First(wl, denom, m)
    BY Zenon, <2>3, <2>4 DEF First
  <2> QED BY <1>1, <1>2, <1>5, <2>2, <2>3, <2>5
<1> QED BY Zenon, <1>4, <1>5

LEMMA FirstUnique ==
  ASSUME NEW S, NEW wl \in Seq(S), NEW denom, NEW i, First(wl, denom, i)
  PROVE  Find(wl, denom) = i
<1>1. Find(wl, denom) # 0
  BY Zenon, FindFirst DEF First
<1>2. First(wl, denom, Find(wl, denom))
  BY Zenon, <1>1, FindFirst
<1> QED BY <1>2 DEF First

Rank(S, i) == Cardinality({j \in S : j <= i})

\* Ranks follow the order, and every number up to the size of the set is the rank of one member.
LEMMA Ranks ==
  ASSUME NEW S \in SUBSET Nat, IsFiniteSet(S)
  PROVE  /\ Cardinality(S) \in Nat
         /\ \A i \in S : Rank(S, i) \in 1 .. Cardinality(S)
         /\ \A i, j \in S : i < j => Rank(S, i) < Rank(S, j)
         /\ \A n \in 1 .. Cardinality(S) : \E i \in S : Rank(S, i) = n
<1> DEFINE Upto(i) == {j \in S : j <= i}
           K == Cardinality(S)
<1>1. K \in Nat
  BY Zenon, FS_CardinalityType
<1>2. ASSUME NEW i \in S
      PROVE  IsFiniteSet(Upto(i)) /\ Rank(S, i) \in 1 .. K
  <2>1. Upto(i) \in SUBSET S
    BY Zenon
  <2>2. IsFiniteSet(Upto(i)) /\ Cardinality(Upto(i)) <= K
    BY Zenon, <2>1, FS_Subset
  <2>3. Cardinality(Upto(i)) \in Nat
    BY Zenon, <2>2, FS_CardinalityType
  <2>4. i \in Upto(i)
    OBVIOUS
  <2>5. Cardinality(Upto(i)) # 0
    BY Zenon, <2>2, <2>4, FS_EmptySet
  <2>6. Rank(S, i) = Cardinality(Upto(i))
    BY Zenon DEF Rank
  <2> HIDE DEF Upto
  <2> QED BY <1>1, <2>2, <2>3, <2>5, <2>6
<1>3. ASSUME NEW i \in S, NEW j \in S, i < j
      PROVE  Rank(S, i) < Rank(S, j)
  <2>1. Upto(i) \in SUBSET Upto(j)
    <3>1. \A k \in S : k <= i => k <= j
      BY <1>3
    <3> QED BY Zenon, <3>1
  <2>2. j \in Upto(j) /\ j \notin Upto(i)
    BY <1>3
  <2>3. Upto(i) # Upto(j)
    BY Zenon, <2>2
  <2>4. IsFiniteSet(Upto(j)) /\ Rank(S, i) \in 1 .. K /\ Rank(S, j) \in 1 .. K
    BY Zenon, <1>2
  <2>5. Rank(S, i) = Cardinality(Upto(i)) /\ Rank(S, j) = Cardinality(Upto(j))
    BY Zenon DEF Rank
  <2> HIDE DEF Upto
  <2>6. Cardinality(Upto(i)) <= Cardinality(Upto(j)) /\ Cardinality(Upto(i)) # Cardinality(Upto(j))
    BY Zenon, <2>1, <2>3, <2>4, FS_Subset
  <2> QED BY <1>1, <2>4, <2>5, <2>6
<1>4. ASSUME NEW n \in 1 .. K
      PROVE  \E i \in S : Rank(S, i) = n
  <2> DEFINE f == [i \in S |-> Rank(S, i)]
             T == 1 .. K
  <2>1. f \in [S -> T]
    BY Zenon, <1>2
  <2>2. \A i, j \in S : i # j => i < j \/ j < i
    OBVIOUS
  <2>3. \A i, j \in S : f[i] = f[j] => i = j
    <3> SUFFICES ASSUME NEW i \in S, NEW j \in S, f[i] = f[j], i # j
                 PROVE  FALSE
      BY Zenon
    <3>1. Rank(S, i) = Rank(S, j)
      BY Zenon
    <3>2. Rank(S, i) \in 1 .. K
      BY Zenon, <1>2
    <3> QED BY <3>1, <3>2, <1>1, <1>3, <2>2
  <2>4. f \in Injection(S, T)
    BY Zenon, <2>1, <2>3 DEF Injection, IsInjective
  <2>5. IsFiniteSet(T) /\ Cardinality(T) = K
    BY SMTT(30), <1>1, FS_Interval
  <2>6. f \in Surjection(S, T)
    <3> HIDE DEF f, T
    <3> QED BY Zenon, <2>4, <2>5, FS_Injection
  <2>7. \E i \in S : f[i] = n
    BY Zenon, <2>6 DEF Surjection
  <2> QED BY Zenon, <2>7
<1> QED BY Zenon, <1>1, <1>2, <1>3, <1>4

\* The members of a set by their rank.
LEMMA NthMember ==
  ASSUME NEW S \in SUBSET Nat, IsFiniteSet(S)
  PROVE  /\ \A n \in 1 .. Cardinality(S) : Nth(S, n) \in S
         /\ \A m, n \in 1 .. Cardinality(S) : m < n => Nth(S, m) < Nth(S, n)
         /\ \A i \in S : \E n \in 1 .. Cardinality(S) : Nth(S, n) = i
<1> DEFINE K == Cardinality(S)
<1>1. \A n \in 1 .. K : Nth(S, n) \in S /\ Rank(S, Nth(S, n)) = n
  <2> TAKE n \in 1 .. K
  <2>1. \E i \in S : Rank(S, i) = n
    BY Zenon, Ranks
  <2>2. \E i \in S : Cardinality({j \in S : j <= i}) = n
    BY Zenon, <2>1 DEF Rank
  <2> QED BY Zenon, <2>2 DEF Nth, Rank
<1>2. \A i, j \in S : Rank(S, i) = Rank(S, j) => i = j
  <2>1. \A i, j \in S : i # j => i < j \/ j < i
    OBVIOUS
  <2>2. \A i, j \in S : i < j => Rank(S, i) # Rank(S, j)
    BY Ranks
  <2> QED BY Zenon, <2>1, <2>2
<1>3. \A i \in S : Rank(S, i) \in 1 .. K /\ Nth(S, Rank(S, i)) = i
  BY Zenon, <1>1, <1>2, Ranks
<1>4. ASSUME NEW m \in 1 .. K, NEW n \in 1 .. K, m < n
      PROVE  Nth(S, m) < Nth(S, n)
  <2>1. PICK i \in S : i = Nth(S, m) /\ Rank(S, i) = m
    BY Zenon, <1>1
  <2>2. PICK j \in S : j = Nth(S, n) /\ Rank(S, j) = n
    BY Zenon, <1>1
  <2>3. CASE i < j
    BY Zenon, <2>1, <2>2, <2>3
  <2>4. CASE i = j
    BY <2>1, <2>2, <2>4, <1>4, Ranks
  <2>5. CASE j < i
    BY <2>1, <2>2, <2>5, <1>4, Ranks
  <2> QED BY <2>3, <2>4, <2>5
<1> QED BY Zenon, <1>1, <1>3, <1>4

LEMMA FoldLaws ==
  /\ \A n \in Denoms : EqualFold(n, n)
  /\ \A m, n : EqualFold(m, n) => EqualFold(n, m)
  /\ \A m, n, k : EqualFold(m, n) /\ EqualFold(n, k) => EqualFold(m, k)
BY Zenon, RegistryAssumption DEF EqualFold

\* A name finds the same entry in two lists, or none in both.
SameLookup(v, w, n) ==
  /\ Find(v, n) # 0 <=> Find(w, n) # 0
  /\ Find(w, n) # 0 => v[Find(v, n)] = w[Find(w, n)]

LEMMA SameFirst ==
  ASSUME NEW S, NEW v \in Seq(S), NEW w \in Seq(S), NEW n,
         \A i : First(w, n, i) => \E j : First(v, n, j) /\ v[j] = w[i],
         \A j \in 1 .. Len(v) : EqualFold(v[j].denom, n) =>
           \E i \in 1 .. Len(w) : EqualFold(w[i].denom, n)
  PROVE  SameLookup(v, w, n)
<1>1. CASE Find(w, n) # 0
  <2>1. First(w, n, Find(w, n))
    BY Zenon, <1>1, FindFirst
  <2>2. PICK j : First(v, n, j) /\ v[j] = w[Find(w, n)]
    BY Zenon, <2>1
  <2>3. Find(v, n) = j
    BY Zenon, <2>2, FirstUnique
  <2>4. j # 0
    BY <2>2 DEF First
  <2> QED BY Zenon, <1>1, <2>2, <2>3, <2>4 DEF SameLookup
<1>2. CASE Find(w, n) = 0
  <2>1. \A i \in 1 .. Len(w) : ~EqualFold(w[i].denom, n)
    BY Zenon, <1>2, FindFirst
  <2>2. \A j \in 1 .. Len(v) : ~EqualFold(v[j].denom, n)
    BY Zenon, <2>1
  <2>3. Find(v, n) = 0
    BY Zenon, <2>2, FindFirst DEF First
  <2> QED BY Zenon, <1>2, <2>3 DEF SameLookup
<1> QED BY Zenon, <1>1, <1>2

\* The list after SetToken.
WithToken(wl, e) ==
  IF Find(wl, e.denom) # 0 THEN [wl EXCEPT ![Find(wl, e.denom)] = e] ELSE Append(wl, e)

LEMMA WithTokenLookup ==
  ASSUME NEW S, NEW wl \in Seq(S), NEW e \in S, e.denom \in Denoms
  PROVE  /\ WithToken(wl, e) \in Seq(S)
         /\ Find(WithToken(wl, e), e.denom) # 0
         /\ WithToken(wl, e)[Find(WithToken(wl, e), e.denom)] = e
         /\ \A n : ~EqualFold(n, e.denom) => SameLookup(WithToken(wl, e), wl, n)
<1>1. PICK v : v = WithToken(wl, e)
  BY Zenon
<1>2. PICK d : d = e.denom
  BY Zenon
<1>3. EqualFold(d, d)
  BY Zenon, <1>2, FoldLaws
<1>4. Len(wl) \in Nat
  OBVIOUS
<1>5. PICK k \in 1 .. Len(v) :
        /\ v \in Seq(S) /\ v[k] = e /\ First(v, d, k)
        /\ \A i \in 1 .. Len(wl) : i # k => i \in 1 .. Len(v) /\ v[i] = wl[i]
        /\ \A i \in 1 .. Len(v) : i # k => i \in 1 .. Len(wl) /\ v[i] = wl[i]
        /\ k \in 1 .. Len(wl) => EqualFold(wl[k].denom, d)
        /\ \A i \in 1 .. Len(wl) : i < k => i \in 1 .. Len(v)
  <2>1. CASE Find(wl, d) # 0
    <3>1. PICK k : k = Find(wl, d)
      BY Zenon
    <3>2. First(wl, d, k)
      BY Zenon, <2>1, <3>1, FindFirst
    <3>3. v = [wl EXCEPT ![k] = e]
      BY Zenon, <1>1, <1>2, <2>1, <3>1 DEF WithToken
    <3>4. k \in 1 .. Len(wl) /\ EqualFold(wl[k].denom, d)
      BY Zenon, <3>2 DEF First
    <3>5. v \in Seq(S) /\ Len(v) = Len(wl) /\ v[k] = e /\ \A i \in 1 .. Len(wl) : i # k => v[i] = wl[i]
      BY <3>3, <3>4
    <3>6. First(v, d, k)
      BY Zenon, <1>2, <1>3, <1>4, <3>2, <3>4, <3>5 DEF First
    <3> QED BY Zenon, <1>4, <3>4, <3>5, <3>6
  <2>2. CASE Find(wl, d) = 0
    <3>1. PICK k : k = Len(wl) + 1
      BY Zenon
    <3>2. v = Append(wl, e)
      BY Zenon, <1>1, <1>2, <2>2 DEF WithToken
    <3>3. v \in Seq(S) /\ Len(v) = k /\ v[k] = e /\ \A i \in 1 .. Len(wl) : v[i] = wl[i]
      BY <3>1, <3>2
    <3>4. \A i \in 1 .. Len(wl) : ~EqualFold(wl[i].denom, d)
      BY Zenon, <2>2, FindFirst
    <3>5. First(v, d, k)
      BY <1>2, <1>3, <1>4, <3>1, <3>3, <3>4 DEF First
    <3> QED BY <1>4, <3>1, <3>3, <3>4, <3>5
  <2> QED BY Zenon, <2>1, <2>2
<1>6. Find(v, d) = k /\ k # 0
  BY <1>5, FirstUnique
<1>7. ASSUME NEW n, ~EqualFold(n, d)
      PROVE  SameLookup(v, wl, n)
  <2>1. \A i \in 1 .. Len(wl) : EqualFold(wl[i].denom, n) => i # k
    BY Zenon, <1>5, <1>7, FoldLaws
  <2>2. \A i \in 1 .. Len(v) : EqualFold(v[i].denom, n) => i # k
    <3>1. v[k].denom = d
      BY Zenon, <1>2, <1>5
    <3>2. ~EqualFold(d, n)
      BY Zenon, <1>7, FoldLaws
    <3> QED BY Zenon, <3>1, <3>2
  <2>3. \A i : First(wl, n, i) => First(v, n, i) /\ v[i] = wl[i]
    <3> SUFFICES ASSUME NEW i, First(wl, n, i)
                 PROVE  First(v, n, i) /\ v[i] = wl[i]
      BY Zenon
    <3>1. i \in 1 .. Len(wl) /\ i # k /\ EqualFold(wl[i].denom, n)
      BY Zenon, <2>1 DEF First
    <3>2. i \in 1 .. Len(v) /\ v[i] = wl[i]
      BY Zenon, <1>5, <3>1
    <3>3. \A j \in 1 .. Len(v) : j < i => ~EqualFold(v[j].denom, n)
      BY Zenon, <1>5, <2>2 DEF First
    <3> QED BY Zenon, <3>1, <3>2, <3>3 DEF First
  <2>4. \A j \in 1 .. Len(v) : EqualFold(v[j].denom, n) =>
          j \in 1 .. Len(wl) /\ EqualFold(wl[j].denom, n)
    BY Zenon, <1>5, <2>2
  <2>5. v \in Seq(S)
    BY Zenon, <1>5
  <2> QED BY Zenon, <2>3, <2>4, <2>5, SameFirst
<1> QED BY Zenon, <1>1, <1>2, <1>5, <1>6, <1>7

\* The list after RemoveToken.
Kept(wl, d) == {i \in DOMAIN wl : ~EqualFold(wl[i].denom, d)}

WithoutToken(wl, d) ==
  [n \in 1 .. Cardinality(Kept(wl, d)) |-> wl[Nth(Kept(wl, d), n)]]

LEMMA WithoutTokenLookup ==
  ASSUME NEW S, NEW wl \in Seq(S), NEW d
  PROVE  /\ WithoutToken(wl, d) \in Seq(S)
         /\ Find(WithoutToken(wl, d), d) = 0
         /\ \A n : ~EqualFold(n, d) => SameLookup(WithoutToken(wl, d), wl, n)
<1>1. PICK v : v = WithoutToken(wl, d)
  BY Zenon
<1>2. PICK I : I = {i \in 1 .. Len(wl) : ~EqualFold(wl[i].denom, d)}
  BY Zenon
<1>3. Len(wl) \in Nat /\ DOMAIN wl = 1 .. Len(wl)
  OBVIOUS
<1>4. I \in SUBSET Nat /\ IsFiniteSet(I)
  <2>1. IsFiniteSet(1 .. Len(wl))
    BY SMTT(30), <1>3, FS_Interval
  <2>2. I \in SUBSET (1 .. Len(wl))
    BY Zenon, <1>2
  <2>3. IsFiniteSet(I)
    BY Zenon, <2>1, <2>2, FS_Subset
  <2> QED BY <1>3, <2>2, <2>3
<1>5. PICK K \in Nat : K = Cardinality(I)
  BY Zenon, <1>4, FS_CardinalityType
<1>6. v = [n \in 1 .. K |-> wl[Nth(I, n)]]
  <2>1. Kept(wl, d) = I
    BY Zenon, <1>2, <1>3 DEF Kept
  <2> QED BY Zenon, <1>1, <1>5, <2>1 DEF WithoutToken
<1>7. /\ \A n \in 1 .. K : Nth(I, n) \in I
      /\ \A m, n \in 1 .. K : m < n => Nth(I, m) < Nth(I, n)
      /\ \A i \in I : \E n \in 1 .. K : Nth(I, n) = i
  BY Zenon, <1>4, <1>5, NthMember
<1>8. \A n \in 1 .. K : Nth(I, n) \in 1 .. Len(wl) /\ ~EqualFold(wl[Nth(I, n)].denom, d)
  BY Zenon, <1>2, <1>7
<1>9. v \in Seq(S) /\ Len(v) = K /\ \A n \in 1 .. K : v[n] = wl[Nth(I, n)]
  BY <1>5, <1>6, <1>8
<1>10. Find(v, d) = 0
  <2>1. \A n \in 1 .. Len(v) : ~EqualFold(v[n].denom, d)
    BY Zenon, <1>8, <1>9
  <2> QED BY Zenon, <1>9, <2>1, FindFirst DEF First
<1>11. ASSUME NEW n, ~EqualFold(n, d)
       PROVE  SameLookup(v, wl, n)
  <2>1. ASSUME NEW i, First(wl, n, i)
        PROVE  \E j : First(v, n, j) /\ v[j] = wl[i]
    <3>1. i \in 1 .. Len(wl) /\ EqualFold(wl[i].denom, n)
      BY Zenon, <2>1 DEF First
    <3>2. ~EqualFold(wl[i].denom, d)
      BY Zenon, <1>11, <3>1, FoldLaws
    <3>3. PICK j \in 1 .. K : Nth(I, j) = i
      BY Zenon, <1>2, <1>7, <3>1, <3>2
    <3>4. v[j] = wl[i] /\ j \in 1 .. Len(v)
      BY Zenon, <1>9, <3>3
    <3>5. \A m \in 1 .. K : m < j => Nth(I, m) < i
      BY Zenon, <1>7, <3>3
    <3>6. \A m \in 1 .. Len(v) : m < j => ~EqualFold(v[m].denom, n)
      BY Zenon, <1>8, <1>9, <2>1, <3>5 DEF First
    <3> QED BY Zenon, <3>1, <3>4, <3>6 DEF First
  <2>2. \A j \in 1 .. Len(v) : EqualFold(v[j].denom, n) =>
          \E i \in 1 .. Len(wl) : EqualFold(wl[i].denom, n)
    BY Zenon, <1>8, <1>9
  <2>3. v \in Seq(S)
    BY Zenon, <1>9
  <2> QED BY Zenon, <2>1, <2>2, <2>3, SameFirst
<1> QED BY Zenon, <1>1, <1>9, <1>10, <1>11

----------------------------------------------------------------------------
(* The registry holds entries that messages carried, up to the permissions  *)
(* that the migration adds.                                                 *)

WrittenEntries ==
  {e \in RegistryEntry : \E f \in Entries : /\ e.denom = f.denom
                                            /\ e.unit = f.unit
                                            /\ e.decimals = f.decimals}

RegistryInv == registry \in Seq(WrittenEntries)

LEMMA EntriesWritten ==
  /\ Entries \subseteq WrittenEntries
  /\ \A e \in WrittenEntries : e.denom \in Denoms
  /\ \A l \in Seq(Entries) : l \in Seq(WrittenEntries)
<1>1. Entries \subseteq WrittenEntries
  BY Zenon, RegistryAssumption DEF WrittenEntries
<1>2. \A e \in WrittenEntries : e.denom \in Denoms
  BY Zenon DEF WrittenEntries, RegistryEntry
<1> QED BY <1>1, <1>2

LEMMA RegisterIs ==
  ASSUME NEW from, NEW e, Register(from, e)
  PROVE  registry' = WithToken(registry, e)
BY Zenon DEF Register, SetToken, WithToken, Listed, Position

LEMMA DeregisterIs ==
  ASSUME NEW from, NEW d, Deregister(from, d)
  PROVE  registry' = WithoutToken(registry, d)
BY Zenon DEF Deregister, RemoveToken, WithoutToken, Kept

LEMMA MigrateKeepsEntries ==
  ASSUME RegistryInv, MigrateToVer2
  PROVE  RegistryInv'
<1>1. Len(registry) \in Nat /\ DOMAIN registry = 1 .. Len(registry)
      /\ \A i \in 1 .. Len(registry) : registry[i] \in WrittenEntries
  BY DEF RegistryInv
<1>2. \A i \in 1 .. Len(registry) :
        [registry[i] EXCEPT !.permissions = @ \cup {"IBCIMPORT"}] \in WrittenEntries
  <2> TAKE i \in 1 .. Len(registry)
  <2>1. PICK e \in WrittenEntries : e = registry[i]
    BY Zenon, <1>1
  <2>2. e \in RegistryEntry
    BY Zenon DEF WrittenEntries
  <2>3. PICK f \in Entries : e.denom = f.denom /\ e.unit = f.unit /\ e.decimals = f.decimals
    BY Zenon DEF WrittenEntries
  <2>4. PICK g : g = [e EXCEPT !.permissions = @ \cup {"IBCIMPORT"}]
    BY Zenon
  <2>5. /\ g \in RegistryEntry
        /\ g.denom = e.denom /\ g.unit = e.unit /\ g.decimals = e.decimals
    BY Zenon, <2>2, <2>4 DEF RegistryEntry, Permissions
  <2>6. g \in WrittenEntries
    BY Zenon, <2>3, <2>5 DEF WrittenEntries
  <2> QED BY Zenon, <2>1, <2>4, <2>6
<1>3. \A i \in 1 .. Len(registry) : registry'[i] \in WrittenEntries
  BY Zenon, <1>1, <1>2 DEF MigrateToVer2
<1>4. registry' = [i \in 1 .. Len(registry) |-> registry'[i]]
  BY Zenon, <1>1 DEF MigrateToVer2
<1>5. PICK r : r = registry'
  BY Zenon
<1>6. r \in Seq(WrittenEntries)
  BY <1>1, <1>3, <1>4, <1>5
<1> QED BY Zenon, <1>5, <1>6 DEF RegistryInv

LEMMA AdministerKeepsEntries ==
  ASSUME RegistryInv, Administer
  PROVE  RegistryInv'
<1>1. ASSUME NEW from, NEW e \in Entries, Register(from, e)
      PROVE  RegistryInv'
  <2>1. e \in WrittenEntries /\ e.denom \in Denoms
    BY Zenon, EntriesWritten
  <2>2. WithToken(registry, e) \in Seq(WrittenEntries)
    BY Zenon, <2>1, WithTokenLookup DEF RegistryInv
  <2> QED BY Zenon, <1>1, <2>2, RegisterIs DEF RegistryInv
<1>2. ASSUME NEW from, NEW l \in Lists, SetRegistry(from, l)
      PROVE  RegistryInv'
  BY Zenon, <1>2, EntriesWritten, RegistryAssumption DEF SetRegistry, RegistryInv
<1>3. ASSUME NEW from, NEW d, Deregister(from, d)
      PROVE  RegistryInv'
  <2>1. WithoutToken(registry, d) \in Seq(WrittenEntries)
    BY Zenon, WithoutTokenLookup DEF RegistryInv
  <2> QED BY Zenon, <1>3, <2>1, DeregisterIs DEF RegistryInv
<1> QED BY Zenon, <1>1, <1>2, <1>3, MigrateKeepsEntries DEF Administer

LEMMA RegistryInvariant == IbcSpec => []RegistryInv
<1>1. IbcInit => RegistryInv
  BY Zenon, EntriesWritten, IbcAssumption DEF IbcInit, RegistryInv
<1>2. RegistryInv /\ [IbcNext]_ibcVars => RegistryInv'
  <2> SUFFICES ASSUME RegistryInv, [IbcNext]_ibcVars
               PROVE  RegistryInv'
    BY Zenon
  <2>1. CASE Administer
    BY Zenon, <2>1, AdministerKeepsEntries
  <2>2. CASE UNCHANGED registry
    BY Zenon, <2>2 DEF RegistryInv
  <2>3. ASSUME NEW u, NEW c, NEW d, NEW n, Transfer(u, c, d, n)
        PROVE  UNCHANGED registry
    BY Zenon, <2>3 DEF Transfer
  <2>4. ASSUME NEW u, NEW c, NEW r, NEW d, NEW n, SendHome(u, c, r, d, n)
        PROVE  UNCHANGED registry
    BY Zenon, <2>4 DEF SendHome
  <2>5. ASSUME NEW p, \/ OnAcknowledgementPacket(p) \/ OnTimeoutPacket(p)
                      \/ OnRecvPacketWhitelistConvert(p) \/ TimeoutAbroad(p)
        PROVE  UNCHANGED registry
    BY Zenon, <2>5 DEF OnAcknowledgementPacket, OnTimeoutPacket, OnRecvPacketWhitelistConvert, TimeoutAbroad
  <2>6. CASE UNCHANGED ibcVars
    BY Zenon, <2>6, <2>2 DEF ibcVars
  <2> QED BY Zenon, <2>1, <2>2, <2>3, <2>4, <2>5, <2>6 DEF IbcNext
<1> QED BY <1>1, <1>2, PTL DEF IbcSpec

\* The names of S find in the new registry what they found in the old.
LEMMA FoundSame ==
  ASSUME NEW S, \A n \in S : SameLookup(registry', registry, n)
  PROVE  Found(S)' = Found(S)
<1>1. \A n \in S : Listed(n)' <=> Listed(n)
  BY Zenon DEF SameLookup, Listed, Position
<1>2. \A n \in S : Listed(n) => GetEntry(n)' = GetEntry(n)
  BY Zenon DEF SameLookup, Listed, Position, GetEntry
<1> QED BY Zenon, <1>1, <1>2 DEF Found

\* The lookup answers as a map from names to entries would: a registered entry is found under
\* its name, a removed name is not found, and other names find what they found before, for
\* every list, also with repeated names (GetEntry, SetToken and RemoveToken of the keeper).
THEOREM LookupIsAMap == IbcSpec => LookupFollowsMessages
<1>1. ASSUME RegistryInv, registry' # registry
      PROVE  /\ \A e \in Entries : Register(AdminAccount, e) =>
                  /\ GetEntry(e.denom)' = e
                  /\ Found(Others(e.denom))' = Found(Others(e.denom))
             /\ \A d \in Denoms : Deregister(AdminAccount, d) =>
                  /\ ~Listed(d)'
                  /\ Found(Others(d))' = Found(Others(d))
  <2>1. ASSUME NEW e \in Entries, Register(AdminAccount, e)
        PROVE  /\ GetEntry(e.denom)' = e
               /\ Found(Others(e.denom))' = Found(Others(e.denom))
    <3>1. registry' = WithToken(registry, e)
      BY Zenon, <2>1, RegisterIs
    <3>2. e \in WrittenEntries /\ e.denom \in Denoms
      BY Zenon, EntriesWritten
    <3>3. registry'[Find(registry', e.denom)] = e
      BY Zenon, <1>1, <3>1, <3>2, WithTokenLookup DEF RegistryInv
    <3>4. \A n : ~EqualFold(n, e.denom) => SameLookup(registry', registry, n)
      BY Zenon, <1>1, <3>1, <3>2, WithTokenLookup DEF RegistryInv
    <3>5. \A n \in Others(e.denom) : SameLookup(registry', registry, n)
      BY Zenon, <3>4 DEF Others
    <3>6. Found(Others(e.denom))' = Found(Others(e.denom))
      BY Zenon, <3>5, FoundSame
    <3>7. GetEntry(e.denom)' = e
      BY Zenon, <3>3 DEF GetEntry, Position
    <3> QED BY Zenon, <3>6, <3>7
  <2>2. ASSUME NEW d \in Denoms, Deregister(AdminAccount, d)
        PROVE  ~Listed(d)' /\ Found(Others(d))' = Found(Others(d))
    <3>1. registry' = WithoutToken(registry, d)
      BY Zenon, <2>2, DeregisterIs
    <3>2. Find(registry', d) = 0
      BY Zenon, <1>1, <3>1, WithoutTokenLookup DEF RegistryInv
    <3>3. \A n : ~EqualFold(n, d) => SameLookup(registry', registry, n)
      BY Zenon, <1>1, <3>1, WithoutTokenLookup DEF RegistryInv
    <3>4. \A n \in Others(d) : SameLookup(registry', registry, n)
      BY Zenon, <3>3 DEF Others
    <3>5. Found(Others(d))' = Found(Others(d))
      BY Zenon, <3>4, FoundSame
    <3> QED BY Zenon, <3>2, <3>5 DEF Listed, Position
  <2> QED BY Zenon, <2>1, <2>2
<1> QED BY <1>1, RegistryInvariant, PTL DEF LookupFollowsMessages

----------------------------------------------------------------------------
(* Packets on their way, and the sums over them.                            *)

Packet ==
  [id : Nat, home : BOOLEAN, channel : Channels, returning : BOOLEAN, denom : Coins,
   amount : Nat \ {0}, user : Users]

Fits(p, c, d, r, h) == p.channel = c /\ p.denom = d /\ p.returning = r /\ p.home = h

Load(P, c, d, r, h) == Weight({p \in P : Fits(p, c, d, r, h)}, [p \in P |-> p.amount])

LEMMA CarriedIsLoad ==
  ASSUME NEW c, NEW d, NEW r, NEW h
  PROVE  /\ Carried(c, d, r, h) = Load(packets, c, d, r, h)
         /\ Carried(c, d, r, h)' = Load(packets', c, d, r, h)
BY Zenon DEF Carried, Load, Fits

\* What one more packet changes in a sum.
LoadGrows(P, p, c, d, r, h) ==
  /\ Load(P, c, d, r, h) \in Nat
  /\ Fits(p, c, d, r, h) => Load(P \cup {p}, c, d, r, h) = Load(P, c, d, r, h) + p.amount
  /\ ~Fits(p, c, d, r, h) => Load(P \cup {p}, c, d, r, h) = Load(P, c, d, r, h) + 0

LEMMA LoadAdd ==
  ASSUME NEW P, IsFiniteSet(P), NEW p, p \notin P, \A q \in P \cup {p} : q.amount \in Nat,
         NEW c, NEW d, NEW r, NEW h
  PROVE  LoadGrows(P, p, c, d, r, h)
<1> DEFINE S == {q \in P : Fits(q, c, d, r, h)}
           T == {q \in P \cup {p} : Fits(q, c, d, r, h)}
           w == [q \in P |-> q.amount]
           v == [q \in P \cup {p} |-> q.amount]
<1>1. IsFiniteSet(S)
  <2>1. S \in SUBSET P
    BY Zenon
  <2> QED BY Zenon, <2>1, FS_Subset
<1>2. \A q \in S : w[q] \in Nat /\ v[q] \in Nat /\ w[q] = v[q]
  BY Zenon
<1>3. Weight(S, w) = Weight(S, v)
  BY Zenon, <1>2, WeightCongruence
<1>4. Weight(S, v) \in Nat
  BY Zenon, <1>1, <1>2, WeightType
<1>5. Load(P, c, d, r, h) = Weight(S, w) /\ Load(P \cup {p}, c, d, r, h) = Weight(T, v)
  BY Zenon DEF Load
<1>6. CASE Fits(p, c, d, r, h)
  <2>1. T = S \cup {p} /\ S \cap {p} = {}
    BY Zenon, <1>6
  <2>2. v[p] = p.amount /\ p.amount \in Nat
    BY Zenon
  <2>3. \A q \in S \cup {p} : v[q] \in Nat
    BY Zenon
  <2> HIDE DEF S, T, v, w
  <2>4. IsFiniteSet({p})
    BY Zenon, FS_Singleton
  <2>5. Weight(S \cup {p}, v) = Weight(S, v) + Weight({p}, v)
    BY <1>1, <2>1, <2>3, <2>4, WeightDisjointUnion
  <2>6. Weight({p}, v) = p.amount
    BY Zenon, <2>2, WeightSingleton
  <2> QED BY Zenon, <1>3, <1>4, <1>5, <1>6, <2>1, <2>5, <2>6 DEF LoadGrows
<1>7. CASE ~Fits(p, c, d, r, h)
  <2>1. T = S
    BY Zenon, <1>7
  <2> HIDE DEF S, T, v, w
  <2> QED BY <1>3, <1>4, <1>5, <1>7, <2>1 DEF LoadGrows
<1> QED BY Zenon, <1>6, <1>7

\* Coins of d that left through c and may come back, and vouchers of c on their way.
Leaving(P, c, d) == Load(P, c, d, FALSE, FALSE) + Load(P, c, d, TRUE, TRUE)

VoucherPacket(p) == p.home # p.returning => p.denom = Voucher[p.channel]

Waiting(P, c) == Load(P, c, Voucher[c], TRUE, FALSE) + Load(P, c, Voucher[c], FALSE, TRUE)

\* What one more packet changes in both.
Grows(P, Q, p, c) ==
  /\ Waiting(P, c) \in Nat
  /\ p.home # p.returning /\ c = p.channel => Waiting(Q, c) = Waiting(P, c) + p.amount
  /\ ~(p.home # p.returning /\ c = p.channel) => Waiting(Q, c) = Waiting(P, c) + 0
  /\ \A d :
       /\ Leaving(P, c, d) \in Nat
       /\ p.home = p.returning /\ c = p.channel /\ d = p.denom =>
            Leaving(Q, c, d) = Leaving(P, c, d) + p.amount
       /\ ~(p.home = p.returning /\ c = p.channel /\ d = p.denom) =>
            Leaving(Q, c, d) = Leaving(P, c, d) + 0

LEMMA PacketAdded ==
  ASSUME NEW P \in SUBSET Packet, IsFiniteSet(P), NEW p \in Packet, p \notin P,
         VoucherPacket(p),
         NEW c
  PROVE  Grows(P, P \cup {p}, p, c)
<1>1. \A q \in P \cup {p} : q.amount \in Nat
  BY Zenon DEF Packet
<1>2. \A d, r, h : LoadGrows(P, p, c, d, r, h)
  BY Zenon, <1>1, LoadAdd
<1>3. p.amount \in Nat /\ p.home \in BOOLEAN /\ p.returning \in BOOLEAN
  BY Zenon DEF Packet
<1>4. \A d : /\ Fits(p, c, d, TRUE, TRUE) \/ Fits(p, c, d, FALSE, FALSE)
                  <=> p.home = p.returning /\ c = p.channel /\ d = p.denom
             /\ ~(Fits(p, c, d, TRUE, TRUE) /\ Fits(p, c, d, FALSE, FALSE))
  BY Zenon, <1>3 DEF Fits
<1>5. /\ Fits(p, c, Voucher[c], TRUE, FALSE) \/ Fits(p, c, Voucher[c], FALSE, TRUE)
           <=> p.home # p.returning /\ c = p.channel
      /\ ~(Fits(p, c, Voucher[c], TRUE, FALSE) /\ Fits(p, c, Voucher[c], FALSE, TRUE))
  BY Zenon, <1>3 DEF Fits, VoucherPacket
<1>6. /\ Waiting(P, c) \in Nat
      /\ p.home # p.returning /\ c = p.channel => Waiting(P \cup {p}, c) = Waiting(P, c) + p.amount
      /\ ~(p.home # p.returning /\ c = p.channel) => Waiting(P \cup {p}, c) = Waiting(P, c) + 0
  <2>1. PICK n \in Nat : n = p.amount
    BY Zenon, <1>3
  <2>2. PICK m : m = IF p.home # p.returning /\ c = p.channel THEN p.amount ELSE 0
    BY Zenon
  <2>3. PICK a \in Nat : a = Load(P, c, Voucher[c], TRUE, FALSE)
    BY Zenon, <1>2 DEF LoadGrows
  <2>4. PICK b \in Nat : b = Load(P, c, Voucher[c], FALSE, TRUE)
    BY Zenon, <1>2 DEF LoadGrows
  <2>5. PICK a2 : a2 = Load(P \cup {p}, c, Voucher[c], TRUE, FALSE)
    BY Zenon
  <2>5a. (Fits(p, c, Voucher[c], TRUE, FALSE) => a2 = a + n) /\ (~Fits(p, c, Voucher[c], TRUE, FALSE) => a2 = a + 0)
    BY Zenon, <1>2, <2>1, <2>3, <2>5 DEF LoadGrows
  <2>6. PICK b2 : b2 = Load(P \cup {p}, c, Voucher[c], FALSE, TRUE)
    BY Zenon
  <2>6a. (Fits(p, c, Voucher[c], FALSE, TRUE) => b2 = b + n) /\ (~Fits(p, c, Voucher[c], FALSE, TRUE) => b2 = b + 0)
    BY Zenon, <1>2, <2>1, <2>4, <2>6 DEF LoadGrows
  <2>7. Waiting(P, c) = a + b
    BY Zenon, <2>3, <2>4 DEF Waiting
  <2>8. PICK s : s = Waiting(P \cup {p}, c) /\ s = a2 + b2
    BY Zenon, <2>5, <2>6 DEF Waiting
  <2>9. s = a + b + m
    <3>1. CASE Fits(p, c, Voucher[c], TRUE, FALSE)
      <4>1. m = n
        BY Zenon, <2>1, <2>2, <3>1, <1>5
      <4>2. a2 = a + n /\ b2 = b + 0
        BY Zenon, <3>1, <1>5, <2>5a, <2>6a
      <4> QED BY <2>8, <4>1, <4>2
    <3>2. CASE Fits(p, c, Voucher[c], FALSE, TRUE)
      <4>1. m = n
        BY Zenon, <2>1, <2>2, <3>2, <1>5
      <4>2. b2 = b + n /\ a2 = a + 0
        BY Zenon, <3>2, <1>5, <2>5a, <2>6a
      <4> QED BY <2>8, <4>1, <4>2
    <3>3. CASE ~Fits(p, c, Voucher[c], TRUE, FALSE) /\ ~Fits(p, c, Voucher[c], FALSE, TRUE)
      <4>1. m = 0
        BY Zenon, <2>2, <3>3, <1>5
      <4>2. a2 = a + 0 /\ b2 = b + 0
        BY Zenon, <3>3, <2>5a, <2>6a
      <4> QED BY <2>8, <4>1, <4>2
    <3> QED BY Zenon, <3>1, <3>2, <3>3
  <2>10. a + b \in Nat
    OBVIOUS
  <2>11. Waiting(P \cup {p}, c) = Waiting(P, c) + m
    BY Zenon, <2>7, <2>8, <2>9
  <2> QED BY Zenon, <2>2, <2>7, <2>10, <2>11
<1>7. ASSUME NEW d
      PROVE  /\ Leaving(P, c, d) \in Nat
             /\ p.home = p.returning /\ c = p.channel /\ d = p.denom =>
                  Leaving(P \cup {p}, c, d) = Leaving(P, c, d) + p.amount
             /\ ~(p.home = p.returning /\ c = p.channel /\ d = p.denom) =>
                  Leaving(P \cup {p}, c, d) = Leaving(P, c, d) + 0
  <2>1. PICK n \in Nat : n = p.amount
    BY Zenon, <1>3
  <2>2. PICK m : m = IF p.home = p.returning /\ c = p.channel /\ d = p.denom THEN p.amount ELSE 0
    BY Zenon
  <2>3. PICK a \in Nat : a = Load(P, c, d, TRUE, TRUE)
    BY Zenon, <1>2 DEF LoadGrows
  <2>4. PICK b \in Nat : b = Load(P, c, d, FALSE, FALSE)
    BY Zenon, <1>2 DEF LoadGrows
  <2>5. PICK a2 : a2 = Load(P \cup {p}, c, d, TRUE, TRUE)
    BY Zenon
  <2>5a. (Fits(p, c, d, TRUE, TRUE) => a2 = a + n) /\ (~Fits(p, c, d, TRUE, TRUE) => a2 = a + 0)
    BY Zenon, <1>2, <2>1, <2>3, <2>5 DEF LoadGrows
  <2>6. PICK b2 : b2 = Load(P \cup {p}, c, d, FALSE, FALSE)
    BY Zenon
  <2>6a. (Fits(p, c, d, FALSE, FALSE) => b2 = b + n) /\ (~Fits(p, c, d, FALSE, FALSE) => b2 = b + 0)
    BY Zenon, <1>2, <2>1, <2>4, <2>6 DEF LoadGrows
  <2>7. Leaving(P, c, d) = b + a
    BY Zenon, <2>3, <2>4 DEF Leaving
  <2>8. PICK s : s = Leaving(P \cup {p}, c, d) /\ s = b2 + a2
    BY Zenon, <2>5, <2>6 DEF Leaving
  <2>9. s = b + a + m
    <3>1. CASE Fits(p, c, d, TRUE, TRUE)
      <4>1. m = n
        BY Zenon, <2>1, <2>2, <3>1, <1>4
      <4>2. a2 = a + n /\ b2 = b + 0
        BY Zenon, <3>1, <1>4, <2>5a, <2>6a
      <4> QED BY <2>8, <4>1, <4>2
    <3>2. CASE Fits(p, c, d, FALSE, FALSE)
      <4>1. m = n
        BY Zenon, <2>1, <2>2, <3>2, <1>4
      <4>2. b2 = b + n /\ a2 = a + 0
        BY Zenon, <3>2, <1>4, <2>5a, <2>6a
      <4> QED BY <2>8, <4>1, <4>2
    <3>3. CASE ~Fits(p, c, d, TRUE, TRUE) /\ ~Fits(p, c, d, FALSE, FALSE)
      <4>1. m = 0
        BY Zenon, <2>2, <3>3, <1>4
      <4>2. a2 = a + 0 /\ b2 = b + 0
        BY Zenon, <3>3, <2>5a, <2>6a
      <4> QED BY <2>8, <4>1, <4>2
    <3> QED BY Zenon, <3>1, <3>2, <3>3
  <2>10. b + a \in Nat
    OBVIOUS
  <2>11. Leaving(P \cup {p}, c, d) = Leaving(P, c, d) + m
    BY Zenon, <2>7, <2>8, <2>9
  <2> QED BY Zenon, <2>2, <2>7, <2>10, <2>11
<1> QED BY Zenon, <1>6, <1>7 DEF Grows

\* What a packet that leaves the network changes in both.
LEMMA PacketRemoved ==
  ASSUME NEW P \in SUBSET Packet, IsFiniteSet(P), NEW p \in P,
         VoucherPacket(p),
         NEW c
  PROVE  Grows(P \ {p}, P, p, c)
<1>1. PICK Q : Q = P \ {p}
  BY Zenon
<1>2. Q \in SUBSET Packet /\ p \in Packet /\ p \notin Q /\ Q \cup {p} = P
  BY Zenon, <1>1
<1>3. IsFiniteSet(Q)
  BY Zenon, <1>1, FS_RemoveElement
<1>4. Grows(Q, Q \cup {p}, p, c)
  BY Zenon, <1>2, <1>3, PacketAdded
<1>5. Q \cup {p} = P
  BY Zenon, <1>2 DEF LoadGrows
<1> QED BY Zenon, <1>1, <1>4, <1>5

----------------------------------------------------------------------------
(* Rows of balances, one number for each coin.                              *)

Row == [Denoms -> Nat]

\* Row g is row f with n more of coin d.
Shift(f, g, d, n) ==
  \A k \in Denoms : (k = d => g[k] = f[k] + n) /\ (k # d => g[k] = f[k])

\* The sum of a column of a table.
Column(t, S, d) == Weight(S, [u \in S |-> t[u][d]])

LEMMA ColumnType ==
  ASSUME NEW S, IsFiniteSet(S), NEW t \in [S -> Row], NEW d \in Denoms
  PROVE  Column(t, S, d) \in Nat
<1> DEFINE w == [u \in S |-> t[u][d]]
<1>1. \A u \in S : w[u] \in Nat
  BY Zenon DEF Row
<1> HIDE DEF w
<1>2. Weight(S, w) \in Nat
  BY Zenon, <1>1, WeightType
<1> QED BY Zenon, <1>2 DEF Column, w

\* One row of a table is replaced by a row with n more of coin d.
LEMMA ColumnShift ==
  ASSUME NEW S, IsFiniteSet(S), NEW t \in [S -> Row], NEW v \in [S -> Row], NEW u \in S,
         \A x \in S \ {u} : v[x] = t[x],
         NEW d \in Denoms, NEW n \in Int, Shift(t[u], v[u], d, n),
         NEW k \in Denoms
  PROVE  /\ k = d => Column(v, S, k) = Column(t, S, k) + n
         /\ k # d => Column(v, S, k) = Column(t, S, k)
<1> DEFINE a == [x \in S |-> t[x][k]]
           b == [x \in S |-> v[x][k]]
<1>1. \A x \in S : a[x] \in Nat
  BY Zenon DEF Row
<1>2. \A x \in S : b[x] \in Nat
  BY Zenon DEF Row
<1>3. \A x \in S \ {u} : b[x] = a[x]
  BY Zenon
<1>4. a[u] = t[u][k] /\ b[u] = v[u][k]
  BY Zenon
<1>5. Column(t, S, k) = Weight(S, a) /\ Column(v, S, k) = Weight(S, b)
  BY Zenon DEF Column
<1> HIDE DEF a, b
<1>6. Weight(S, b) = Weight(S, a) - a[u] + b[u]
  BY <1>1, <1>2, <1>3, WeightUpdate
<1>7. Weight(S, a) \in Nat
  BY Zenon, <1>1, WeightType
<1>8. a[u] \in Nat /\ b[u] \in Nat
  BY Zenon, <1>1, <1>2
<1>9. (k = d => b[u] = a[u] + n) /\ (k # d => b[u] = a[u])
  BY Zenon, <1>4 DEF Shift
<1> QED BY <1>5, <1>6, <1>7, <1>8, <1>9

\* What the aliases are worth when there are n more of coin x.
LEMMA WorthType ==
  ASSUME NEW o \in Row, NEW d
  PROVE  Worth(d, o) \in Nat
<1> DEFINE S == {x \in Aliases : AliasOf[x] = d}
           w == [x \in Aliases |-> Precision[x] * o[x]]
<1>1. IsFiniteSet(S)
  <2>1. S \in SUBSET Aliases
    BY Zenon
  <2> QED BY Zenon, <2>1, IbcAssumption, FS_Subset
<1>2. \A x \in S : w[x] \in Nat
  <2> TAKE x \in S
  <2>1. x \in Aliases /\ x \in Denoms
    BY Zenon, IbcAssumption
  <2>2. o[x] \in Nat /\ Precision[x] \in Nat
    BY Zenon, <2>1, IbcAssumption DEF Row
  <2> QED BY <2>1, <2>2
<1> HIDE DEF S, w
<1>3. Weight(S, w) \in Nat
  BY Zenon, <1>1, <1>2, WeightType
<1> QED BY Zenon, <1>3 DEF Worth, S, w

WorthStep(o, q, x, n, d) ==
  /\ x \in Aliases /\ AliasOf[x] = d => Worth(d, q) = Worth(d, o) + Precision[x] * n
  /\ ~(x \in Aliases /\ AliasOf[x] = d) => Worth(d, q) = Worth(d, o)

LEMMA WorthShift ==
  ASSUME NEW o \in Row, NEW q \in Row, NEW x \in Denoms, NEW n \in Int, Shift(o, q, x, n), NEW d
  PROVE  WorthStep(o, q, x, n, d)
<1> DEFINE S == {y \in Aliases : AliasOf[y] = d}
           a == [y \in Aliases |-> Precision[y] * o[y]]
           b == [y \in Aliases |-> Precision[y] * q[y]]
<1>1. IsFiniteSet(S)
  <2>1. S \in SUBSET Aliases
    BY Zenon
  <2> QED BY Zenon, <2>1, IbcAssumption, FS_Subset
<1>2. \A y \in S : y \in Aliases /\ y \in Denoms /\ o[y] \in Nat /\ q[y] \in Nat /\ Precision[y] \in Nat
  BY Zenon, IbcAssumption DEF Row
<1>3. \A y \in S : a[y] = Precision[y] * o[y] /\ b[y] = Precision[y] * q[y]
  BY Zenon
<1>4. Worth(d, o) = Weight(S, a) /\ Worth(d, q) = Weight(S, b)
  BY Zenon DEF Worth
<1>5. x \in S <=> x \in Aliases /\ AliasOf[x] = d
  BY Zenon
<1> HIDE DEF S, a, b
<1>6. \A y \in S : a[y] \in Nat /\ b[y] \in Nat
  BY <1>2, <1>3
<1>7. \A y \in S : y # x => q[y] = o[y]
  BY Zenon, <1>2 DEF Shift
<1>8. \A y \in S : y # x => b[y] = a[y]
  BY Zenon, <1>3, <1>7
<1>9. CASE x \in S
  <2>1. Weight(S, b) = Weight(S, a) - a[x] + b[x]
    BY <1>1, <1>6, <1>8, <1>9, WeightUpdate
  <2>2. Weight(S, a) \in Nat
    BY Zenon, <1>1, <1>6, WeightType
  <2>3. PICK f \in Nat, i \in Nat, j \in Nat : f = Precision[x] /\ i = o[x] /\ j = q[x]
    BY Zenon, <1>2, <1>9
  <2>4. j = i + n
    BY Zenon, <2>3, <1>2, <1>9 DEF Shift
  <2>5. a[x] = f * i /\ b[x] = f * j
    BY Zenon, <1>3, <1>9, <2>3
  <2>6. PICK fi \in Nat, fj \in Nat, fn \in Int :
          fi = f * i /\ fj = f * j /\ fn = f * n /\ fj = fi + fn
    BY <2>4
  <2>7. Weight(S, b) = Weight(S, a) - fi + fj
    BY Zenon, <2>1, <2>5, <2>6
  <2>8. Weight(S, b) = Weight(S, a) + fn
    BY <2>2, <2>6, <2>7
  <2> QED BY Zenon, <1>4, <1>5, <1>9, <2>3, <2>6, <2>8 DEF WorthStep
<1>10. CASE x \notin S
  <2>1. \A y \in S : b[y] = a[y]
    BY Zenon, <1>8, <1>10
  <2>2. Weight(S, b) = Weight(S, a)
    BY Zenon, <2>1, WeightCongruence
  <2> QED BY Zenon, <1>4, <1>5, <1>10, <2>2 DEF WorthStep
<1> QED BY Zenon, <1>9, <1>10

----------------------------------------------------------------------------
(* The escrow e of a channel covers the coins o that are outside.           *)

Backed(e, o) == \A d \in Denoms : e[d] >= o[d] + Worth(d, o)

LEMMA BackedAdd ==
  ASSUME NEW e \in Row, NEW f \in Row, NEW o \in Row, NEW q \in Row, Backed(e, o),
         NEW x \in Denoms \ Aliases, NEW n \in Int, Shift(e, f, x, n), Shift(o, q, x, n)
  PROVE  Backed(f, q)
<1> SUFFICES ASSUME NEW d \in Denoms
             PROVE  f[d] >= q[d] + Worth(d, q)
  BY Zenon DEF Backed
<1>1. Worth(d, q) = Worth(d, o) /\ Worth(d, o) \in Nat
  <2>1. WorthStep(o, q, x, n, d)
    BY Zenon, WorthShift
  <2> QED BY Zenon, <2>1, WorthType DEF WorthStep
<1>2. e[d] >= o[d] + Worth(d, o)
  BY Zenon DEF Backed
<1>3. e[d] \in Nat /\ o[d] \in Nat /\ f[d] \in Nat /\ q[d] \in Nat
  BY Zenon DEF Row
<1>4. CASE d = x
  <2>1. f[d] = e[d] + n /\ q[d] = o[d] + n
    BY Zenon, <1>4 DEF Shift
  <2> QED BY <1>1, <1>2, <1>3, <2>1
<1>5. CASE d # x
  <2>1. f[d] = e[d] /\ q[d] = o[d]
    BY Zenon, <1>5 DEF Shift
  <2> QED BY Zenon, <1>1, <1>2, <1>3, <2>1
<1> QED BY Zenon, <1>4, <1>5

LEMMA BackedSub ==
  ASSUME NEW e \in Row, NEW f \in Row, NEW o \in Row, NEW q \in Row, Backed(e, o),
         NEW x \in Denoms, NEW n \in Int, n <= 0, Shift(e, f, x, n), Shift(o, q, x, n)
  PROVE  Backed(f, q)
<1> SUFFICES ASSUME NEW d \in Denoms
             PROVE  f[d] >= q[d] + Worth(d, q)
  BY Zenon DEF Backed
<1>1. Worth(d, q) <= Worth(d, o) /\ Worth(d, o) \in Nat /\ Worth(d, q) \in Nat
  <2>1. Worth(d, o) \in Nat /\ Worth(d, q) \in Nat
    BY Zenon, WorthType
  <2>0. WorthStep(o, q, x, n, d)
    BY Zenon, WorthShift
  <2>2. CASE x \in Aliases /\ AliasOf[x] = d
    <3>1. PICK r \in Nat : r = Precision[x]
      BY Zenon, <2>2, IbcAssumption
    <3>2. PICK m \in Int : m = r * n /\ m <= 0
      OBVIOUS
    <3>3. Worth(d, q) = Worth(d, o) + m
      BY Zenon, <2>0, <2>2, <3>1, <3>2 DEF WorthStep
    <3> QED BY <2>1, <3>2, <3>3
  <2>3. CASE ~(x \in Aliases /\ AliasOf[x] = d)
    <3>1. Worth(d, q) = Worth(d, o)
      BY Zenon, <2>0, <2>3 DEF WorthStep
    <3> QED BY <2>1, <3>1
  <2> QED BY Zenon, <2>2, <2>3
<1>2. e[d] >= o[d] + Worth(d, o)
  BY Zenon DEF Backed
<1>3. e[d] \in Nat /\ o[d] \in Nat /\ f[d] \in Nat /\ q[d] \in Nat
  BY Zenon DEF Row
<1>4. CASE d = x
  <2>1. f[d] = e[d] + n /\ q[d] = o[d] + n
    BY Zenon, <1>4 DEF Shift
  <2> QED BY <1>1, <1>2, <1>3, <2>1
<1>5. CASE d # x
  <2>1. f[d] = e[d] /\ q[d] = o[d]
    BY Zenon, <1>5 DEF Shift
  <2> QED BY <1>1, <1>2, <1>3, <2>1
<1> QED BY Zenon, <1>4, <1>5

\* An alias comes home and is converted.
LEMMA BackedConvert ==
  ASSUME NEW e \in Row, NEW g \in Row, NEW f \in Row, NEW o \in Row, NEW q \in Row, Backed(e, o),
         NEW x \in Aliases, NEW n \in Int, NEW m \in Int, m = Precision[x] * n,
         Shift(e, g, x, n), Shift(g, f, AliasOf[x], m), Shift(o, q, x, n)
  PROVE  Backed(f, q)
<1> SUFFICES ASSUME NEW d \in Denoms
             PROVE  f[d] >= q[d] + Worth(d, q)
  BY Zenon DEF Backed
<1>1. x \in Denoms
  BY Zenon, IbcAssumption
<1>2. Worth(d, o) \in Nat /\ Worth(d, q) \in Nat
  BY Zenon, WorthType
<1>3. e[d] >= o[d] + Worth(d, o)
  BY Zenon DEF Backed
<1>4. e[d] \in Nat /\ o[d] \in Nat /\ f[d] \in Nat /\ q[d] \in Nat /\ g[d] \in Nat
  BY Zenon DEF Row
<1>5. g[d] - q[d] = e[d] - o[d]
  <2>1. CASE d = x
    <3>1. g[d] = e[d] + n /\ q[d] = o[d] + n
      BY Zenon, <2>1 DEF Shift
    <3> QED BY <1>4, <3>1
  <2>2. CASE d # x
    <3>1. g[d] = e[d] /\ q[d] = o[d]
      BY Zenon, <2>2 DEF Shift
    <3> QED BY Zenon, <1>4, <3>1
  <2> QED BY Zenon, <2>1, <2>2
<1> WorthStep(o, q, x, n, d)
  BY Zenon, <1>1, WorthShift
<1>6. CASE d = AliasOf[x]
  <2>1. Worth(d, q) = Worth(d, o) + m
    BY Zenon, <1>6 DEF WorthStep
  <2>2. f[d] = g[d] + m
    BY Zenon, <1>6 DEF Shift
  <2> QED BY <1>2, <1>3, <1>4, <1>5, <2>1, <2>2
<1>7. CASE d # AliasOf[x]
  <2>1. Worth(d, q) = Worth(d, o)
    BY Zenon, <1>7 DEF WorthStep
  <2>2. f[d] = g[d]
    BY Zenon, <1>7 DEF Shift
  <2> QED BY <1>2, <1>3, <1>4, <1>5, <2>1, <2>2
<1> QED BY Zenon, <1>6, <1>7

----------------------------------------------------------------------------
(* The state: the types, and that coins which do not exist are nowhere.     *)

Nowhere(t, S) == \A u \in S, d \in Denoms \ Coins : t[u][d] = 0

Traffic == {P \in SUBSET Packet : IsFiniteSet(P)}

PacketsType ==
  /\ packets \in Traffic
  /\ sent \in Nat
  /\ \A p \in packets : p.id < sent /\ VoucherPacket(p)

IbcType ==
  /\ held \in [Users -> Row] /\ Nowhere(held, Users)
  /\ escrow \in [Channels -> Row] /\ Nowhere(escrow, Channels)
  /\ abroad \in [Channels -> Row] /\ Nowhere(abroad, Channels)
  /\ vouched \in [Channels -> Int]
  /\ PacketsType

LEMMA CoinsFacts ==
  /\ Coins \subseteq Denoms
  /\ Aliases \subseteq Coins
  /\ \A x \in Aliases : AliasOf[x] \in Coins
  /\ \A c \in Channels : Voucher[c] \in Coins
  /\ \A c \in Channels : Voucher[c] \notin Aliases
  /\ \A c \in Channels, x \in Aliases : Voucher[c] # AliasOf[x]
  /\ \A c, k \in Channels : Voucher[c] = Voucher[k] => c = k
<1>1. Voucher \in [Channels -> Denoms] /\ \A c, k \in Channels : Voucher[c] = Voucher[k] => c = k
  BY Zenon, IbcAssumption DEF Injection, IsInjective
<1>2. \A c \in Channels : Voucher[c] \in Range(Voucher)
  BY Zenon, <1>1 DEF Range
<1>3. \A x \in Aliases : AliasOf[x] \in Range(AliasOf)
  BY Zenon, IbcAssumption DEF Range
<1>4. Range(Voucher) \subseteq Denoms /\ Range(AliasOf) \subseteq Denoms
  BY <1>1, IbcAssumption DEF Range
<1>5. Coins \subseteq Denoms
  BY Zenon, <1>4, IbcAssumption DEF Coins
<1> QED BY Zenon, <1>1, <1>2, <1>3, <1>5, CoinsAssumption DEF Coins

\* One balance of a table changes by n.
RowStep(t, v, S, u, d, n) ==
  /\ v \in [S -> Row]
  /\ \A x \in S \ {u} : v[x] = t[x]
  /\ Shift(t[u], v[u], d, n)

LEMMA RowPut ==
  ASSUME NEW S, NEW t \in [S -> Row], NEW u \in S, NEW d \in Denoms, NEW n \in Int,
         NEW m \in Nat, m = t[u][d] + n, NEW v, v = [t EXCEPT ![u][d] = m]
  PROVE  RowStep(t, v, S, u, d, n)
<1>1. t[u] \in Row /\ [t[u] EXCEPT ![d] = m] \in Row
  BY Zenon DEF Row
<1>2. v = [t EXCEPT ![u] = [t[u] EXCEPT ![d] = m]]
  BY Zenon
<1>3. v \in [S -> Row] /\ v[u] = [t[u] EXCEPT ![d] = m] /\ \A x \in S \ {u} : v[x] = t[x]
  BY Zenon, <1>1, <1>2
<1>4. Shift(t[u], v[u], d, n)
  BY Zenon, <1>1, <1>3 DEF Shift, Row
<1> QED BY Zenon, <1>3, <1>4 DEF RowStep

LEMMA RowStepNowhere ==
  ASSUME NEW S, NEW t, NEW v, NEW u \in S, NEW d \in Coins, NEW n, RowStep(t, v, S, u, d, n),
         Nowhere(t, S)
  PROVE  Nowhere(v, S)
<1> SUFFICES ASSUME NEW x \in S, NEW k \in Denoms \ Coins
             PROVE  v[x][k] = 0
  BY Zenon DEF Nowhere
<1>1. t[x][k] = 0 /\ k # d
  BY Zenon DEF Nowhere
<1>2. CASE x = u
  BY Zenon, <1>1, <1>2 DEF RowStep, Shift
<1>3. CASE x # u
  BY Zenon, <1>1, <1>3 DEF RowStep
<1> QED BY Zenon, <1>2, <1>3

\* The columns follow.
ColumnStep(t, v, S, d, n) ==
  \A k \in Denoms : /\ k = d => Column(v, S, k) = Column(t, S, k) + n
                    /\ k # d => Column(v, S, k) = Column(t, S, k)

LEMMA RowStepColumn ==
  ASSUME NEW S, IsFiniteSet(S), NEW t \in [S -> Row], NEW v, NEW u \in S, NEW d \in Denoms,
         NEW n \in Int, RowStep(t, v, S, u, d, n)
  PROVE  ColumnStep(t, v, S, d, n)
<1>1. v \in [S -> Row] /\ (\A x \in S \ {u} : v[x] = t[x]) /\ Shift(t[u], v[u], d, n)
  BY Zenon DEF RowStep
<1>2. ASSUME NEW k \in Denoms
      PROVE  /\ k = d => Column(v, S, k) = Column(t, S, k) + n
             /\ k # d => Column(v, S, k) = Column(t, S, k)
  BY <1>1, ColumnShift
<1> QED BY Zenon, <1>2 DEF ColumnStep

LEMMA RowSame ==
  ASSUME NEW S, NEW t \in [S -> Row], NEW u \in S, NEW d
  PROVE  RowStep(t, t, S, u, d, 0)
<1>1. \A k \in Denoms : t[u][k] \in Nat
  BY Zenon DEF Row
<1>2. Shift(t[u], t[u], d, 0)
  BY <1>1 DEF Shift
<1> QED BY Zenon, <1>2 DEF RowStep

----------------------------------------------------------------------------
(* The two invariants as sums over tables and packets.                      *)

LEMMA LoadType ==
  ASSUME NEW P \in Traffic, NEW c, NEW d, NEW r, NEW h
  PROVE  Load(P, c, d, r, h) \in Nat
<1> DEFINE S == {p \in P : Fits(p, c, d, r, h)}
           w == [p \in P |-> p.amount]
<1>1. S \in SUBSET P /\ IsFiniteSet(P)
  BY Zenon DEF Traffic
<1>2. IsFiniteSet(S)
  BY Zenon, <1>1, FS_Subset
<1>3. \A p \in S : w[p] \in Nat
  BY Zenon DEF Traffic, Packet
<1> HIDE DEF S, w
<1>4. Weight(S, w) \in Nat
  BY Zenon, <1>2, <1>3, WeightType
<1> QED BY Zenon, <1>4 DEF Load, S, w

LEMMA LeavingType ==
  ASSUME NEW P \in Traffic, NEW c
  PROVE  Waiting(P, c) \in Nat /\ \A d : Leaving(P, c, d) \in Nat
<1>1. \A d, r, h : Load(P, c, d, r, h) \in Nat
  BY Zenon, LoadType
<1>2. PICK a \in Nat, b \in Nat : Waiting(P, c) = a + b
  BY Zenon, <1>1 DEF Waiting
<1>3. ASSUME NEW d
      PROVE  Leaving(P, c, d) \in Nat
  <2>1. PICK i \in Nat, j \in Nat : Leaving(P, c, d) = i + j
    BY Zenon, <1>1 DEF Leaving
  <2> QED BY <2>1
<1>4. Waiting(P, c) \in Nat
  BY <1>2
<1> QED BY Zenon, <1>3, <1>4

OutsideIn(A, P, c) ==
  [d \in Denoms |-> A[c][d] + Load(P, c, d, FALSE, FALSE) + Load(P, c, d, TRUE, TRUE)]

LEMMA OutsideRow ==
  ASSUME NEW A \in [Channels -> Row], NEW P \in Traffic, NEW c \in Channels
  PROVE  /\ OutsideIn(A, P, c) \in Row
         /\ \A d \in Denoms : OutsideIn(A, P, c)[d] = A[c][d] + Leaving(P, c, d)
<1>1. ASSUME NEW d \in Denoms
      PROVE  /\ OutsideIn(A, P, c)[d] \in Nat
             /\ OutsideIn(A, P, c)[d] = A[c][d] + Leaving(P, c, d)
  <2>1. PICK n \in Nat : n = A[c][d]
    BY Zenon DEF Row
  <2>2. PICK a \in Nat : a = Load(P, c, d, FALSE, FALSE)
    BY Zenon, LoadType
  <2>3. PICK b \in Nat : b = Load(P, c, d, TRUE, TRUE)
    BY Zenon, LoadType
  <2>4. OutsideIn(A, P, c)[d] = n + a + b
    BY Zenon, <2>1, <2>2, <2>3 DEF OutsideIn
  <2>5. Leaving(P, c, d) = a + b
    BY Zenon, <2>2, <2>3 DEF Leaving
  <2> QED BY <2>1, <2>4, <2>5
<1>2. DOMAIN OutsideIn(A, P, c) = Denoms /\ OutsideIn(A, P, c) = [d \in Denoms |-> OutsideIn(A, P, c)[d]]
  BY Zenon DEF OutsideIn
<1>3. PICK o : o = OutsideIn(A, P, c)
  BY Zenon
<1>4. o \in [Denoms -> Nat]
  BY Zenon, <1>1, <1>2, <1>3
<1> QED BY Zenon, <1>1, <1>3, <1>4 DEF Row

AllBacked(E, A, P) == \A c \in Channels : Backed(E[c], OutsideIn(A, P, c))

LEMMA BackedIs ==
  /\ VouchersBacked <=> AllBacked(escrow, abroad, packets)
  /\ VouchersBacked' <=> AllBacked(escrow', abroad', packets')
<1>1. \A c : Outside(c) = OutsideIn(abroad, packets, c)
  BY Zenon, CarriedIsLoad DEF Outside, OutsideIn
<1>2. \A c : Outside(c)' = OutsideIn(abroad', packets', c)
  BY Zenon, CarriedIsLoad DEF Outside, OutsideIn
<1>3. \A d, o : Worth(d, o)' = Worth(d, o)
  BY Zenon DEF Worth
<1> QED BY Zenon, <1>1, <1>2, <1>3 DEF VouchersBacked, AllBacked, Backed

Total(H, E, d) == Column(H, Users, d) + Column(E, Channels, d)

FirstTotal(d) ==
  Weight(Users, [u \in Users |-> InitialHeld[d]])
    + Weight(Channels, [c \in Channels |-> Worth(d, FirstAbroad(c))])

AllKept(H, E, P, V) ==
  /\ \A d \in Denoms \ (Aliases \cup Range(Voucher)) : Total(H, E, d) = FirstTotal(d)
  /\ \A c \in Channels : Total(H, E, Voucher[c]) + Waiting(P, c) = V[c]

Sum4(H, E, P, c) ==
  Column(H, Users, Voucher[c]) + Column(E, Channels, Voucher[c])
    + Load(P, c, Voucher[c], TRUE, FALSE) + Load(P, c, Voucher[c], FALSE, TRUE)

LEMMA SumOfFour ==
  ASSUME NEW H \in [Users -> Row], NEW E \in [Channels -> Row], NEW P \in Traffic,
         NEW c \in Channels
  PROVE  Sum4(H, E, P, c) = Total(H, E, Voucher[c]) + Waiting(P, c)
<1>1. Voucher[c] \in Denoms
  BY Zenon, CoinsFacts
<1>2. PICK i \in Nat : i = Column(H, Users, Voucher[c])
  BY Zenon, <1>1, ColumnType, IbcAssumption
<1>3. PICK j \in Nat : j = Column(E, Channels, Voucher[c])
  BY Zenon, <1>1, ColumnType, IbcAssumption
<1>4. PICK a \in Nat : a = Load(P, c, Voucher[c], TRUE, FALSE)
  BY Zenon, LoadType
<1>5. PICK b \in Nat : b = Load(P, c, Voucher[c], FALSE, TRUE)
  BY Zenon, LoadType
<1>6. Sum4(H, E, P, c) = i + j + a + b
  BY Zenon, <1>2, <1>3, <1>4, <1>5 DEF Sum4
<1>7. Total(H, E, Voucher[c]) + Waiting(P, c) = (i + j) + (a + b)
  BY Zenon, <1>2, <1>3, <1>4, <1>5 DEF Total, Waiting
<1> QED BY <1>6, <1>7

LEMMA KeptIs ==
  /\ CoinsKept <=>
       /\ \A d \in Denoms \ (Aliases \cup Range(Voucher)) : Total(held, escrow, d) = FirstTotal(d)
       /\ \A c \in Channels : Sum4(held, escrow, packets, c) = vouched[c]
  /\ CoinsKept' <=>
       /\ \A d \in Denoms \ (Aliases \cup Range(Voucher)) : Total(held', escrow', d) = FirstTotal(d)
       /\ \A c \in Channels : Sum4(held', escrow', packets', c) = vouched'[c]
<1>1. \A d : HeldByAll(d) = Column(held, Users, d) /\ EscrowTotal(d) = Column(escrow, Channels, d)
  BY Zenon DEF HeldByAll, EscrowTotal, Column
<1>2. \A d : HeldByAll(d)' = Column(held', Users, d) /\ EscrowTotal(d)' = Column(escrow', Channels, d)
  BY Zenon DEF HeldByAll, EscrowTotal, Column
<1>3. CoinsKept <=>
       /\ \A d \in Denoms \ (Aliases \cup Range(Voucher)) : Total(held, escrow, d) = FirstTotal(d)
       /\ \A c \in Channels : Sum4(held, escrow, packets, c) = vouched[c]
  BY Zenon, <1>1, CarriedIsLoad DEF CoinsKept, Total, FirstTotal, Sum4
<1>4. CoinsKept' <=>
       /\ \A d \in Denoms \ (Aliases \cup Range(Voucher)) : Total(held', escrow', d) = FirstTotal(d)
       /\ \A c \in Channels : Sum4(held', escrow', packets', c) = vouched'[c]
  BY Zenon, <1>2, CarriedIsLoad DEF CoinsKept, Total, FirstTotal, Sum4
<1> QED BY Zenon, <1>3, <1>4

----------------------------------------------------------------------------
(* What one step moves: h to the account of user u, e to the escrow and a   *)
(* to the vouchers abroad of channel k, all of coin x, with l coins and w   *)
(* vouchers more on their way and v more in escrow at the other chain.      *)

LeavingShift(P, Q, c, x, l) ==
  \A d : (d = x => Leaving(Q, c, d) = Leaving(P, c, d) + l) /\ (d # x => Leaving(Q, c, d) = Leaving(P, c, d))

LeavingStep(P, Q, k, x, l) ==
  \A c \in Channels : /\ c = k => LeavingShift(P, Q, c, x, l)
                      /\ c # k => LeavingShift(P, Q, c, x, 0)

WaitingStep(P, Q, k, w) ==
  \A c \in Channels : /\ c = k => Waiting(Q, c) = Waiting(P, c) + w
                      /\ c # k => Waiting(Q, c) = Waiting(P, c)

VouchedStep(V, W, k, v) ==
  /\ W \in [Channels -> Int]
  /\ W[k] = V[k] + v
  /\ \A c \in Channels \ {k} : W[c] = V[c]

\* The coins outside through one channel.
LEMMA OutsideShift ==
  ASSUME NEW A \in [Channels -> Row], NEW B \in [Channels -> Row], NEW P \in Traffic, NEW Q \in Traffic,
         NEW c \in Channels, NEW x \in Denoms, NEW a \in Int, NEW l \in Int, NEW n \in Int, n = a + l,
         Shift(A[c], B[c], x, a), LeavingShift(P, Q, c, x, l)
  PROVE  Shift(OutsideIn(A, P, c), OutsideIn(B, Q, c), x, n)
<1> SUFFICES ASSUME NEW d \in Denoms
             PROVE  /\ d = x => OutsideIn(B, Q, c)[d] = OutsideIn(A, P, c)[d] + n
                    /\ d # x => OutsideIn(B, Q, c)[d] = OutsideIn(A, P, c)[d]
  BY Zenon DEF Shift
<1>1. PICK i \in Nat, j \in Nat : i = A[c][d] /\ j = B[c][d]
  BY Zenon DEF Row
<1>2. PICK p \in Nat, q \in Nat : p = Leaving(P, c, d) /\ q = Leaving(Q, c, d)
  BY Zenon, LeavingType
<1>3. OutsideIn(A, P, c)[d] = i + p /\ OutsideIn(B, Q, c)[d] = j + q
  BY Zenon, <1>1, <1>2, OutsideRow
<1>4. (d = x => j = i + a) /\ (d # x => j = i)
  BY Zenon, <1>1 DEF Shift
<1>5. (d = x => q = p + l) /\ (d # x => q = p)
  BY Zenon, <1>2 DEF LeavingShift
<1>6. (d = x => j + q = (i + p) + n) /\ (d # x => j + q = i + p)
  BY <1>4, <1>5
<1> QED BY Zenon, <1>3, <1>6

LEMMA MoveBacked ==
  ASSUME NEW E \in [Channels -> Row], NEW F, NEW A \in [Channels -> Row], NEW B,
         NEW P \in Traffic, NEW Q \in Traffic, NEW k \in Channels, NEW x \in Denoms,
         NEW e \in Int, NEW a \in Int, NEW l \in Int, e = a + l, e <= 0 \/ x \notin Aliases,
         RowStep(E, F, Channels, k, x, e), RowStep(A, B, Channels, k, x, a),
         LeavingStep(P, Q, k, x, l), AllBacked(E, A, P)
  PROVE  AllBacked(F, B, Q)
<1>1. F \in [Channels -> Row] /\ B \in [Channels -> Row]
  BY Zenon DEF RowStep
<1> SUFFICES ASSUME NEW c \in Channels
             PROVE  Backed(F[c], OutsideIn(B, Q, c))
  BY Zenon DEF AllBacked
<1>2. PICK n \in Int, b \in Int, m \in Int :
        /\ n = b + m /\ (n <= 0 \/ x \notin Aliases)
        /\ Shift(E[c], F[c], x, n) /\ Shift(A[c], B[c], x, b) /\ LeavingShift(P, Q, c, x, m)
  <2>1. CASE c = k
    BY Zenon, <2>1 DEF RowStep, LeavingStep
  <2>2. CASE c # k
    <3>1. E[c] = F[c] /\ A[c] = B[c] /\ LeavingShift(P, Q, c, x, 0)
      BY Zenon, <2>2 DEF RowStep, LeavingStep
    <3>2. \A d \in Denoms : E[c][d] \in Nat /\ A[c][d] \in Nat
      BY Zenon DEF Row
    <3>3. Shift(E[c], F[c], x, 0) /\ Shift(A[c], B[c], x, 0)
      BY <3>1, <3>2 DEF Shift
    <3>4. 0 \in Int /\ 0 = 0 + 0 /\ 0 <= 0
      OBVIOUS
    <3> QED BY Zenon, <3>1, <3>3, <3>4
  <2> QED BY Zenon, <2>1, <2>2
<1>3. PICK o \in Row, q \in Row : o = OutsideIn(A, P, c) /\ q = OutsideIn(B, Q, c)
  BY Zenon, <1>1, OutsideRow
<1>4. Shift(o, q, x, n)
  BY Zenon, <1>1, <1>2, <1>3, OutsideShift
<1>5. Backed(E[c], o)
  BY Zenon, <1>3 DEF AllBacked
<1>6. E[c] \in Row /\ F[c] \in Row
  BY Zenon, <1>1
<1>7. CASE n <= 0
  BY Zenon, <1>2, <1>3, <1>4, <1>5, <1>6, <1>7, BackedSub
<1>8. CASE x \notin Aliases
  <2>1. x \in Denoms \ Aliases
    BY Zenon, <1>8
  <2> QED BY Zenon, <1>2, <1>3, <1>4, <1>5, <1>6, <2>1, BackedAdd
<1> QED BY Zenon, <1>2, <1>7, <1>8

\* The coins that the step makes, if any, are vouchers that come from the other chain.
Balanced(x, k, h, e, w, v) ==
  \/ h + e = 0 /\ w = v
  \/ x = Voucher[k] /\ h + e + w = v
  \/ x \in Aliases /\ w = v

LEMMA MoveKept ==
  ASSUME NEW H \in [Users -> Row], NEW I, NEW E \in [Channels -> Row], NEW F,
         NEW P \in Traffic, NEW Q \in Traffic, NEW V \in [Channels -> Int], NEW W,
         NEW u \in Users, NEW k \in Channels, NEW x \in Denoms,
         NEW h \in Int, NEW e \in Int, NEW w \in Int, NEW v \in Int,
         Balanced(x, k, h, e, w, v),
         RowStep(H, I, Users, u, x, h), RowStep(E, F, Channels, k, x, e),
         WaitingStep(P, Q, k, w), VouchedStep(V, W, k, v), AllKept(H, E, P, V)
  PROVE  AllKept(I, F, Q, W)
<1>1. I \in [Users -> Row] /\ F \in [Channels -> Row]
  BY Zenon DEF RowStep
<1>2. IsFiniteSet(Users) /\ IsFiniteSet(Channels)
  BY Zenon, IbcAssumption
<1>3. ColumnStep(H, I, Users, x, h) /\ ColumnStep(E, F, Channels, x, e)
  BY Zenon, <1>2, RowStepColumn
<1>4. \A d \in Denoms : /\ Column(H, Users, d) \in Nat /\ Column(E, Channels, d) \in Nat
                        /\ Column(I, Users, d) \in Nat /\ Column(F, Channels, d) \in Nat
  BY Zenon, <1>1, <1>2, ColumnType
<1>5. ASSUME NEW d \in Denoms
      PROVE  /\ Total(H, E, d) \in Nat
             /\ d = x => Total(I, F, d) = Total(H, E, d) + (h + e)
             /\ d # x => Total(I, F, d) = Total(H, E, d)
  <2>1. PICK i \in Nat, j \in Nat, m \in Nat, n \in Nat :
          /\ i = Column(H, Users, d) /\ j = Column(E, Channels, d)
          /\ m = Column(I, Users, d) /\ n = Column(F, Channels, d)
    BY Zenon, <1>4
  <2>2. Total(H, E, d) = i + j /\ Total(I, F, d) = m + n
    BY Zenon, <2>1 DEF Total
  <2>3. (d = x => m = i + h /\ n = j + e) /\ (d # x => m = i /\ n = j)
    BY Zenon, <1>3, <2>1 DEF ColumnStep
  <2> QED BY <2>1, <2>2, <2>3
<1>6. ASSUME NEW d \in Denoms \ (Aliases \cup Range(Voucher))
      PROVE  Total(I, F, d) = FirstTotal(d)
  <2>1. Total(H, E, d) = FirstTotal(d) /\ d \in Denoms
    BY Zenon, <1>6 DEF AllKept
  <2>2. d # Voucher[k]
    BY Zenon, CoinsFacts, IbcAssumption DEF Range, Injection
  <2>3. Total(I, F, d) = Total(H, E, d)
    <3>1. CASE d # x
      BY Zenon, <1>5, <2>1, <3>1
    <3>2. CASE d = x
      <4>1. h + e = 0
        BY Zenon, <2>2, <3>2, <1>6 DEF Balanced
      <4> QED BY <1>5, <2>1, <3>2, <4>1
    <3> QED BY Zenon, <3>1, <3>2
  <2> QED BY Zenon, <2>1, <2>3
<1>7. ASSUME NEW c \in Channels
      PROVE  Total(I, F, Voucher[c]) + Waiting(Q, c) = W[c]
  <2>1. Voucher[c] \in Denoms /\ Voucher[k] \in Denoms
    BY Zenon, CoinsFacts
  <2>2. PICK s \in Nat, t \in Nat, y \in Int :
          s = Total(H, E, Voucher[c]) /\ t = Waiting(P, c) /\ y = V[c] /\ s + t = y
    <3>1. V[c] \in Int
      BY Zenon
    <3> QED BY Zenon, <3>1, <1>5, <2>1, LeavingType DEF AllKept
  <2>3. PICK z : z = Total(I, F, Voucher[c])
    BY Zenon
  <2>4. (Voucher[c] = x => z = s + (h + e)) /\ (Voucher[c] # x => z = s)
    BY Zenon, <1>5, <2>1, <2>2, <2>3
  <2>5. PICK q : q = Waiting(Q, c)
    BY Zenon
  <2>6. (c = k => q = t + w) /\ (c # k => q = t)
    BY Zenon, <2>2, <2>5 DEF WaitingStep
  <2>7. (c = k => W[c] = y + v) /\ (c # k => W[c] = y)
    BY Zenon, <2>2 DEF VouchedStep
  <2>8. Voucher[c] = Voucher[k] => c = k
    BY Zenon, CoinsFacts
  <2>9. z + q = W[c]
    <3>1. CASE c = k /\ Voucher[c] = x
      <4>1. h + e + w = v
        BY <3>1, CoinsFacts DEF Balanced
      <4>2. PICK y2 : y2 = W[c] /\ y2 = y + v
        BY Zenon, <2>7, <3>1
      <4>3. z = s + (h + e) /\ q = t + w
        BY Zenon, <2>4, <2>6, <3>1
      <4>4. z + q = y2
        BY <2>2, <4>1, <4>2, <4>3
      <4> QED BY Zenon, <4>2, <4>4
    <3>2. CASE c = k /\ Voucher[c] # x
      <4>1. w = v
        BY Zenon, <3>2 DEF Balanced
      <4> QED BY <2>2, <2>4, <2>6, <2>7, <3>2, <4>1
    <3>3. CASE c # k /\ Voucher[c] = x
      <4>1. h + e = 0
        BY ZenonT(40), <2>8, <3>3, CoinsFacts DEF Balanced
      <4> QED BY SMTT(15), <2>2, <2>4, <2>6, <2>7, <3>3, <4>1
    <3>4. CASE c # k /\ Voucher[c] # x
      BY Zenon, <2>2, <2>4, <2>6, <2>7, <3>4
    <3> QED BY Zenon, <3>1, <3>2, <3>3, <3>4
  <2> QED BY Zenon, <2>3, <2>5, <2>9
<1> QED BY Zenon, <1>6, <1>7 DEF AllKept

\* The same when an alias x comes home and is converted: n is the change of its balances and m
\* that of the balances of its coin.
LEMMA ConvertBacked ==
  ASSUME NEW E \in [Channels -> Row], NEW G, NEW F, NEW A \in [Channels -> Row],
         NEW P \in Traffic, NEW Q \in Traffic, NEW k \in Channels, NEW x \in Aliases,
         NEW n \in Int, NEW m \in Int, m = Precision[x] * n,
         RowStep(E, G, Channels, k, x, n), RowStep(G, F, Channels, k, AliasOf[x], m),
         LeavingStep(P, Q, k, x, n), AllBacked(E, A, P)
  PROVE  AllBacked(F, A, Q)
<1>1. F \in [Channels -> Row] /\ G \in [Channels -> Row] /\ x \in Denoms
  BY Zenon, IbcAssumption DEF RowStep
<1> SUFFICES ASSUME NEW c \in Channels
             PROVE  Backed(F[c], OutsideIn(A, Q, c))
  BY Zenon DEF AllBacked
<1>2. PICK o \in Row, q \in Row : o = OutsideIn(A, P, c) /\ q = OutsideIn(A, Q, c)
  BY Zenon, <1>1, OutsideRow
<1>3. Backed(E[c], o)
  BY Zenon, <1>2 DEF AllBacked
<1>4. E[c] \in Row /\ F[c] \in Row /\ G[c] \in Row
  BY Zenon, <1>1
<1>5. Shift(A[c], A[c], x, 0)
  <2>1. \A d \in Denoms : A[c][d] \in Nat
    BY Zenon DEF Row
  <2> QED BY <2>1 DEF Shift
<1>6. CASE c = k
  <2>1. LeavingShift(P, Q, c, x, n) /\ Shift(E[c], G[c], x, n) /\ Shift(G[c], F[c], AliasOf[x], m)
    BY Zenon, <1>6 DEF LeavingStep, RowStep
  <2>2. n = 0 + n /\ 0 \in Int
    OBVIOUS
  <2>3. Shift(o, q, x, n)
    BY Zenon, <1>1, <1>2, <1>5, <2>1, <2>2, OutsideShift
  <2> QED BY Zenon, <1>2, <1>3, <1>4, <2>1, <2>3, BackedConvert
<1>7. CASE c # k
  <2>1. LeavingShift(P, Q, c, x, 0) /\ F[c] = E[c]
    BY Zenon, <1>7 DEF LeavingStep, RowStep
  <2>2. 0 = 0 + 0 /\ 0 \in Int /\ 0 <= 0
    OBVIOUS
  <2>3. Shift(o, q, x, 0)
    BY Zenon, <1>1, <1>2, <1>5, <2>1, <2>2, OutsideShift
  <2>4. Shift(E[c], F[c], x, 0)
    <3>1. \A d \in Denoms : E[c][d] \in Nat
      BY Zenon DEF Row
    <3> QED BY <2>1, <3>1 DEF Shift
  <2> QED BY Zenon, <1>1, <1>2, <1>3, <1>4, <2>2, <2>3, <2>4, BackedSub
<1> QED BY Zenon, <1>6, <1>7

\* What a packet more, or less, changes.
LEMMA GrowsSteps ==
  ASSUME NEW P \in Traffic, NEW Q \in Traffic, NEW p \in Packet,
         \A c : Grows(P, Q, p, c), NEW n \in Nat, n = p.amount,
         NEW m \in Int, m = 0 - n
  PROVE  /\ p.home = p.returning =>
              /\ LeavingStep(P, Q, p.channel, p.denom, n) /\ LeavingStep(Q, P, p.channel, p.denom, m)
              /\ WaitingStep(P, Q, p.channel, 0) /\ WaitingStep(Q, P, p.channel, 0)
         /\ p.home # p.returning =>
              /\ LeavingStep(P, Q, p.channel, p.denom, 0) /\ LeavingStep(Q, P, p.channel, p.denom, 0)
              /\ WaitingStep(P, Q, p.channel, n) /\ WaitingStep(Q, P, p.channel, m)
<1> DEFINE L(c, d) == Leaving(P, c, d)
           M(c, d) == Leaving(Q, c, d)
<1>1. \A c, d : L(c, d) \in Nat /\ M(c, d) \in Nat
  BY Zenon, LeavingType
<1>2. \A c : Waiting(P, c) \in Nat /\ Waiting(Q, c) \in Nat
  BY Zenon, LeavingType
<1>3. CASE p.home = p.returning
  <2>1. \A c : Waiting(Q, c) = Waiting(P, c) + 0
    BY Zenon, <1>3 DEF Grows
  <2>2. \A c, d : /\ c = p.channel /\ d = p.denom => M(c, d) = L(c, d) + n
                  /\ ~(c = p.channel /\ d = p.denom) => M(c, d) = L(c, d) + 0
    BY Zenon, <1>3 DEF Grows
  <2>3. \A c, d : /\ c = p.channel /\ d = p.denom => M(c, d) = L(c, d) + n /\ L(c, d) = M(c, d) + m
                  /\ ~(c = p.channel /\ d = p.denom) =>
                       M(c, d) = L(c, d) + 0 /\ L(c, d) = M(c, d) + 0 /\ M(c, d) = L(c, d)
    BY <1>1, <2>2
  <2>4. LeavingStep(P, Q, p.channel, p.denom, n) /\ LeavingStep(Q, P, p.channel, p.denom, m)
    BY Zenon, <2>3 DEF LeavingStep, LeavingShift
  <2>5. WaitingStep(P, Q, p.channel, 0) /\ WaitingStep(Q, P, p.channel, 0)
    BY <1>2, <2>1 DEF WaitingStep
  <2> QED BY Zenon, <1>3, <2>4, <2>5
<1>4. CASE p.home # p.returning
  <2>1. \A c : /\ c = p.channel => Waiting(Q, c) = Waiting(P, c) + n
               /\ c # p.channel => Waiting(Q, c) = Waiting(P, c) + 0
    BY Zenon, <1>4 DEF Grows
  <2>2. \A c, d : M(c, d) = L(c, d) + 0
    BY Zenon, <1>4 DEF Grows
  <2>3. \A c, d : M(c, d) = L(c, d) + 0 /\ L(c, d) = M(c, d) + 0 /\ M(c, d) = L(c, d)
    BY <1>1, <2>2
  <2>4. LeavingStep(P, Q, p.channel, p.denom, 0) /\ LeavingStep(Q, P, p.channel, p.denom, 0)
    BY Zenon, <2>3 DEF LeavingStep, LeavingShift
  <2>5. WaitingStep(P, Q, p.channel, n) /\ WaitingStep(Q, P, p.channel, m)
    BY <1>2, <2>1 DEF WaitingStep
  <2> QED BY Zenon, <1>4, <2>4, <2>5
<1> QED BY Zenon, <1>3, <1>4

----------------------------------------------------------------------------
(* The inductive invariant, and what a step that only moves coins keeps.    *)

Good ==
  /\ IbcType
  /\ AllBacked(escrow, abroad, packets)
  /\ AllKept(held, escrow, packets, vouched)

LEMMA MoveKeeps ==
  ASSUME Good, PacketsType', NEW u \in Users, NEW k \in Channels, NEW x \in Coins,
         NEW h \in Int, NEW e \in Int, NEW a \in Int, NEW l \in Int, NEW w \in Int, NEW v \in Int,
         e = a + l, e <= 0 \/ x \notin Aliases, Balanced(x, k, h, e, w, v),
         RowStep(held, held', Users, u, x, h), RowStep(escrow, escrow', Channels, k, x, e),
         RowStep(abroad, abroad', Channels, k, x, a), VouchedStep(vouched, vouched', k, v),
         LeavingStep(packets, packets', k, x, l), WaitingStep(packets, packets', k, w)
  PROVE  Good'
<1>1. x \in Denoms
  BY Zenon, CoinsFacts
<1>2. /\ held \in [Users -> Row] /\ Nowhere(held, Users)
      /\ escrow \in [Channels -> Row] /\ Nowhere(escrow, Channels)
      /\ abroad \in [Channels -> Row] /\ Nowhere(abroad, Channels)
      /\ vouched \in [Channels -> Int]
      /\ packets \in Traffic /\ packets' \in Traffic
  BY Zenon DEF Good, IbcType, PacketsType
<1>3. /\ held' \in [Users -> Row]
      /\ escrow' \in [Channels -> Row]
      /\ abroad' \in [Channels -> Row]
      /\ vouched' \in [Channels -> Int]
  BY Zenon DEF RowStep, VouchedStep
<1>4. /\ Nowhere(held', Users)
      /\ Nowhere(escrow', Channels)
      /\ Nowhere(abroad', Channels)
  BY Zenon, <1>2, RowStepNowhere
<1>5. IbcType'
  <2>1. /\ Nowhere(held, Users)'
        /\ Nowhere(escrow, Channels)'
        /\ Nowhere(abroad, Channels)'
    BY Zenon, <1>4 DEF Nowhere
  <2> QED BY Zenon, <1>3, <2>1 DEF IbcType, Row
<1>6. AllBacked(escrow', abroad', packets')
  <2>1. AllBacked(escrow, abroad, packets)
    BY Zenon DEF Good
  <2> QED BY Zenon, <1>1, <1>2, <2>1, MoveBacked
<1>7. AllKept(held', escrow', packets', vouched')
  <2>1. AllKept(held, escrow, packets, vouched)
    BY Zenon DEF Good
  <2> QED BY Zenon, <1>1, <1>2, <2>1, MoveKept
<1> QED BY Zenon, <1>5, <1>6, <1>7 DEF Good

\* A packet is sent.
OnePacketMore(home, c, returning, d, n, u) ==
  \E p \in Packet :
    /\ p.home = home /\ p.channel = c /\ p.returning = returning /\ p.denom = d
    /\ p.amount = n /\ p.user = u
    /\ \A k : Grows(packets, packets', p, k)

LEMMA PacketSent ==
  ASSUME IbcType, NEW home \in BOOLEAN, NEW c \in Channels, NEW returning \in BOOLEAN,
         NEW d \in Coins, NEW n \in Nat \ {0}, NEW u \in Users,
         home # returning => d = Voucher[c],
         Emit(home, c, returning, d, n, u)
  PROVE  PacketsType' /\ OnePacketMore(home, c, returning, d, n, u)
<1>1. packets \in SUBSET Packet /\ IsFiniteSet(packets) /\ sent \in Nat
      /\ \A q \in packets : q.id < sent /\ VoucherPacket(q)
  BY Zenon DEF IbcType, PacketsType, Traffic
<1>2. PICK p : p = [id |-> sent, home |-> home, channel |-> c, returning |-> returning, denom |-> d,
                    amount |-> n, user |-> u]
  BY Zenon
<1>3. p \in Packet
  BY Zenon, <1>1, <1>2 DEF Packet
<1>4. p.home = home /\ p.channel = c /\ p.returning = returning /\ p.denom = d
      /\ p.amount = n /\ p.user = u /\ p.id = sent
  BY Zenon, <1>2
<1>5. VoucherPacket(p)
  BY Zenon, <1>4 DEF VoucherPacket
<1>6. packets' = packets \cup {p} /\ sent' = sent + 1
  BY Zenon, <1>2 DEF Emit
<1>7. p \notin packets
  BY <1>1, <1>4
<1>8. \A k : Grows(packets, packets', p, k)
  BY Zenon, <1>1, <1>3, <1>5, <1>6, <1>7, PacketAdded
<1>9. PacketsType'
  <2>1. packets' \in SUBSET Packet
    BY Zenon, <1>1, <1>3, <1>6
  <2>2. IsFiniteSet(packets')
    BY Zenon, <1>1, <1>6, FS_AddElement
  <2>3. sent' \in Nat
    BY <1>1, <1>6
  <2>4. \A q \in packets' : q.id < sent'
    <3> TAKE q \in packets'
    <3>1. CASE q = p
      BY <1>1, <1>4, <1>6, <3>1
    <3>2. CASE q \in packets
      <4>1. q.id \in Nat /\ q.id < sent
        BY Zenon, <1>1, <3>2 DEF Packet
      <4> QED BY <1>1, <1>6, <4>1
    <3> QED BY Zenon, <1>6, <3>1, <3>2
  <2>5. \A q \in packets' : VoucherPacket(q)
    BY Zenon, <1>1, <1>5, <1>6
  <2>6. packets' \in Traffic
    BY Zenon, <2>1, <2>2 DEF Traffic
  <2>7. (\A q \in packets : q.id < sent /\ VoucherPacket(q))'
    BY Zenon, <2>4, <2>5 DEF VoucherPacket
  <2>8. (packets \in Traffic)'
    BY Zenon, <2>6 DEF Traffic, Packet
  <2> QED BY Zenon, <2>3, <2>7, <2>8 DEF PacketsType
<1> QED BY Zenon, <1>3, <1>4, <1>8, <1>9 DEF OnePacketMore

\* A packet has arrived or expired.
LEMMA PacketGone ==
  ASSUME IbcType, NEW p \in packets, packets' = packets \ {p}, sent' = sent
  PROVE  /\ PacketsType'
         /\ p \in Packet /\ VoucherPacket(p)
         /\ \A k : Grows(packets', packets, p, k)
<1>1. packets \in SUBSET Packet /\ IsFiniteSet(packets) /\ sent \in Nat
      /\ \A q \in packets : q.id < sent /\ VoucherPacket(q)
  BY Zenon DEF IbcType, PacketsType, Traffic
<1>2. p \in Packet /\ VoucherPacket(p)
  BY Zenon, <1>1
<1>3. \A k : Grows(packets', packets, p, k)
  BY Zenon, <1>1, <1>2, PacketRemoved
<1>4. IsFiniteSet(packets')
  BY Zenon, <1>1, FS_RemoveElement
<1>5. packets' \in SUBSET Packet
  BY Zenon, <1>1
<1>6. packets' \in Traffic
  BY Zenon, <1>4, <1>5 DEF Traffic
<1>7. (packets \in Traffic)'
  BY Zenon, <1>6 DEF Traffic, Packet
<1>8. \A q \in packets' : q.id < sent' /\ VoucherPacket(q)
  BY Zenon, <1>1
<1>9. (\A q \in packets : q.id < sent /\ VoucherPacket(q))'
  BY Zenon, <1>8 DEF VoucherPacket
<1> QED BY Zenon, <1>1, <1>2, <1>3, <1>7, <1>9 DEF PacketsType

\* The entry that a name finds agrees with one that a message carried.
LEMMA EntryFacts ==
  ASSUME RegistryInv, NEW d, Listed(d)
  PROVE  \E f \in Entries : /\ EqualFold(f.denom, d)
                            /\ GetEntry(d).denom = f.denom
                            /\ GetEntry(d).unit = f.unit
                            /\ GetEntry(d).decimals = f.decimals
<1>1. First(registry, d, Position(d))
  BY Zenon, FindFirst DEF RegistryInv, Listed, Position
<1>2. PICK e : e = GetEntry(d)
  BY Zenon
<1>3. e \in WrittenEntries /\ EqualFold(e.denom, d)
  BY <1>1, <1>2 DEF First, GetEntry, RegistryInv
<1> QED BY Zenon, <1>2, <1>3 DEF WrittenEntries

LEMMA TablesType ==
  ASSUME Good
  PROVE  /\ held \in [Users -> Row] /\ Nowhere(held, Users)
         /\ escrow \in [Channels -> Row] /\ Nowhere(escrow, Channels)
         /\ abroad \in [Channels -> Row] /\ Nowhere(abroad, Channels)
         /\ vouched \in [Channels -> Int]
         /\ packets \in Traffic
         /\ IbcType
BY Zenon DEF Good, IbcType, PacketsType

LEMMA VouchedSame ==
  ASSUME NEW V \in [Channels -> Int], NEW k \in Channels
  PROVE  VouchedStep(V, V, k, 0)
<1>1. V[k] \in Int
  BY Zenon
<1> QED BY <1>1 DEF VouchedStep

LEMMA VouchedPut ==
  ASSUME NEW V \in [Channels -> Int], NEW k \in Channels, NEW n \in Int, NEW m \in Int, m = V[k] + n,
         NEW W, W = [V EXCEPT ![k] = m]
  PROVE  VouchedStep(V, W, k, n)
BY Zenon DEF VouchedStep

\* A transfer to another chain.
LEMMA TransferKeeps ==
  ASSUME RegistryInv, Good, NEW u \in Users, NEW c \in Channels, NEW d \in Denoms, NEW n \in Amounts,
         Transfer(u, c, d, n)
  PROVE  Good'
<1>1. n \in Nat /\ n # 0 /\ n \in Nat \ {0}
  BY Zenon, IbcAssumption
<1>2. PICK i \in Nat : i = held[u][d] /\ n <= i
  BY Zenon, TablesType DEF Row, Transfer
<1>3. d \in Coins
  BY <1>1, <1>2, TablesType DEF Nowhere
<1>4. d \notin Aliases
  <2>1. PICK f \in Entries : /\ EqualFold(f.denom, d)
                             /\ GetEntry(d).denom = f.denom
                             /\ GetEntry(d).unit = f.unit
    BY Zenon, EntryFacts DEF Transfer
  <2>2. f.unit \in {NoDenom, f.denom}
    BY Zenon, <2>1 DEF Transfer
  <2>3. Fold[f.denom] = Fold[d]
    BY Zenon, <2>1 DEF EqualFold
  <2> QED BY Zenon, <2>2, <2>3, EntriesAssumption
<1>5. PICK m \in Int : m = 0 - n
  BY <1>1
<1>6. RowStep(held, held', Users, u, d, m)
  <2>1. PICK j \in Nat : j = i - n /\ j = i + m
    BY <1>1, <1>2, <1>5
  <2>2. held' = [held EXCEPT ![u][d] = j]
    BY Zenon, <1>2, <2>1 DEF Transfer
  <2>3. j = held[u][d] + m
    BY Zenon, <1>2, <2>1
  <2>4. held \in [Users -> Row]
    BY Zenon, TablesType
  <2> QED BY Zenon, <2>2, <2>3, <2>4, RowPut
<1>7. RowStep(abroad, abroad', Channels, c, d, 0)
  BY Zenon, RowSame, TablesType DEF Transfer
<1>8. VouchedStep(vouched, vouched', c, 0)
  BY Zenon, VouchedSame, TablesType DEF Transfer
<1>9. PICK b \in BOOLEAN : b = (d = Voucher[c])
  BY Zenon
<1>10. Emit(FALSE, c, b, d, n, u)
  BY Zenon, <1>9 DEF Transfer
<1>11. FALSE # b => d = Voucher[c]
  BY Zenon, <1>9
<1>12. FALSE \in BOOLEAN
  BY Zenon
<1>13. IbcType /\ packets \in Traffic
  BY Zenon, TablesType
<1>14. PacketsType' /\ OnePacketMore(FALSE, c, b, d, n, u)
  BY Zenon, <1>1, <1>3, <1>10, <1>11, <1>12, <1>13, PacketSent
<1>15. PICK p \in Packet :
         /\ p.home = FALSE /\ p.channel = c /\ p.returning = b /\ p.denom = d
         /\ p.amount = n /\ p.user = u
         /\ \A k : Grows(packets, packets', p, k)
  BY Zenon, <1>14 DEF OnePacketMore
<1>16. packets' \in Traffic
  BY Zenon, <1>14 DEF PacketsType, Traffic, Packet
<1>17. CASE d = Voucher[c]
  <2>1. b = TRUE
    BY Zenon, <1>9, <1>17
  <2>2. p.home # p.returning
    BY Zenon, <1>15, <2>1
  <2>3. LeavingStep(packets, packets', c, d, 0) /\ WaitingStep(packets, packets', c, n)
    BY Zenon, <1>1, <1>5, <1>13, <1>15, <1>16, <2>2, GrowsSteps
  <2>4. escrow' = escrow
    BY Zenon, <1>17 DEF Transfer
  <2>5. RowStep(escrow, escrow', Channels, c, d, 0)
    BY Zenon, <2>4, RowSame, TablesType
  <2>6. Balanced(d, c, m, 0, n, 0)
    BY <1>1, <1>5, <1>17 DEF Balanced
  <2>7. 0 \in Int /\ 0 = 0 + 0 /\ 0 <= 0 /\ n \in Int
    BY <1>1
  <2> QED BY Zenon, <1>3, <1>6, <1>7, <1>8, <1>14, <2>3, <2>5, <2>6, <2>7, MoveKeeps
<1>18. CASE d # Voucher[c]
  <2>1. b = FALSE
    BY Zenon, <1>9, <1>18
  <2>2. p.home = p.returning
    BY Zenon, <1>15, <2>1
  <2>3. LeavingStep(packets, packets', c, d, n) /\ WaitingStep(packets, packets', c, 0)
    BY Zenon, <1>1, <1>5, <1>13, <1>15, <1>16, <2>2, GrowsSteps
  <2>4. PICK j \in Nat : j = escrow[c][d] + n
    BY <1>1, TablesType DEF Row
  <2>5. escrow' = [escrow EXCEPT ![c][d] = j]
    BY Zenon, <1>18, <2>4 DEF Transfer
  <2>6. RowStep(escrow, escrow', Channels, c, d, n)
    <3>1. escrow \in [Channels -> Row] /\ n \in Int
      BY <1>1, TablesType
    <3> QED BY Zenon, <2>4, <2>5, <3>1, RowPut
  <2>7. Balanced(d, c, m, n, 0, 0)
    BY <1>1, <1>5 DEF Balanced
  <2>8. 0 \in Int /\ n = 0 + n /\ n \in Int
    BY <1>1
  <2> QED BY Zenon, <1>3, <1>4, <1>6, <1>7, <1>8, <1>14, <2>3, <2>6, <2>7, <2>8, MoveKeeps
<1> QED BY Zenon, <1>17, <1>18

LEMMA RowAdd ==
  ASSUME NEW S, NEW t \in [S -> Row], NEW u \in S, NEW d \in Denoms, NEW n \in Nat,
         NEW v, v = [t EXCEPT ![u][d] = @ + n]
  PROVE  RowStep(t, v, S, u, d, n)
<1>1. PICK j \in Nat : j = t[u][d] + n
  BY DEF Row
<1>2. v = [t EXCEPT ![u][d] = j]
  BY Zenon, <1>1
<1>3. n \in Int
  OBVIOUS
<1> QED BY Zenon, <1>1, <1>2, <1>3, RowPut

LEMMA RowTake ==
  ASSUME NEW S, NEW t \in [S -> Row], NEW u \in S, NEW d \in Denoms, NEW n \in Nat, n <= t[u][d],
         NEW m \in Int, m = 0 - n, NEW v, v = [t EXCEPT ![u][d] = @ - n]
  PROVE  RowStep(t, v, S, u, d, m)
<1>1. PICK i \in Nat : i = t[u][d] /\ n <= i
  BY Zenon DEF Row
<1>2. PICK j \in Nat : j = i - n /\ j = i + m
  BY <1>1
<1>3. v = [t EXCEPT ![u][d] = j]
  BY Zenon, <1>1, <1>2
<1>4. j = t[u][d] + m
  BY Zenon, <1>1, <1>2
<1> QED BY Zenon, <1>3, <1>4, RowPut

\* What a packet that arrives or expires changes: n is its amount and m the opposite.
OnePacketLess(p, n, m) ==
  /\ PacketsType'
  /\ p.user \in Users /\ p.channel \in Channels /\ p.denom \in Coins /\ p.denom \in Denoms
  /\ p.home \in BOOLEAN /\ p.returning \in BOOLEAN
  /\ n \in Nat /\ n \in Int /\ n = p.amount /\ n # 0 /\ m \in Int /\ m = 0 - n /\ m <= 0
  /\ p.home = p.returning => /\ LeavingStep(packets, packets', p.channel, p.denom, m)
                             /\ WaitingStep(packets, packets', p.channel, 0)
  /\ p.home # p.returning => /\ LeavingStep(packets, packets', p.channel, p.denom, 0)
                             /\ WaitingStep(packets, packets', p.channel, m)
                             /\ p.denom = Voucher[p.channel]

LEMMA PacketGoneSteps ==
  ASSUME Good, NEW p \in packets, packets' = packets \ {p}, sent' = sent
  PROVE  \E n, m : OnePacketLess(p, n, m)
<1>1. IbcType /\ packets \in Traffic
  BY Zenon, TablesType
<1>2. PacketsType' /\ p \in Packet /\ VoucherPacket(p) /\ \A k : Grows(packets', packets, p, k)
  BY Zenon, <1>1, PacketGone
<1>3. packets' \in Traffic
  BY Zenon, <1>2 DEF PacketsType, Traffic, Packet
<1>4. /\ p.user \in Users /\ p.channel \in Channels /\ p.denom \in Coins
      /\ p.home \in BOOLEAN /\ p.returning \in BOOLEAN /\ p.amount \in Nat \ {0}
  BY Zenon, <1>2 DEF Packet
<1>5. p.denom \in Denoms
  BY Zenon, <1>4, CoinsFacts
<1>6. PICK n \in Nat : n = p.amount /\ n # 0
  BY Zenon, <1>4
<1>7. PICK m \in Int : m = 0 - n /\ m <= 0
  OBVIOUS
<1>8. n \in Int
  OBVIOUS
<1>9. /\ p.home = p.returning => /\ LeavingStep(packets, packets', p.channel, p.denom, m)
                                 /\ WaitingStep(packets, packets', p.channel, 0)
      /\ p.home # p.returning => /\ LeavingStep(packets, packets', p.channel, p.denom, 0)
                                 /\ WaitingStep(packets, packets', p.channel, m)
  BY Zenon, <1>1, <1>2, <1>3, <1>6, <1>7, GrowsSteps
<1>10. p.home # p.returning => p.denom = Voucher[p.channel]
  BY Zenon, <1>2 DEF VoucherPacket
<1>11. OnePacketLess(p, n, m)
  BY Zenon, <1>2, <1>4, <1>5, <1>6, <1>7, <1>8, <1>9, <1>10 DEF OnePacketLess
<1> QED BY Zenon, <1>11

\* The other chain accepts a packet.
LEMMA AcknowledgementKeeps ==
  ASSUME Good, NEW p \in packets, OnAcknowledgementPacket(p)
  PROVE  Good'
<1>1. packets' = packets \ {p} /\ sent' = sent /\ held' = held /\ escrow' = escrow
  BY Zenon DEF OnAcknowledgementPacket
<1>2. PICK n, m : OnePacketLess(p, n, m)
  BY Zenon, <1>1, PacketGoneSteps
<1>3. /\ p.user \in Users /\ p.channel \in Channels /\ p.denom \in Coins /\ p.denom \in Denoms
      /\ p.home \in BOOLEAN /\ p.returning \in BOOLEAN
      /\ n \in Nat /\ n \in Int /\ n = p.amount /\ m \in Int /\ m = 0 - n /\ PacketsType'
  BY Zenon, <1>2 DEF OnePacketLess
<1>4. RowStep(held, held', Users, p.user, p.denom, 0) /\ RowStep(escrow, escrow', Channels, p.channel, p.denom, 0)
  BY Zenon, <1>1, <1>3, RowSame, TablesType
<1>5. p.home = FALSE
  BY Zenon, <1>3 DEF OnAcknowledgementPacket
<1>6. CASE p.returning
  <2>1. p.home # p.returning
    BY Zenon, <1>3, <1>5, <1>6
  <2>2. LeavingStep(packets, packets', p.channel, p.denom, 0) /\ WaitingStep(packets, packets', p.channel, m)
    BY Zenon, <1>2, <2>1 DEF OnePacketLess
  <2>3. vouched' = [vouched EXCEPT ![p.channel] = @ - p.amount] /\ abroad' = abroad
    BY Zenon, <1>6 DEF OnAcknowledgementPacket
  <2>4. RowStep(abroad, abroad', Channels, p.channel, p.denom, 0)
    BY Zenon, <1>3, <2>3, RowSame, TablesType
  <2>5. vouched \in [Channels -> Int]
    BY Zenon, TablesType
  <2>6. PICK j \in Int : j = vouched[p.channel] - n /\ j = vouched[p.channel] + m
    BY <1>3, <2>5
  <2>7. vouched' = [vouched EXCEPT ![p.channel] = j]
    BY Zenon, <1>3, <2>3, <2>6
  <2>8. VouchedStep(vouched, vouched', p.channel, m)
    BY Zenon, <1>3, <2>5, <2>6, <2>7, VouchedPut
  <2>9. Balanced(p.denom, p.channel, 0, 0, m, m) /\ 0 \in Int /\ 0 = 0 + 0 /\ 0 <= 0
    BY DEF Balanced
  <2> QED BY Zenon, <1>3, <1>4, <2>2, <2>4, <2>8, <2>9, MoveKeeps
<1>7. CASE ~p.returning
  <2>1. p.home = p.returning
    BY Zenon, <1>3, <1>5, <1>7
  <2>2. LeavingStep(packets, packets', p.channel, p.denom, m) /\ WaitingStep(packets, packets', p.channel, 0)
    BY Zenon, <1>2, <2>1 DEF OnePacketLess
  <2>3. abroad' = [abroad EXCEPT ![p.channel][p.denom] = @ + p.amount] /\ vouched' = vouched
    BY Zenon, <1>7 DEF OnAcknowledgementPacket
  <2>4. VouchedStep(vouched, vouched', p.channel, 0)
    BY Zenon, <1>3, <2>3, VouchedSame, TablesType
  <2>5. abroad \in [Channels -> Row] /\ abroad' = [abroad EXCEPT ![p.channel][p.denom] = @ + n]
    BY Zenon, <1>3, <2>3, TablesType
  <2>6. RowStep(abroad, abroad', Channels, p.channel, p.denom, n)
    BY Zenon, <1>3, <2>5, RowAdd
  <2>7. Balanced(p.denom, p.channel, 0, 0, 0, 0) /\ 0 \in Int /\ 0 = n + m /\ 0 <= 0
    BY <1>3 DEF Balanced
  <2> QED BY Zenon, <1>3, <1>4, <2>2, <2>4, <2>6, <2>7, MoveKeeps
<1> QED BY Zenon, <1>6, <1>7

\* The other chain takes back what it sent.
LEMMA TakenBackKeeps ==
  ASSUME Good, NEW p \in packets, p.home,
         packets' = packets \ {p}, sent' = sent, held' = held, escrow' = escrow,
         IF p.returning
           THEN abroad' = [abroad EXCEPT ![p.channel][p.denom] = @ + p.amount] /\ vouched' = vouched
           ELSE vouched' = [vouched EXCEPT ![p.channel] = @ - p.amount] /\ abroad' = abroad
  PROVE  Good'
<1>1. PICK n, m : OnePacketLess(p, n, m)
  BY Zenon, PacketGoneSteps
<1>2. /\ p.user \in Users /\ p.channel \in Channels /\ p.denom \in Coins /\ p.denom \in Denoms
      /\ p.home \in BOOLEAN /\ p.returning \in BOOLEAN
      /\ n \in Nat /\ n \in Int /\ n = p.amount /\ m \in Int /\ m = 0 - n /\ PacketsType'
  BY Zenon, <1>1 DEF OnePacketLess
<1>3. RowStep(held, held', Users, p.user, p.denom, 0) /\ RowStep(escrow, escrow', Channels, p.channel, p.denom, 0)
  BY Zenon, <1>2, RowSame, TablesType
<1>4. CASE ~p.returning
  <2>1. p.home # p.returning
    BY Zenon, <1>2, <1>4
  <2>2. LeavingStep(packets, packets', p.channel, p.denom, 0) /\ WaitingStep(packets, packets', p.channel, m)
    BY Zenon, <1>1, <2>1 DEF OnePacketLess
  <2>3. vouched' = [vouched EXCEPT ![p.channel] = @ - p.amount] /\ abroad' = abroad
    BY Zenon, <1>4
  <2>4. RowStep(abroad, abroad', Channels, p.channel, p.denom, 0)
    BY Zenon, <1>2, <2>3, RowSame, TablesType
  <2>5. vouched \in [Channels -> Int]
    BY Zenon, TablesType
  <2>6. PICK j \in Int : j = vouched[p.channel] - n /\ j = vouched[p.channel] + m
    BY <1>2, <2>5
  <2>7. vouched' = [vouched EXCEPT ![p.channel] = j]
    BY Zenon, <1>2, <2>3, <2>6
  <2>8. VouchedStep(vouched, vouched', p.channel, m)
    BY Zenon, <1>2, <2>5, <2>6, <2>7, VouchedPut
  <2>9. Balanced(p.denom, p.channel, 0, 0, m, m) /\ 0 \in Int /\ 0 = 0 + 0 /\ 0 <= 0
    BY DEF Balanced
  <2> QED BY Zenon, <1>2, <1>3, <2>2, <2>4, <2>8, <2>9, MoveKeeps
<1>5. CASE p.returning
  <2>1. p.home = p.returning
    BY Zenon, <1>2, <1>5
  <2>2. LeavingStep(packets, packets', p.channel, p.denom, m) /\ WaitingStep(packets, packets', p.channel, 0)
    BY Zenon, <1>1, <2>1 DEF OnePacketLess
  <2>3. abroad' = [abroad EXCEPT ![p.channel][p.denom] = @ + p.amount] /\ vouched' = vouched
    BY Zenon, <1>5
  <2>4. VouchedStep(vouched, vouched', p.channel, 0)
    BY Zenon, <1>2, <2>3, VouchedSame, TablesType
  <2>5. abroad \in [Channels -> Row] /\ abroad' = [abroad EXCEPT ![p.channel][p.denom] = @ + n]
    BY Zenon, <1>2, <2>3, TablesType
  <2>6. RowStep(abroad, abroad', Channels, p.channel, p.denom, n)
    BY Zenon, <1>2, <2>5, RowAdd
  <2>7. Balanced(p.denom, p.channel, 0, 0, 0, 0) /\ 0 \in Int /\ 0 = n + m /\ 0 <= 0
    BY <1>2 DEF Balanced
  <2> QED BY Zenon, <1>2, <1>3, <2>2, <2>4, <2>6, <2>7, MoveKeeps
<1> QED BY Zenon, <1>4, <1>5

\* The sender of a packet that was refused or has expired is refunded.
LEMMA TimeoutKeeps ==
  ASSUME Good, NEW p \in packets, OnTimeoutPacket(p)
  PROVE  Good'
<1>1. packets' = packets \ {p} /\ sent' = sent /\ abroad' = abroad /\ vouched' = vouched
  BY Zenon DEF OnTimeoutPacket
<1>2. PICK n, m : OnePacketLess(p, n, m)
  BY Zenon, <1>1, PacketGoneSteps
<1>3. /\ p.user \in Users /\ p.channel \in Channels /\ p.denom \in Coins /\ p.denom \in Denoms
      /\ p.home \in BOOLEAN /\ p.returning \in BOOLEAN
      /\ n \in Nat /\ n \in Int /\ n = p.amount /\ m \in Int /\ m = 0 - n /\ m <= 0 /\ PacketsType'
  BY Zenon, <1>2 DEF OnePacketLess
<1>4. RowStep(abroad, abroad', Channels, p.channel, p.denom, 0) /\ VouchedStep(vouched, vouched', p.channel, 0)
  BY Zenon, <1>1, <1>3, RowSame, VouchedSame, TablesType
<1>5. p.home = FALSE
  BY Zenon, <1>3 DEF OnTimeoutPacket
<1>6. RowStep(held, held', Users, p.user, p.denom, n)
  <2>1. held \in [Users -> Row] /\ held' = [held EXCEPT ![p.user][p.denom] = @ + n]
    BY Zenon, <1>3, TablesType DEF OnTimeoutPacket
  <2> QED BY Zenon, <1>3, <2>1, RowAdd
<1>7. CASE p.returning
  <2>1. p.home # p.returning
    BY Zenon, <1>3, <1>5, <1>7
  <2>2. /\ LeavingStep(packets, packets', p.channel, p.denom, 0) /\ WaitingStep(packets, packets', p.channel, m)
        /\ p.denom = Voucher[p.channel]
    BY Zenon, <1>2, <2>1 DEF OnePacketLess
  <2>3. escrow' = escrow
    BY Zenon, <1>7 DEF OnTimeoutPacket
  <2>4. RowStep(escrow, escrow', Channels, p.channel, p.denom, 0)
    BY Zenon, <1>3, <2>3, RowSame, TablesType
  <2>5. Balanced(p.denom, p.channel, n, 0, m, 0) /\ 0 \in Int /\ 0 = 0 + 0 /\ 0 <= 0
    BY <1>3, <2>2 DEF Balanced
  <2> QED BY Zenon, <1>3, <1>4, <1>6, <2>2, <2>4, <2>5, MoveKeeps
<1>8. CASE ~p.returning
  <2>1. p.home = p.returning
    BY Zenon, <1>3, <1>5, <1>8
  <2>2. LeavingStep(packets, packets', p.channel, p.denom, m) /\ WaitingStep(packets, packets', p.channel, 0)
    BY Zenon, <1>2, <2>1 DEF OnePacketLess
  <2>3. /\ escrow \in [Channels -> Row] /\ escrow' = [escrow EXCEPT ![p.channel][p.denom] = @ - n]
        /\ n <= escrow[p.channel][p.denom]
    BY Zenon, <1>3, <1>8, TablesType DEF OnTimeoutPacket
  <2>4. RowStep(escrow, escrow', Channels, p.channel, p.denom, m)
    BY Zenon, <1>3, <2>3, RowTake
  <2>5. Balanced(p.denom, p.channel, n, m, 0, 0) /\ 0 \in Int /\ m = 0 + m
    BY <1>3 DEF Balanced
  <2> QED BY Zenon, <1>3, <1>4, <1>6, <2>2, <2>4, <2>5, MoveKeeps
<1> QED BY Zenon, <1>7, <1>8

\* The other chain sends coins.
LEMMA SendHomeKeeps ==
  ASSUME Good, NEW u \in Users, NEW c \in Channels, NEW r \in BOOLEAN, NEW d \in Denoms,
         NEW n \in Amounts, SendHome(u, c, r, d, n)
  PROVE  Good'
<1>1. n \in Nat /\ n # 0 /\ n \in Nat \ {0} /\ n \in Int
  BY IbcAssumption
<1>2. PICK m \in Int : m = 0 - n
  BY <1>1
<1>3. Emit(TRUE, c, r, d, n, u) /\ held' = held /\ escrow' = escrow
  BY Zenon DEF SendHome
<1>4. d \in Coins
  <2>1. CASE r
    <3>1. n <= abroad[c][d]
      BY Zenon, <2>1 DEF SendHome
    <3> QED BY <1>1, <3>1, TablesType DEF Nowhere
  <2>2. CASE ~r
    BY Zenon, <2>2, CoinsFacts DEF SendHome
  <2> QED BY Zenon, <2>1, <2>2
<1>5. TRUE # r => d = Voucher[c]
  BY Zenon DEF SendHome
<1>6. TRUE \in BOOLEAN
  BY Zenon
<1>7. IbcType /\ packets \in Traffic
  BY Zenon, TablesType
<1>8. PacketsType' /\ OnePacketMore(TRUE, c, r, d, n, u)
  BY Zenon, <1>1, <1>3, <1>4, <1>5, <1>6, <1>7, PacketSent
<1>9. PICK p \in Packet :
         /\ p.home = TRUE /\ p.channel = c /\ p.returning = r /\ p.denom = d
         /\ p.amount = n /\ p.user = u
         /\ \A k : Grows(packets, packets', p, k)
  BY Zenon, <1>8 DEF OnePacketMore
<1>10. packets' \in Traffic
  BY Zenon, <1>8 DEF PacketsType, Traffic, Packet
<1>11. RowStep(held, held', Users, u, d, 0) /\ RowStep(escrow, escrow', Channels, c, d, 0)
  BY Zenon, <1>3, RowSame, TablesType
<1>12. CASE ~r
  <2>1. p.home # p.returning
    BY Zenon, <1>9, <1>12
  <2>2. LeavingStep(packets, packets', c, d, 0) /\ WaitingStep(packets, packets', c, n)
    BY Zenon, <1>1, <1>2, <1>7, <1>9, <1>10, <2>1, GrowsSteps
  <2>3. vouched' = [vouched EXCEPT ![c] = @ + n] /\ abroad' = abroad /\ vouched \in [Channels -> Int]
    BY Zenon, <1>12, TablesType DEF SendHome
  <2>4. PICK j \in Int : j = vouched[c] + n
    BY <1>1, <2>3
  <2>5. vouched' = [vouched EXCEPT ![c] = j]
    BY Zenon, <2>3, <2>4
  <2>6. VouchedStep(vouched, vouched', c, n)
    BY Zenon, <1>1, <2>3, <2>4, <2>5, VouchedPut
  <2>7. RowStep(abroad, abroad', Channels, c, d, 0)
    BY Zenon, <2>3, RowSame, TablesType
  <2>8. Balanced(d, c, 0, 0, n, n) /\ 0 \in Int /\ 0 = 0 + 0 /\ 0 <= 0
    BY DEF Balanced
  <2> QED BY Zenon, <1>1, <1>4, <1>8, <1>11, <2>2, <2>6, <2>7, <2>8, MoveKeeps
<1>13. CASE r
  <2>1. p.home = p.returning
    BY Zenon, <1>9, <1>13
  <2>2. LeavingStep(packets, packets', c, d, n) /\ WaitingStep(packets, packets', c, 0)
    BY Zenon, <1>1, <1>2, <1>7, <1>9, <1>10, <2>1, GrowsSteps
  <2>3. /\ abroad' = [abroad EXCEPT ![c][d] = @ - n] /\ n <= abroad[c][d]
        /\ vouched' = vouched /\ abroad \in [Channels -> Row]
    BY Zenon, <1>13, TablesType DEF SendHome
  <2>4. RowStep(abroad, abroad', Channels, c, d, m)
    BY ZenonT(40), <1>1, <1>2, <2>3, RowTake
  <2>5. VouchedStep(vouched, vouched', c, 0)
    BY Zenon, <2>3, VouchedSame, TablesType
  <2>6. Balanced(d, c, 0, 0, 0, 0) /\ 0 \in Int /\ 0 = m + n /\ 0 <= 0
    BY <1>1, <1>2 DEF Balanced
  <2> QED BY Zenon, <1>1, <1>2, <1>4, <1>8, <1>11, <2>2, <2>4, <2>5, <2>6, MoveKeeps
<1> QED BY Zenon, <1>12, <1>13

\* An alias arrives, is burnt and paid for in its coin.
LEMMA ConvertMoves ==
  ASSUME Good, PacketsType', abroad' = abroad, vouched' = vouched,
         NEW u \in Users, NEW k \in Channels, NEW x \in Aliases, NEW y, y = AliasOf[x],
         NEW n \in Nat, NEW m \in Int, m = 0 - n, NEW q \in Nat, q = Precision[x] * n,
         NEW r \in Int, r = 0 - q, NEW h1, NEW h2, NEW e1,
         RowStep(held, h1, Users, u, x, n), RowStep(h1, h2, Users, u, x, m),
         RowStep(h2, held', Users, u, y, q),
         RowStep(escrow, e1, Channels, k, x, m), RowStep(e1, escrow', Channels, k, y, r),
         LeavingStep(packets, packets', k, x, m), WaitingStep(packets, packets', k, 0)
  PROVE  Good'
<1>1. x \in Denoms /\ x \in Coins /\ y \in Denoms /\ y \in Coins /\ n \in Int /\ q \in Int /\ 0 \in Int
  BY CoinsFacts
<1>2. h1 \in [Users -> Row] /\ h2 \in [Users -> Row] /\ e1 \in [Channels -> Row]
  BY Zenon DEF RowStep
<1>3. r = Precision[x] * m
  <2>1. PICK j \in Nat : j = Precision[x]
    BY Zenon, IbcAssumption
  <2>2. q = j * n /\ r = 0 - j * n /\ j * m = j * (0 - n)
    BY Zenon, <2>1
  <2>3. j * (0 - n) = 0 - j * n
    BY <2>1
  <2> QED BY Zenon, <2>1, <2>2, <2>3
<1>4. packets \in Traffic /\ packets' \in Traffic
  BY Zenon, TablesType DEF PacketsType
<1>5. AllBacked(escrow', abroad', packets')
  <2>1. escrow \in [Channels -> Row] /\ abroad \in [Channels -> Row] /\ AllBacked(escrow, abroad, packets)
    BY Zenon, TablesType DEF Good
  <2>2. RowStep(e1, escrow', Channels, k, AliasOf[x], r)
    BY Zenon
  <2>3. AllBacked(escrow', abroad, packets')
    BY Zenon, <1>3, <1>4, <2>1, <2>2, ConvertBacked
  <2> QED BY Zenon, <2>3
<1>6. AllKept(held', escrow', packets', vouched')
  <2>1. /\ held \in [Users -> Row] /\ escrow \in [Channels -> Row] /\ vouched \in [Channels -> Int]
        /\ AllKept(held, escrow, packets, vouched)
    BY Zenon, TablesType DEF Good
  <2>2. VouchedStep(vouched, vouched, k, 0)
    BY Zenon, <2>1, VouchedSame
  <2>3. Balanced(x, k, n, m, 0, 0) /\ Balanced(x, k, m, 0, 0, 0) /\ Balanced(y, k, q, r, 0, 0)
    BY DEF Balanced
  <2>4. AllKept(h1, e1, packets', vouched)
    BY Zenon, <1>1, <1>4, <2>1, <2>2, <2>3, MoveKept
  <2>5. WaitingStep(packets', packets', k, 0)
    <3>1. ASSUME NEW c \in Channels
          PROVE  Waiting(packets', c) = Waiting(packets', c) + 0
      <4>1. PICK i \in Nat : i = Load(packets', c, Voucher[c], TRUE, FALSE)
        BY Zenon, <1>4, LoadType
      <4>2. PICK j \in Nat : j = Load(packets', c, Voucher[c], FALSE, TRUE)
        BY Zenon, <1>4, LoadType
      <4>3. Waiting(packets', c) = i + j
        BY Zenon, <4>1, <4>2 DEF Waiting
      <4> QED BY <4>3
    <3> QED BY Zenon, <3>1 DEF WaitingStep
  <2>6. RowStep(e1, e1, Channels, k, x, 0)
    BY Zenon, <1>2, RowSame
  <2>7. AllKept(h2, e1, packets', vouched)
    BY Zenon, <1>1, <1>2, <1>4, <2>1, <2>2, <2>3, <2>4, <2>5, <2>6, MoveKept
  <2>8. AllKept(held', escrow', packets', vouched)
    BY Zenon, <1>1, <1>2, <1>4, <2>1, <2>2, <2>3, <2>5, <2>7, MoveKept
  <2> QED BY Zenon, <2>8
<1>7. IbcType'
  <2>1. held' \in [Users -> Row] /\ escrow' \in [Channels -> Row]
    BY ZenonT(40) DEF RowStep
  <2>2. Nowhere(held, Users) /\ Nowhere(escrow, Channels)
    BY Zenon, TablesType
  <2>3. Nowhere(h1, Users) /\ Nowhere(e1, Channels)
    BY Zenon, <1>1, <2>2, RowStepNowhere
  <2>4. Nowhere(h2, Users)
    BY Zenon, <1>1, <2>3, RowStepNowhere
  <2>5. Nowhere(held', Users) /\ Nowhere(escrow', Channels)
    BY Zenon, <1>1, <2>3, <2>4, RowStepNowhere
  <2>6. /\ abroad' \in [Channels -> Row] /\ Nowhere(abroad', Channels) /\ vouched' \in [Channels -> Int]
    BY Zenon, TablesType
  <2> QED BY Zenon, <2>1, <2>5, <2>6 DEF IbcType, Nowhere
<1> QED BY Zenon, <1>5, <1>6, <1>7 DEF Good

LEMMA ConvertKeeps ==
  ASSUME Good, NEW p \in packets, p.home, p.returning,
         packets' = packets \ {p}, sent' = sent, abroad' = abroad, vouched' = vouched,
         NEW x \in Aliases, x = p.denom, NEW y, y = AliasOf[x],
         NEW b, b = p.amount, NEW q \in Nat, q = Precision[x] * b,
         NEW h1, h1 = [held EXCEPT ![p.user][x] = @ + b],
         NEW h2, h2 = [h1 EXCEPT ![p.user][x] = @ - b],
         held' = [h2 EXCEPT ![p.user][y] = @ + q],
         b <= escrow[p.channel][x],
         NEW e1, e1 = [escrow EXCEPT ![p.channel][x] = @ - b],
         q <= e1[p.channel][y], escrow' = [e1 EXCEPT ![p.channel][y] = @ - q]
  PROVE  Good'
<1>1. PICK n, m : OnePacketLess(p, n, m)
  BY Zenon, PacketGoneSteps
<1>2. /\ p.user \in Users /\ p.channel \in Channels /\ p.denom \in Coins /\ p.denom \in Denoms
      /\ p.home \in BOOLEAN /\ p.returning \in BOOLEAN
      /\ n \in Nat /\ n \in Int /\ n = p.amount /\ m \in Int /\ m = 0 - n /\ PacketsType'
  BY Zenon, <1>1 DEF OnePacketLess
<1>3. p.home = p.returning
  BY Zenon, <1>2
<1>4. PICK u \in Users, k \in Channels : u = p.user /\ k = p.channel
  BY Zenon, <1>2
<1>5. LeavingStep(packets, packets', k, x, m) /\ WaitingStep(packets, packets', k, 0)
  BY Zenon, <1>1, <1>3, <1>4 DEF OnePacketLess
<1>6. n = b /\ x \in Denoms /\ x \in Coins /\ y \in Denoms /\ y \in Coins
  BY Zenon, <1>2, CoinsFacts
<1>7. PICK r \in Int : r = 0 - q
  <2>1. q \in Nat
    BY Zenon
  <2>2. \E i \in Int : i = 0 - q
    BY ONLY <2>1
  <2> QED BY Zenon, <2>2
<1>8. held \in [Users -> Row] /\ escrow \in [Channels -> Row]
  BY Zenon, TablesType
<1>9. RowStep(held, h1, Users, u, x, n)
  <2>1. h1 = [held EXCEPT ![u][x] = @ + n]
    BY Zenon, <1>4, <1>6
  <2> QED BY ONLY Zenon, <1>2, <1>6, <1>8, <2>1, RowAdd
<1>10. h1 \in [Users -> Row] /\ n <= h1[u][x]
  <2>1. h1[u][x] = held[u][x] + n
    BY ONLY Zenon, <1>6, <1>9 DEF RowStep, Shift
  <2>2. held[u][x] \in Nat
    BY ONLY Zenon, <1>6, <1>8 DEF Row
  <2>3. n <= h1[u][x]
    BY ONLY <1>2, <2>1, <2>2
  <2>4. h1 \in [Users -> Row]
    BY ONLY Zenon, <1>9 DEF RowStep
  <2> QED BY ONLY Zenon, <2>3, <2>4
<1>11. RowStep(h1, h2, Users, u, x, m)
  <2>1. h2 = [h1 EXCEPT ![u][x] = @ - n]
    BY Zenon, <1>4, <1>6
  <2> QED BY ONLY Zenon, <1>2, <1>6, <1>10, <2>1, RowTake
<1>12. h2 \in [Users -> Row]
  BY ONLY Zenon, <1>11 DEF RowStep
<1>13. RowStep(h2, held', Users, u, y, q)
  <2>1. held' = [h2 EXCEPT ![u][y] = @ + q] /\ q \in Nat
    BY Zenon, <1>4
  <2> QED BY ONLY Zenon, <1>6, <1>12, <2>1, RowAdd
<1>14. RowStep(escrow, e1, Channels, k, x, m)
  <2>1. e1 = [escrow EXCEPT ![k][x] = @ - n] /\ n <= escrow[k][x]
    BY Zenon, <1>4, <1>6
  <2> QED BY ONLY Zenon, <1>2, <1>6, <1>8, <2>1, RowTake
<1>15. e1 \in [Channels -> Row]
  BY ONLY Zenon, <1>14 DEF RowStep
<1>16. RowStep(e1, escrow', Channels, k, y, r)
  <2>1. escrow' = [e1 EXCEPT ![k][y] = @ - q] /\ q <= e1[k][y] /\ q \in Nat
    BY Zenon, <1>4
  <2> QED BY ONLY ZenonT(40), <1>6, <1>7, <1>15, <2>1, RowTake
<1>17. q = Precision[x] * n /\ x \in Aliases /\ y = AliasOf[x] /\ q \in Nat /\ Good /\ abroad' = abroad /\ vouched' = vouched
  BY Zenon, <1>6
<1> QED BY ONLY <1>2, <1>5, <1>7, <1>9, <1>11, <1>13, <1>14, <1>16, <1>17, ConvertMoves, Zenon

\* What the entries of a coin that exists say when they ask for a conversion.
LEMMA ConversionIs ==
  ASSUME RegistryInv, NEW d \in Coins, Listed(d), NEW g, g = GetEntry(d), Listed(g.unit),
         NEW f, f = GetEntry(g.unit), f.decimals > g.decimals
  PROVE  \E x \in Aliases :
           /\ x = d
           /\ Precision[x] = 10 ^ (f.decimals - g.decimals)
           /\ g.denom \in Denoms /\ (g.denom \in Coins => g.denom = x)
           /\ f.denom \in Denoms /\ (f.denom \in Coins => f.denom = AliasOf[x])
<1>1. PICK i \in Entries : EqualFold(i.denom, d) /\ g.denom = i.denom /\ g.unit = i.unit /\ g.decimals = i.decimals
  BY Zenon, EntryFacts
<1>2. PICK j \in Entries : EqualFold(j.denom, g.unit) /\ f.denom = j.denom /\ f.unit = j.unit /\ f.decimals = j.decimals
  BY Zenon, EntryFacts
<1>3. EqualFold(j.denom, i.unit) /\ j.decimals > i.decimals
  BY Zenon, <1>1, <1>2
<1>4. PICK x \in Aliases : /\ Fold[x] = Fold[i.denom]
                           /\ Fold[AliasOf[x]] = Fold[j.denom]
                           /\ Precision[x] = 10 ^ (j.decimals - i.decimals)
  BY Zenon, <1>3, EntriesAssumption
<1>5. i.denom \in Denoms /\ j.denom \in Denoms
  BY Zenon, EntriesWritten
<1>6. Fold[i.denom] = Fold[d]
  BY Zenon, <1>1 DEF EqualFold
<1>7. x \in Coins /\ AliasOf[x] \in Coins
  BY Zenon, CoinsFacts
<1>8. x = d
  BY Zenon, <1>4, <1>6, <1>7, CoinsAssumption
<1>9. i.denom \in Coins => i.denom = x
  BY Zenon, <1>4, <1>7, CoinsAssumption
<1>10. j.denom \in Coins => j.denom = AliasOf[x]
  BY Zenon, <1>4, <1>7, CoinsAssumption
<1>11. Precision[x] = 10 ^ (f.decimals - g.decimals)
  BY Zenon, <1>1, <1>2, <1>4
<1> QED BY Zenon, <1>1, <1>2, <1>5, <1>8, <1>9, <1>10, <1>11

\* The coins of a packet that is accepted are credited as they came.
LEMMA CreditKeeps ==
  ASSUME Good, NEW p \in packets, p.home, packets' = packets \ {p}, sent' = sent,
         abroad' = abroad, vouched' = vouched,
         p.returning => p.amount <= escrow[p.channel][p.denom],
         held' = [held EXCEPT ![p.user][p.denom] = @ + p.amount],
         escrow' = IF p.returning THEN [escrow EXCEPT ![p.channel][p.denom] = @ - p.amount] ELSE escrow
  PROVE  Good'
<1>1. PICK n, m : OnePacketLess(p, n, m)
  BY Zenon, PacketGoneSteps
<1>2. /\ p.user \in Users /\ p.channel \in Channels /\ p.denom \in Coins /\ p.denom \in Denoms
      /\ p.home \in BOOLEAN /\ p.returning \in BOOLEAN
      /\ n \in Nat /\ n \in Int /\ n = p.amount /\ m \in Int /\ m = 0 - n /\ m <= 0 /\ PacketsType'
  BY Zenon, <1>1 DEF OnePacketLess
<1>3. RowStep(abroad, abroad', Channels, p.channel, p.denom, 0) /\ VouchedStep(vouched, vouched', p.channel, 0)
  BY Zenon, <1>2, RowSame, VouchedSame, TablesType
<1>4. RowStep(held, held', Users, p.user, p.denom, n)
  <2>1. held \in [Users -> Row] /\ held' = [held EXCEPT ![p.user][p.denom] = @ + n]
    BY Zenon, <1>2, TablesType
  <2> QED BY Zenon, <1>2, <2>1, RowAdd
<1>5. CASE ~p.returning
  <2>1. p.home # p.returning
    BY Zenon, <1>2, <1>5
  <2>2. /\ LeavingStep(packets, packets', p.channel, p.denom, 0) /\ WaitingStep(packets, packets', p.channel, m)
        /\ p.denom = Voucher[p.channel]
    BY Zenon, <1>1, <2>1 DEF OnePacketLess
  <2>3. escrow' = escrow
    BY Zenon, <1>5
  <2>4. RowStep(escrow, escrow', Channels, p.channel, p.denom, 0)
    BY Zenon, <1>2, <2>3, RowSame, TablesType
  <2>5. Balanced(p.denom, p.channel, n, 0, m, 0) /\ 0 \in Int /\ 0 = 0 + 0 /\ 0 <= 0
    BY <1>2, <2>2 DEF Balanced
  <2> QED BY Zenon, <1>2, <1>3, <1>4, <2>2, <2>4, <2>5, MoveKeeps
<1>6. CASE p.returning
  <2>1. p.home = p.returning
    BY Zenon, <1>2, <1>6
  <2>2. LeavingStep(packets, packets', p.channel, p.denom, m) /\ WaitingStep(packets, packets', p.channel, 0)
    BY Zenon, <1>1, <2>1 DEF OnePacketLess
  <2>3. /\ escrow \in [Channels -> Row] /\ escrow' = [escrow EXCEPT ![p.channel][p.denom] = @ - n]
        /\ n <= escrow[p.channel][p.denom]
    BY Zenon, <1>2, <1>6, TablesType
  <2>4. RowStep(escrow, escrow', Channels, p.channel, p.denom, m)
    BY Zenon, <1>2, <2>3, RowTake
  <2>5. Balanced(p.denom, p.channel, n, m, 0, 0) /\ 0 \in Int /\ m = 0 + m
    BY <1>2 DEF Balanced
  <2> QED BY Zenon, <1>2, <1>3, <1>4, <2>2, <2>4, <2>5, MoveKeeps
<1> QED BY Zenon, <1>5, <1>6

\* A packet arrives here: it is refused, credited, or credited and converted.
LEMMA RecvKeeps ==
  ASSUME Good, RegistryInv, NEW p \in packets, OnRecvPacketWhitelistConvert(p)
  PROVE  Good'
<1>1. p.home /\ packets' = packets \ {p} /\ sent' = sent
  BY Zenon DEF OnRecvPacketWhitelistConvert
<1>2. PICK n, m : OnePacketLess(p, n, m)
  BY Zenon, <1>1, PacketGoneSteps
<1>3. /\ p.user \in Users /\ p.channel \in Channels /\ p.denom \in Coins /\ p.denom \in Denoms
      /\ p.home \in BOOLEAN /\ p.returning \in BOOLEAN
      /\ n \in Nat /\ n = p.amount /\ n # 0
      /\ (p.home # p.returning => p.denom = Voucher[p.channel])
  BY Zenon, <1>2 DEF OnePacketLess
<1>4. GetMintedDenomFromPacket(p) = p.denom
  BY Zenon, <1>1, <1>3 DEF GetMintedDenomFromPacket
<1>5. PICK R : /\ R = Received(p)
               /\ R.ok = (p.returning => p.amount <= escrow[p.channel][p.denom])
               /\ R.held = [held EXCEPT ![p.user][p.denom] = @ + p.amount]
               /\ R.escrow = IF p.returning THEN [escrow EXCEPT ![p.channel][p.denom] = @ - p.amount] ELSE escrow
  <2>1. PICK a, b, c : /\ a = (p.returning => p.amount <= escrow[p.channel][p.denom])
                       /\ b = [held EXCEPT ![p.user][p.denom] = @ + p.amount]
                       /\ c = IF p.returning THEN [escrow EXCEPT ![p.channel][p.denom] = @ - p.amount] ELSE escrow
    BY Zenon
  <2>2. Received(p) = [ok |-> a, held |-> b, escrow |-> c]
    BY Zenon, <1>4, <2>1 DEF Received
  <2>3. PICK R : R = Received(p)
    BY Zenon
  <2>4. R.ok = a /\ R.held = b /\ R.escrow = c
    BY ONLY <2>2, <2>3
  <2> QED BY Zenon, <2>1, <2>3, <2>4
<1>6. CASE ~Allowed(p)
  <2>1. /\ held' = held /\ escrow' = escrow
        /\ IF p.returning
             THEN abroad' = [abroad EXCEPT ![p.channel][p.denom] = @ + p.amount] /\ vouched' = vouched
             ELSE vouched' = [vouched EXCEPT ![p.channel] = @ - p.amount] /\ abroad' = abroad
    BY Zenon, <1>6 DEF OnRecvPacketWhitelistConvert
  <2> QED BY Zenon, <1>1, <2>1, TakenBackKeeps
<1>7. CASE Allowed(p)
  <2>1. /\ held' = Converted(p).held /\ escrow' = Converted(p).escrow /\ Converted(p).ok
        /\ abroad' = abroad /\ vouched' = vouched /\ R.ok /\ Listed(p.denom)
    BY Zenon, <1>4, <1>5, <1>7 DEF OnRecvPacketWhitelistConvert, Allowed
  <2>2. PICK g : g = GetEntry(p.denom)
    BY Zenon
  <2>3. CASE ~(Listed(g.unit) /\ GetEntry(g.unit).decimals > g.decimals)
    <3>1. Converted(p) = R
      BY Zenon, <1>4, <1>5, <2>2, <2>3 DEF Converted
    <3>2. /\ p.returning => p.amount <= escrow[p.channel][p.denom]
          /\ held' = [held EXCEPT ![p.user][p.denom] = @ + p.amount]
          /\ escrow' = IF p.returning THEN [escrow EXCEPT ![p.channel][p.denom] = @ - p.amount] ELSE escrow
      BY ZenonT(40), <1>5, <2>1, <3>1
    <3> QED BY Zenon, <1>1, <2>1, <3>2, CreditKeeps
  <2>4. CASE Listed(g.unit) /\ GetEntry(g.unit).decimals > g.decimals
    <3>1. PICK f : f = GetEntry(g.unit)
      BY Zenon
    <3>2. Converted(p) = ExecConvForIncomingCoins(p, R, g, f)
      BY Zenon, <1>4, <1>5, <2>2, <2>4, <3>1 DEF Converted
    <3>3. PICK x \in Aliases :
           /\ x = p.denom
           /\ Precision[x] = 10 ^ (f.decimals - g.decimals)
           /\ g.denom \in Denoms /\ (g.denom \in Coins => g.denom = x)
           /\ f.denom \in Denoms /\ (f.denom \in Coins => f.denom = AliasOf[x])
      BY SMTT(15), <1>3, <2>1, <2>2, <2>4, <3>1, ConversionIs
    <3>4. p.returning
      BY Zenon, <1>1, <1>3, <3>3, CoinsFacts
    <3>5. PICK q : q = n * Precision[x]
      BY Zenon
    <3>6. q \in Nat /\ q # 0 /\ q = Precision[x] * n
      <4>1. PICK j \in Nat \ {0} : j = Precision[x]
        BY Zenon, <3>3, IbcAssumption
      <4> QED BY ONLY <1>3, <3>5, <4>1
    <3>7. PICK h1, e1 : h1 = R.held /\ e1 = R.escrow
      BY Zenon
    <3>8. PICK h2 : h2 = [h1 EXCEPT ![p.user][g.denom] = @ - p.amount]
      BY Zenon
    <3>9. ConvertIncomingCoins(p.amount, f.decimals - g.decimals) = q
      BY Zenon, <1>3, <3>3, <3>5 DEF ConvertIncomingCoins
    <3>10. /\ p.amount <= h1[p.user][g.denom] /\ q <= e1[p.channel][f.denom]
           /\ held' = [h2 EXCEPT ![p.user][f.denom] = @ + q]
           /\ escrow' = [e1 EXCEPT ![p.channel][f.denom] = @ - q]
      <4>1. PICK a, b, c : /\ a = (R.ok /\ p.amount <= h1[p.user][g.denom] /\ q <= e1[p.channel][f.denom])
                           /\ b = [h2 EXCEPT ![p.user][f.denom] = @ + q]
                           /\ c = [e1 EXCEPT ![p.channel][f.denom] = @ - q]
        BY Zenon
      <4>2. Converted(p) = [ok |-> a, held |-> b, escrow |-> c]
        BY Zenon, <3>2, <3>7, <3>8, <3>9, <4>1 DEF ExecConvForIncomingCoins
      <4>3. Converted(p).ok = a /\ Converted(p).held = b /\ Converted(p).escrow = c
        BY ONLY <4>2
      <4> QED BY Zenon, <2>1, <4>1, <4>3
    <3>11. /\ h1 = [held EXCEPT ![p.user][x] = @ + p.amount]
           /\ e1 = [escrow EXCEPT ![p.channel][x] = @ - p.amount]
           /\ p.amount <= escrow[p.channel][x]
      BY Zenon, <1>5, <2>1, <3>3, <3>4, <3>7
    <3>12. held \in [Users -> Row] /\ Nowhere(held, Users) /\ escrow \in [Channels -> Row] /\ Nowhere(escrow, Channels)
      BY Zenon, TablesType
    <3>13. x \in Coins /\ x \in Denoms
      BY Zenon, CoinsFacts
    <3>14. g.denom = x
      <4> SUFFICES ASSUME g.denom \notin Coins
                   PROVE  FALSE
        BY Zenon, <3>3
      <4>1. g.denom # x /\ held[p.user][g.denom] = 0
        BY ZenonT(40), <1>3, <3>3, <3>12, <3>13 DEF Nowhere
      <4>2. h1[p.user][g.denom] = held[p.user][g.denom]
        BY ONLY Zenon, <1>3, <3>3, <3>11, <3>12, <4>1 DEF Row
      <4> QED BY ONLY SMTT(15), <1>3, <3>10, <4>1, <4>2
    <3>15. f.denom = AliasOf[x]
      <4> SUFFICES ASSUME f.denom \notin Coins
                   PROVE  FALSE
        BY Zenon, <3>3
      <4>1. f.denom # x /\ escrow[p.channel][f.denom] = 0
        BY Zenon, <1>3, <3>3, <3>12, <3>13 DEF Nowhere
      <4>2. e1[p.channel][f.denom] = escrow[p.channel][f.denom]
        BY ONLY Zenon, <1>3, <3>3, <3>11, <3>12, <4>1 DEF Row
      <4> QED BY ONLY SMTT(15), <3>6, <3>10, <4>1, <4>2
    <3>16. PICK y, b : y = AliasOf[x] /\ b = p.amount
      BY Zenon
    <3>17. /\ h1 = [held EXCEPT ![p.user][x] = @ + b]
           /\ h2 = [h1 EXCEPT ![p.user][x] = @ - b]
           /\ held' = [h2 EXCEPT ![p.user][y] = @ + q]
           /\ b <= escrow[p.channel][x]
           /\ e1 = [escrow EXCEPT ![p.channel][x] = @ - b]
           /\ q <= e1[p.channel][y] /\ escrow' = [e1 EXCEPT ![p.channel][y] = @ - q]
           /\ q \in Nat /\ q = Precision[x] * b
      BY ONLY Zenon, <1>3, <3>6, <3>8, <3>10, <3>11, <3>14, <3>15, <3>16
    <3>18. y = AliasOf[x] /\ b = p.amount /\ x = p.denom /\ abroad' = abroad /\ vouched' = vouched
      BY Zenon, <2>1, <3>3, <3>16
    <3> QED BY Zenon, <1>1, <3>4, <3>17, <3>18, ConvertKeeps
  <2> QED BY Zenon, <2>3, <2>4
<1> QED BY Zenon, <1>6, <1>7

----------------------------------------------------------------------------
(* The first state, and the theorems.                                       *)

LEMMA WeightZero ==
  ASSUME NEW S, NEW w, \A x \in S : w[x] = 0
  PROVE  Weight(S, w) = 0
<1>1. UnitsOf(S, w) = {}
  BY DEF UnitsOf
<1> QED BY Zenon, <1>1, FS_EmptySet DEF Weight

LEMMA WorthNone ==
  ASSUME NEW d, \A x \in Aliases : AliasOf[x] # d, NEW o
  PROVE  Worth(d, o) = 0
<1>1. {x \in Aliases : AliasOf[x] = d} = {}
  BY Zenon
<1> QED BY Zenon, <1>1, WeightEmpty DEF Worth

LEMMA LoadNone ==
  ASSUME NEW c, NEW d
  PROVE  Leaving({}, c, d) = 0 /\ Waiting({}, c) = 0
<1>1. \A e, r, h : {p \in {} : Fits(p, c, e, r, h)} = {}
  BY Zenon
<1>2. \A e, r, h : Load({}, c, e, r, h) = 0
  BY Zenon, <1>1, WeightEmpty DEF Load
<1>3. 0 + 0 = 0
  OBVIOUS
<1> QED BY Zenon, <1>2, <1>3 DEF Leaving, Waiting

LEMMA FirstRow ==
  ASSUME NEW c \in Channels
  PROVE  /\ FirstAbroad(c) \in Row
         /\ \A d \in Denoms \ Coins : FirstAbroad(c)[d] = 0
         /\ \A d \in Denoms \ Aliases : FirstAbroad(c)[d] = 0
BY Zenon, IbcAssumption, CoinsFacts DEF FirstAbroad, Row

LEMMA InitGood ==
  ASSUME IbcInit
  PROVE  Good
<1>1. held \in [Users -> Row] /\ Nowhere(held, Users)
  <2>1. \A d \in Denoms \ Coins : InitialHeld[d] = 0
    BY IbcAssumption DEF Coins
  <2> QED BY Zenon, <2>1, IbcAssumption DEF IbcInit, Row, Nowhere
<1>2. abroad \in [Channels -> Row] /\ Nowhere(abroad, Channels) /\ \A c \in Channels : abroad[c] = FirstAbroad(c)
  <2>1. abroad = [c \in Channels |-> FirstAbroad(c)]
    BY Zenon DEF IbcInit
  <2> QED BY Zenon, <2>1, FirstRow DEF Nowhere
<1>3. \A c \in Channels, d \in Denoms : Worth(d, FirstAbroad(c)) \in Nat
  BY Zenon, FirstRow, WorthType
<1>4. /\ escrow = [c \in Channels |-> [d \in Denoms |-> FirstAbroad(c)[d] + Worth(d, FirstAbroad(c))]]
      /\ \A c \in Channels, d \in Denoms : escrow[c][d] = FirstAbroad(c)[d] + Worth(d, FirstAbroad(c))
  BY Zenon DEF IbcInit
<1>5. escrow \in [Channels -> Row]
  <2>1. \A c \in Channels, d \in Denoms : FirstAbroad(c)[d] + Worth(d, FirstAbroad(c)) \in Nat
    BY <1>3, FirstRow DEF Row
  <2> QED BY Zenon, <1>4, <2>1 DEF Row
<1>6. Nowhere(escrow, Channels)
  <2> SUFFICES ASSUME NEW c \in Channels, NEW d \in Denoms \ Coins
               PROVE  escrow[c][d] = 0
    BY Zenon DEF Nowhere
  <2>1. \A x \in Aliases : AliasOf[x] # d
    BY Zenon, CoinsFacts
  <2>2. Worth(d, FirstAbroad(c)) = 0 /\ FirstAbroad(c)[d] = 0
    BY Zenon, <2>1, WorthNone, FirstRow
  <2> QED BY <1>4, <2>2
<1>7. vouched \in [Channels -> Int] /\ \A c \in Channels : vouched[c] = 0
  BY DEF IbcInit
<1>8. packets = {} /\ sent = 0 /\ {} \in Traffic /\ PacketsType
  BY Zenon, FS_EmptySet DEF IbcInit, PacketsType, Traffic
<1>9. AllBacked(escrow, abroad, packets)
  <2> SUFFICES ASSUME NEW c \in Channels, NEW d \in Denoms
               PROVE  escrow[c][d] >= OutsideIn(abroad, {}, c)[d] + Worth(d, OutsideIn(abroad, {}, c))
    BY Zenon, <1>8 DEF AllBacked, Backed
  <2>1. PICK o \in Row : o = OutsideIn(abroad, {}, c) /\ \A e \in Denoms : o[e] = abroad[c][e] + Leaving({}, c, e)
    BY Zenon, <1>2, <1>8, OutsideRow
  <2>2. PICK f \in Row : f = FirstAbroad(c) /\ f = abroad[c]
    BY Zenon, <1>2, FirstRow
  <2>3. \A e \in Denoms : o[e] = f[e]
    <3> TAKE e \in Denoms
    <3>1. o[e] = f[e] + 0 /\ f[e] \in Nat
      BY Zenon, <2>1, <2>2, LoadNone DEF Row
    <3> QED BY <3>1
  <2>4. o = f
    BY <2>3 DEF Row
  <2>5. PICK i \in Nat, j \in Nat : i = f[d] /\ j = Worth(d, f)
    BY Zenon, <1>3, <2>2 DEF Row
  <2>6. escrow[c][d] = i + j
    BY Zenon, <1>4, <2>2, <2>5
  <2>7. OutsideIn(abroad, {}, c)[d] + Worth(d, OutsideIn(abroad, {}, c)) = i + j
    BY Zenon, <2>1, <2>4, <2>5
  <2> QED BY <2>5, <2>6, <2>7
<1>10. AllKept(held, escrow, packets, vouched)
  <2>1. \A u \in Users, d \in Denoms : held[u][d] = InitialHeld[d]
    BY Zenon DEF IbcInit
  <2>2. ASSUME NEW d \in Denoms \ (Aliases \cup Range(Voucher))
        PROVE  Total(held, escrow, d) = FirstTotal(d)
    <3>1. [u \in Users |-> held[u][d]] = [u \in Users |-> InitialHeld[d]]
      BY Zenon, <2>1
    <3>2. \A c \in Channels : escrow[c][d] = Worth(d, FirstAbroad(c))
      <4> TAKE c \in Channels
      <4>1. FirstAbroad(c)[d] = 0 /\ Worth(d, FirstAbroad(c)) \in Nat
        BY Zenon, <1>3, FirstRow
      <4>2. escrow[c][d] = FirstAbroad(c)[d] + Worth(d, FirstAbroad(c))
        BY Zenon, <1>4
      <4> QED BY <4>1, <4>2
    <3>3. [c \in Channels |-> escrow[c][d]] = [c \in Channels |-> Worth(d, FirstAbroad(c))]
      BY Zenon, <3>2
    <3> QED BY Zenon, <3>1, <3>3 DEF Total, FirstTotal, Column
  <2>3. ASSUME NEW c \in Channels
        PROVE  Total(held, escrow, Voucher[c]) + Waiting(packets, c) = vouched[c]
    <3>1. PICK d \in Denoms : d = Voucher[c]
      BY Zenon, CoinsFacts
    <3>2. d \notin Aliases /\ (\A x \in Aliases : AliasOf[x] # d) /\ InitialHeld[d] = 0
      BY Zenon, <3>1, CoinsFacts, CoinsAssumption
    <3>3. Column(held, Users, d) = 0
      BY Zenon, <2>1, <3>2, WeightZero DEF Column
    <3>4. \A k \in Channels : escrow[k][d] = 0
      <4> TAKE k \in Channels
      <4>1. FirstAbroad(k)[d] = 0 /\ Worth(d, FirstAbroad(k)) = 0
        BY Zenon, <3>2, FirstRow, WorthNone
      <4> QED BY <1>4, <4>1
    <3>5. Column(escrow, Channels, d) = 0
      BY Zenon, <3>4, WeightZero DEF Column
    <3>6. Waiting(packets, c) = 0
      BY Zenon, <1>8, LoadNone
    <3> QED BY SMTT(15), <1>7, <3>1, <3>3, <3>5, <3>6 DEF Total
  <2> QED BY Zenon, <2>2, <2>3 DEF AllKept
<1> QED BY Zenon, <1>1, <1>2, <1>5, <1>6, <1>7, <1>8, <1>9, <1>10 DEF Good, IbcType

LEMMA NextGood ==
  ASSUME Good, RegistryInv, [IbcNext]_ibcVars
  PROVE  Good'
<1>1. CASE UNCHANGED <<held, escrow, abroad, vouched, packets, sent>>
  <2>1. /\ held' = held /\ escrow' = escrow /\ abroad' = abroad /\ vouched' = vouched
        /\ packets' = packets /\ sent' = sent
    BY Zenon, <1>1
  <2> QED BY Zenon, <2>1 DEF Good, IbcType, PacketsType
<1>2. CASE Administer
  BY Zenon, <1>1, <1>2 DEF Administer
<1>3. CASE UNCHANGED ibcVars
  BY Zenon, <1>1, <1>3 DEF ibcVars
<1>4. ASSUME NEW u \in Users, NEW c \in Channels, NEW d \in Denoms, NEW n \in Amounts,
             Transfer(u, c, d, n)
      PROVE  Good'
  BY Zenon, <1>4, TransferKeeps
<1>5. ASSUME NEW u \in Users, NEW c \in Channels, NEW d \in Denoms, NEW n \in Amounts,
             NEW r \in BOOLEAN, SendHome(u, c, r, d, n)
      PROVE  Good'
  BY Zenon, <1>5, SendHomeKeeps
<1>6. ASSUME NEW p \in packets, OnAcknowledgementPacket(p)
      PROVE  Good'
  BY Zenon, <1>6, AcknowledgementKeeps
<1>7. ASSUME NEW p \in packets, OnTimeoutPacket(p)
      PROVE  Good'
  BY Zenon, <1>7, TimeoutKeeps
<1>8. ASSUME NEW p \in packets, OnRecvPacketWhitelistConvert(p)
      PROVE  Good'
  BY Zenon, <1>8, RecvKeeps
<1>9. ASSUME NEW p \in packets, TimeoutAbroad(p)
      PROVE  Good'
  <2>1. /\ p.home /\ packets' = packets \ {p} /\ sent' = sent /\ held' = held /\ escrow' = escrow
        /\ IF p.returning
             THEN abroad' = [abroad EXCEPT ![p.channel][p.denom] = @ + p.amount] /\ vouched' = vouched
             ELSE vouched' = [vouched EXCEPT ![p.channel] = @ - p.amount] /\ abroad' = abroad
    BY Zenon, <1>9 DEF TimeoutAbroad
  <2> QED BY Zenon, <2>1, TakenBackKeeps
<1> QED BY Zenon, <1>2, <1>3, <1>4, <1>5, <1>6, <1>7, <1>8, <1>9 DEF IbcNext

LEMMA GoodInvariant == IbcSpec => []Good
<1>1. IbcInit => Good
  BY Zenon, InitGood
<1>2. Good /\ RegistryInv /\ [IbcNext]_ibcVars => Good'
  BY Zenon, NextGood
<1> QED BY <1>1, <1>2, RegistryInvariant, PTL DEF IbcSpec

\* The escrow account of every channel holds all that is abroad or on its way through that
\* channel, and what its aliases are worth, whatever the admin writes to the registry while
\* packets are on their way (ExecConvForIncomingCoins, OnRecvPacketWhitelistConvert).
THEOREM EscrowCovers == IbcSpec => []VouchersBacked
<1>1. Good => VouchersBacked
  BY Zenon, BackedIs DEF Good
<1> QED BY <1>1, GoodInvariant, PTL

\* Transfers, conversions, refusals and refunds neither make nor lose coins: of each coin that
\* is not an alias the users and the escrow accounts together hold what they held at first, and
\* of each voucher as many exist as the other chain holds in escrow.
THEOREM CoinsAreKept == IbcSpec => []CoinsKept
<1>1. Good => CoinsKept
  <2> SUFFICES ASSUME Good
               PROVE  CoinsKept
    BY Zenon
  <2>1. /\ held \in [Users -> Row] /\ escrow \in [Channels -> Row] /\ packets \in Traffic
        /\ AllKept(held, escrow, packets, vouched)
    BY Zenon, TablesType DEF Good
  <2>2. \A c \in Channels : Sum4(held, escrow, packets, c) = Total(held, escrow, Voucher[c]) + Waiting(packets, c)
    BY Zenon, <2>1, SumOfFour
  <2> QED BY Zenon, <2>1, <2>2, KeptIs DEF AllKept
<1> QED BY <1>1, GoodInvariant, PTL
=============================================================================
