------------------------- MODULE DispensationProofs -------------------------
(***************************************************************************)
(* Theorems about distributions, for any distributors, runners, recipients *)
(* and amounts, and for any number of records that one run settles.        *)
(***************************************************************************)
EXTENDS Dispensation, WeightTheorems

----------------------------------------------------------------------------
(* Sums.                                                                    *)

\* Nothing weighs nothing.
LEMMA WeightZero ==
  ASSUME NEW S, NEW w, \A x \in S : w[x] = 0
  PROVE  Weight(S, w) = 0
<1>1. UnitsOf(S, w) = {}
  BY UnitIsPair
<1> QED BY Zenon, <1>1, FS_EmptySet DEF Weight

\* What the members of S hold, grouped: a group holds what its members hold together.
LEMMA WeightGroups ==
  ASSUME NEW S, IsFiniteSet(S), NEW w, \A x \in S : w[x] \in Nat,
         NEW T, IsFiniteSet(T), NEW g \in [S -> T],
         NEW v, \A t \in T : v[t] = Weight({x \in S : g[x] = t}, w)
  PROVE  Weight(T, v) = Weight(S, w)
<1> DEFINE Group(t) == {x \in S : g[x] = t}
           Units(t) == UnitsOf(Group(t), w)
           Counts(t, h) == h \in Bijection(1 .. v[t], Units(t))
           count == [t \in T |-> CHOOSE h : Counts(t, h)]
           f == [u \in UnitsOf(T, v) |-> count[u[1]][u[2]]]
<1>1. ASSUME NEW t \in T
      PROVE  v[t] \in Nat /\ Counts(t, count[t])
  <2>1. IsFiniteSet(Group(t)) /\ \A x \in Group(t) : w[x] \in Nat
    BY Zenon, FS_Subset
  <2>2. IsFiniteSet(Units(t)) /\ v[t] = Cardinality(Units(t))
    <3>1. v[t] = Weight(Group(t), w)
      BY Zenon
    <3>2. IsFiniteSet(UnitsOf(Group(t), w))
      <4> HIDE DEF Group
      <4> QED BY Zenon, <2>1, WeightType
    <3> QED BY Zenon, <3>1, <3>2 DEF Weight
  <2>3. v[t] \in Nat /\ ExistsBijection(1 .. v[t], Units(t))
    <3> HIDE DEF Units
    <3> QED BY Zenon, <2>2, FS_CardinalityType
  <2>4. \E h : Counts(t, h)
    BY Zenon, <2>3 DEF ExistsBijection
  <2>5. Counts(t, CHOOSE h : Counts(t, h))
    <3> HIDE DEF Counts
    <3> QED BY Zenon, <2>4
  <2> QED BY Zenon, <2>3, <2>5
<1> HIDE DEF count
<1>2. ASSUME NEW t \in T
      PROVE  /\ count[t] \in [1 .. v[t] -> Units(t)]
             /\ \A i, j \in 1 .. v[t] : count[t][i] = count[t][j] => i = j
             /\ \A u \in Units(t) : \E i \in 1 .. v[t] : count[t][i] = u
  <2> HIDE DEF Units
  <2> QED BY Zenon, <1>1 DEF Bijection, Injection, Surjection, IsInjective
<1>3. \A u \in UnitsOf(T, v) : u = <<u[1], u[2]>> /\ u[1] \in T /\ u[2] \in 1 .. v[u[1]]
  BY Zenon, UnitIsPair
<1>4. ASSUME NEW t \in T, NEW u \in Units(t)
      PROVE  u \in UnitsOf(S, w) /\ g[u[1]] = t
  <2>1. u = <<u[1], u[2]>> /\ u[1] \in Group(t) /\ u[2] \in 1 .. w[u[1]]
    <3> HIDE DEF Group
    <3> QED BY Zenon, UnitIsPair
  <2> QED BY <2>1, UnitMember
<1>5. ASSUME NEW u \in UnitsOf(T, v)
      PROVE  f[u] \in Units(u[1])
  <2> HIDE DEF Units
  <2>1. u[1] \in T /\ u[2] \in 1 .. v[u[1]]
    BY Zenon, <1>3
  <2>2. count[u[1]][u[2]] \in Units(u[1])
    BY Zenon, <1>2, <2>1
  <2> QED BY Zenon, <2>2
<1>6. f \in [UnitsOf(T, v) -> UnitsOf(S, w)]
  <2> HIDE DEF Units
  <2> QED BY Zenon, <1>3, <1>4, <1>5
<1>7. ASSUME NEW a \in UnitsOf(T, v), NEW b \in UnitsOf(T, v), f[a] = f[b]
      PROVE  a = b
  <2> HIDE DEF Units
  <2>1. a[1] = b[1]
    BY <1>3, <1>4, <1>5, <1>7
  <2>2. a[2] = b[2]
    BY <1>2, <1>3, <1>7, <2>1
  <2> QED BY Zenon, <1>3, <2>1, <2>2
<1>8. ASSUME NEW s \in UnitsOf(S, w)
      PROVE  \E u \in UnitsOf(T, v) : f[u] = s
  <2>1. s = <<s[1], s[2]>> /\ s[1] \in S /\ s[2] \in 1 .. w[s[1]]
    BY Zenon, UnitIsPair
  <2>2. PICK t \in T : t = g[s[1]]
    BY Zenon, <2>1
  <2>3. s \in Units(t)
    BY <2>1, <2>2, UnitMember
  <2>4. PICK i \in 1 .. v[t] : count[t][i] = s
    <3> HIDE DEF Units
    <3> QED BY Zenon, <1>2, <2>3
  <2>5. <<t, i>> \in UnitsOf(T, v)
    BY Zenon, UnitMember
  <2> QED BY Zenon, <2>4, <2>5
<1>9. f \in Bijection(UnitsOf(T, v), UnitsOf(S, w))
  <2> HIDE DEF f
  <2>1. DOMAIN f = UnitsOf(T, v)
    BY Zenon, <1>6
  <2> QED BY Zenon, <1>6, <1>7, <1>8, <2>1 DEF Bijection, Injection, Surjection, IsInjective
<1>10. IsFiniteSet(UnitsOf(T, v))
  BY Zenon, <1>1, WeightType
<1>11. ExistsBijection(UnitsOf(T, v), UnitsOf(S, w))
  BY Zenon, <1>9 DEF ExistsBijection
<1> QED BY Zenon, <1>10, <1>11, FS_Bijection DEF Weight

\* Holdings that are the sums of two others weigh what those weigh together.
LEMMA WeightSum ==
  ASSUME NEW S, IsFiniteSet(S),
         NEW w, \A x \in S : w[x] \in Nat,
         NEW d, \A x \in S : d[x] \in Nat,
         NEW v, \A x \in S : v[x] = w[x] + d[x]
  PROVE  Weight(S, v) = Weight(S, w) + Weight(S, d)
<1> DEFINE upper == {u \in UnitsOf(S, v) : u[2] > w[u[1]]}
           f == [u \in UnitsOf(S, d) |-> <<u[1], w[u[1]] + u[2]>>]
<1>1. \A x \in S : v[x] \in Nat
  OBVIOUS
<1>2. /\ IsFiniteSet(UnitsOf(S, v)) /\ IsFiniteSet(UnitsOf(S, w)) /\ IsFiniteSet(UnitsOf(S, d))
      /\ Weight(S, w) \in Nat /\ Weight(S, d) \in Nat
  BY Zenon, <1>1, WeightType
<1>3. /\ \A u \in UnitsOf(S, d) : u = <<u[1], u[2]>> /\ u[1] \in S /\ u[2] \in 1 .. d[u[1]]
      /\ \A u \in UnitsOf(S, w) : u = <<u[1], u[2]>> /\ u[1] \in S /\ u[2] \in 1 .. w[u[1]]
      /\ \A u \in UnitsOf(S, v) : u = <<u[1], u[2]>> /\ u[1] \in S /\ u[2] \in 1 .. v[u[1]]
  BY Zenon, UnitIsPair
<1>4. UnitsOf(S, w) \cup upper = UnitsOf(S, v) /\ UnitsOf(S, w) \cap upper = {}
  <2>1. ASSUME NEW u \in UnitsOf(S, w)
        PROVE  u \in UnitsOf(S, v) /\ u \notin upper
    <3>1. u = <<u[1], u[2]>> /\ u[1] \in S /\ u[2] \in 1 .. w[u[1]]
      BY Zenon, <1>3
    <3>2. u[2] \in 1 .. v[u[1]] /\ ~(u[2] > w[u[1]])
      BY <3>1
    <3> QED BY <3>1, <3>2, UnitMember
  <2>2. ASSUME NEW u \in UnitsOf(S, v), u \notin upper
        PROVE  u \in UnitsOf(S, w)
    <3>1. u = <<u[1], u[2]>> /\ u[1] \in S /\ u[2] \in 1 .. v[u[1]]
      BY Zenon, <1>3
    <3>2. u[2] \in 1 .. w[u[1]]
      BY <2>2, <3>1
    <3> QED BY <3>1, <3>2, UnitMember
  <2> QED BY Zenon, <2>1, <2>2
<1>5. f \in Bijection(UnitsOf(S, d), upper)
  <2>1. ASSUME NEW u \in UnitsOf(S, d)
        PROVE  f[u] \in upper
    <3>1. u[1] \in S /\ u[2] \in 1 .. d[u[1]]
      BY Zenon, <1>3
    <3>2. w[u[1]] + u[2] \in 1 .. v[u[1]] /\ w[u[1]] + u[2] > w[u[1]]
      BY <3>1
    <3>3. <<u[1], w[u[1]] + u[2]>> \in UnitsOf(S, v)
      BY Zenon, <3>1, <3>2, UnitMember
    <3> QED BY Zenon, <3>2, <3>3
  <2>2. ASSUME NEW a \in UnitsOf(S, d), NEW b \in UnitsOf(S, d), f[a] = f[b]
        PROVE  a = b
    <3>1. a[1] = b[1] /\ w[a[1]] + a[2] = w[b[1]] + b[2]
      BY Zenon, <2>2
    <3>2. a[2] = b[2]
      BY <1>3, <3>1
    <3> QED BY Zenon, <1>3, <3>1, <3>2
  <2>3. ASSUME NEW t \in upper
        PROVE  \E u \in UnitsOf(S, d) : f[u] = t
    <3>1. t = <<t[1], t[2]>> /\ t[1] \in S /\ t[2] \in 1 .. v[t[1]] /\ t[2] > w[t[1]]
      BY Zenon, <1>3
    <3>2. t[2] - w[t[1]] \in 1 .. d[t[1]]
      BY <3>1
    <3>3. <<t[1], t[2] - w[t[1]]>> \in UnitsOf(S, d)
      BY Zenon, <3>1, <3>2, UnitMember
    <3>4. w[t[1]] + (t[2] - w[t[1]]) = t[2]
      BY <3>1
    <3> QED BY Zenon, <3>1, <3>3, <3>4
  <2>4. f \in [UnitsOf(S, d) -> upper] /\ DOMAIN f = UnitsOf(S, d)
    BY Zenon, <2>1
  <2> HIDE DEF f, upper
  <2> QED BY Zenon, <2>2, <2>3, <2>4 DEF Bijection, Injection, Surjection, IsInjective
<1>6. IsFiniteSet(upper) /\ Cardinality(upper) = Weight(S, d)
  <2> HIDE DEF upper, f
  <2>1. ExistsBijection(UnitsOf(S, d), upper)
    BY Zenon, <1>5 DEF ExistsBijection
  <2> QED BY Zenon, <1>2, <2>1, FS_Bijection DEF Weight
<1> HIDE DEF upper
<1>7. Cardinality(UnitsOf(S, w) \cup upper)
        = Cardinality(UnitsOf(S, w)) + Cardinality(upper) - Cardinality(UnitsOf(S, w) \cap upper)
  BY Zenon, <1>2, <1>6, FS_Union
<1>8. Weight(S, v) = Weight(S, w) + Weight(S, d) - 0
  BY Zenon, <1>4, <1>6, <1>7, FS_EmptySet DEF Weight
<1> QED BY <1>2, <1>8

----------------------------------------------------------------------------
(* Keys and lists of outputs.                                               *)

\* A key is a name, a type and a recipient.
LEMMA KeyParts ==
  /\ \A k \in Keys : /\ k = <<k[1], k[2], k[3]>>
                     /\ k[1] \in Names /\ k[2] \in Types /\ k[3] \in Recipients
  /\ \A n \in Names, t \in Types, r \in Recipients : <<n, t, r>> \in Keys
BY DEF Keys

\* There are finitely many.
LEMMA KeysFinite == IsFiniteSet(Keys)
<1> DEFINE P == (Names \X Types) \X Recipients
           f == [p \in P |-> <<p[1][1], p[1][2], p[2]>>]
<1>1. IsFiniteSet(Names)
  <2>1. IsFiniteSet(1 .. MaxHeight) /\ IsFiniteSet(Distributors)
    BY DispensationAssumption, FS_Interval
  <2> QED BY Zenon, <2>1, FS_Product DEF Names
<1>2. IsFiniteSet(Names \X Types)
  BY Zenon, <1>1, DispensationAssumption, FS_Product
<1>3. IsFiniteSet(P)
  BY Zenon, <1>2, DispensationAssumption, FS_Product
<1>4. f \in [P -> Keys]
  BY Zenon DEF Keys
<1>5. ASSUME NEW k \in Keys
      PROVE  \E p \in P : f[p] = k
  <2>1. k = <<k[1], k[2], k[3]>> /\ k[1] \in Names /\ k[2] \in Types /\ k[3] \in Recipients
    BY Zenon, KeyParts
  <2>2. PICK p : p = <<<<k[1], k[2]>>, k[3]>>
    BY Zenon
  <2>3. p \in P /\ f[p] = k
    BY Zenon, <2>1, <2>2
  <2> QED BY Zenon, <2>3
<1>6. f \in Surjection(P, Keys)
  <2> HIDE DEF f, P
  <2> QED BY Zenon, <1>4, <1>5 DEF Surjection
<1> HIDE DEF f, P
<1> QED BY Zenon, <1>3, <1>6, FS_Surjection

\* An output has a recipient and an amount.
LEMMA OutputParts ==
  ASSUME NEW out \in OutputLists
  PROVE  /\ Len(out) \in Nat /\ DOMAIN out = 1 .. Len(out) /\ IsFiniteSet(DOMAIN out)
         /\ \A i \in DOMAIN out : /\ out[i].to \in Recipients
                                  /\ out[i].coins \in Nat /\ CoinsOf(out)[i] = out[i].coins
<1>1. PICK n \in 1 .. MaxOutputs : out \in [1 .. n -> Outputs]
  BY Zenon DEF OutputLists
<1>2. n \in Nat
  BY <1>1, DispensationAssumption
<1>3. Len(out) = n /\ DOMAIN out = 1 .. n
  BY <1>1, <1>2
<1>4. \A i \in DOMAIN out : out[i].to \in Recipients /\ out[i].coins \in Nat
  BY Zenon, <1>1, DispensationAssumption DEF Outputs
<1>5. IsFiniteSet(DOMAIN out)
  BY <1>2, <1>3, FS_Interval
<1> QED BY Zenon, <1>2, <1>3, <1>4, <1>5 DEF CoinsOf

\* The outputs of a list to one recipient are finitely many, and more of them weigh more.
LEMMA ToParts ==
  ASSUME NEW out \in OutputLists, NEW r, NEW n \in DOMAIN out
  PROVE  /\ To(out, r, Len(out)) = {i \in DOMAIN out : out[i].to = r}
         /\ Weight(To(out, r, Len(out)), CoinsOf(out)) \in Nat
         /\ Weight(To(out, r, n), CoinsOf(out)) \in Nat
         /\ Weight(To(out, r, n), CoinsOf(out)) <= Weight(To(out, r, Len(out)), CoinsOf(out))
<1>1. /\ Len(out) \in Nat /\ DOMAIN out = 1 .. Len(out) /\ IsFiniteSet(DOMAIN out)
      /\ \A i \in DOMAIN out : CoinsOf(out)[i] \in Nat
  BY Zenon, OutputParts
<1>2. PICK A, B : A = To(out, r, n) /\ B = To(out, r, Len(out))
  BY Zenon
<1>3. B = {i \in DOMAIN out : out[i].to = r}
  BY Zenon, <1>1, <1>2 DEF To
<1>4. A \subseteq B /\ B \subseteq DOMAIN out
  BY <1>1, <1>2 DEF To
<1>5. IsFiniteSet(A) /\ IsFiniteSet(B)
  BY Zenon, <1>1, <1>4, FS_Subset
<1>6. Weight(A, CoinsOf(out)) \in Nat /\ Weight(B, CoinsOf(out)) \in Nat
  BY Zenon, <1>1, <1>4, <1>5, WeightType
<1>7. Weight(A, CoinsOf(out)) <= Weight(B, CoinsOf(out))
  BY Zenon, <1>1, <1>4, <1>5, WeightMonotone
<1> QED BY Zenon, <1>2, <1>3, <1>6, <1>7

----------------------------------------------------------------------------
(* Creating a distribution.                                                 *)

\* What a list gives to each key.
Given(name, type, out) ==
  [k \in Keys |-> IF k[1] = name /\ k[2] = type
                    THEN Weight(To(out, k[3], Len(out)), CoinsOf(out)) ELSE 0]

\* The keys of a list together get its total.
LEMMA GivenTotal ==
  ASSUME NEW name \in Names, NEW type \in Types, NEW out \in OutputLists
  PROVE  /\ \A k \in Keys : Given(name, type, out)[k] \in Nat
         /\ Weight(Keys, Given(name, type, out)) = TotalOutput(out)
         /\ TotalOutput(out) \in Nat
<1> DEFINE g == [i \in DOMAIN out |-> <<name, type, out[i].to>>]
<1>1. PICK d : d = Given(name, type, out)
  BY Zenon
<1>2. /\ IsFiniteSet(DOMAIN out) /\ DOMAIN out # {}
      /\ \A i \in DOMAIN out : out[i].to \in Recipients /\ CoinsOf(out)[i] \in Nat
  <2>1. DOMAIN out # {}
    BY DispensationAssumption DEF OutputLists
  <2> QED BY Zenon, <2>1, OutputParts
<1>3. g \in [DOMAIN out -> Keys]
  BY Zenon, <1>2, KeyParts
<1>4. ASSUME NEW k \in Keys
      PROVE  d[k] \in Nat /\ d[k] = Weight({i \in DOMAIN out : g[i] = k}, CoinsOf(out))
  <2>1. k = <<k[1], k[2], k[3]>>
    BY Zenon, KeyParts
  <2>2. CASE k[1] = name /\ k[2] = type
    <3>1. {i \in DOMAIN out : g[i] = k} = {i \in DOMAIN out : out[i].to = k[3]}
      BY <2>1, <2>2
    <3>2. d[k] = Weight(To(out, k[3], Len(out)), CoinsOf(out))
      BY Zenon, <1>1, <2>2 DEF Given
    <3>3. \A n \in DOMAIN out :
             /\ To(out, k[3], Len(out)) = {i \in DOMAIN out : out[i].to = k[3]}
             /\ Weight(To(out, k[3], Len(out)), CoinsOf(out)) \in Nat
      BY Zenon, ToParts
    <3>4. To(out, k[3], Len(out)) = {i \in DOMAIN out : g[i] = k}
      BY Zenon, <1>2, <3>1, <3>3
    <3> QED BY Zenon, <1>2, <3>2, <3>3, <3>4
  <2>3. CASE ~(k[1] = name /\ k[2] = type)
    <3>1. {i \in DOMAIN out : g[i] = k} = {}
      BY <2>1, <2>3
    <3>2. d[k] = 0
      BY Zenon, <1>1, <2>3 DEF Given
    <3>3. Weight({i \in DOMAIN out : g[i] = k}, CoinsOf(out)) = 0
      BY Zenon, <3>1, WeightEmpty
    <3> QED BY <3>2, <3>3
  <2> QED BY Zenon, <2>2, <2>3
<1> HIDE DEF g
<1>5. Weight(Keys, d) = Weight(DOMAIN out, CoinsOf(out))
  BY <1>2, <1>3, <1>4, KeysFinite, WeightGroups
<1>6. Weight(DOMAIN out, CoinsOf(out)) \in Nat
  BY Zenon, <1>2, WeightType
<1> QED BY Zenon, <1>1, <1>4, <1>5, <1>6 DEF TotalOutput

\* CreateDrops adds what the list gives.
LEMMA DropsAdd ==
  ASSUME pending \in Records, NEW name \in Names, NEW type \in Types, NEW out \in OutputLists
  PROVE  /\ Drops(name, type, out) \in Records
         /\ \A k \in Keys : Drops(name, type, out)[k] = pending[k] + Given(name, type, out)[k]
         /\ Weight(Keys, Drops(name, type, out)) = Weight(Keys, pending) + TotalOutput(out)
<1>1. PICK new, d : new = Drops(name, type, out) /\ d = Given(name, type, out)
  BY Zenon
<1>2. \A k \in Keys : pending[k] \in Nat /\ d[k] \in Nat
  BY Zenon, <1>1, GivenTotal DEF Records
<1>3. ASSUME NEW k \in Keys
      PROVE  new[k] = pending[k] + d[k]
  <2>1. CASE k[1] = name /\ k[2] = type /\ To(out, k[3], Len(out)) # {}
    BY Zenon, <1>1, <2>1 DEF Drops, Given, Add
  <2>2. CASE k[1] = name /\ k[2] = type /\ To(out, k[3], Len(out)) = {}
    <3>1. new[k] = pending[k]
      BY Zenon, <1>1, <2>2 DEF Drops
    <3>2. d[k] = 0
      BY Zenon, <1>1, <2>2, WeightEmpty DEF Given
    <3> QED BY <1>2, <3>1, <3>2
  <2>3. CASE ~(k[1] = name /\ k[2] = type)
    <3>1. new[k] = pending[k] /\ d[k] = 0
      BY Zenon, <1>1, <2>3 DEF Drops, Given
    <3> QED BY <1>2, <3>1
  <2> QED BY Zenon, <2>1, <2>2, <2>3
<1>4. new = [k \in Keys |-> new[k]]
  BY Zenon, <1>1 DEF Drops
<1>5. new \in Records
  BY <1>2, <1>3, <1>4 DEF Records
<1>6. Weight(Keys, new) = Weight(Keys, pending) + Weight(Keys, d)
  BY Zenon, <1>2, <1>3, KeysFinite, WeightSum
<1> QED BY Zenon, <1>1, <1>3, <1>5, <1>6, GivenTotal

----------------------------------------------------------------------------
(* Running a distribution.                                                  *)

\* The weight of a set, part by part.
LEMMA WeightSplit ==
  ASSUME NEW S, IsFiniteSet(S), NEW T, T \subseteq S, NEW w, \A x \in S : w[x] \in Nat
  PROVE  /\ Weight(S, w) = Weight(S \ T, w) + Weight(T, w)
         /\ Weight(S, w) \in Nat /\ Weight(S \ T, w) \in Nat /\ Weight(T, w) \in Nat
<1>1. PICK R : R = S \ T
  BY Zenon
<1>2. IsFiniteSet(R) /\ IsFiniteSet(T)
  BY Zenon, <1>1, FS_Subset
<1>3. R \cup T = S /\ R \cap T = {}
  BY Zenon, <1>1
<1>4. \A x \in R \cup T : w[x] \in Nat
  BY Zenon, <1>3
<1>5. Weight(R \cup T, w) = Weight(R, w) + Weight(T, w)
  BY <1>2, <1>3, <1>4, WeightDisjointUnion
<1>6. Weight(R, w) \in Nat /\ Weight(T, w) \in Nat
  BY Zenon, <1>2, <1>4, WeightType
<1>7. Weight(R, w) + Weight(T, w) \in Nat
  BY <1>6
<1> QED BY Zenon, <1>1, <1>3, <1>5, <1>6, <1>7

\* The pending records that one distribution has for some recipients.
KeysFor(name, type, S) == {<<name, type, r>> : r \in S}

Owed(name, type) == [r \in Recipients |-> pending[<<name, type, r>>]]

\* What the recipients are owed is what their records hold.
LEMMA OwedWeight ==
  ASSUME pending \in Records, NEW name \in Names, NEW type \in Types,
         NEW S, S \subseteq Recipients
  PROVE  /\ KeysFor(name, type, S) \subseteq Keys
         /\ IsFiniteSet(S)
         /\ \A r \in S : Owed(name, type)[r] \in Nat
         /\ Weight(KeysFor(name, type, S), pending) = Weight(S, Owed(name, type))
<1>1. PICK K, o : K = KeysFor(name, type, S) /\ o = Owed(name, type)
  BY Zenon
<1>2. K \subseteq Keys
  BY <1>1, KeyParts DEF KeysFor
<1>3. IsFiniteSet(S)
  BY Zenon, DispensationAssumption, FS_Subset
<1>4. \A r \in S : o[r] \in Nat /\ pending[<<name, type, r>>] = o[r]
  BY Zenon, <1>1, KeyParts DEF Owed, Records
<1> DEFINE f == [r \in S |-> <<name, type, r>>]
<1>5. f \in Bijection(S, K)
  <2>1. f \in [S -> K] /\ DOMAIN f = S
    BY Zenon, <1>1 DEF KeysFor
  <2>2. \A a, b \in S : f[a] = f[b] => a = b
    BY Zenon
  <2>3. \A k \in K : \E r \in S : f[r] = k
    BY Zenon, <1>1 DEF KeysFor
  <2> HIDE DEF f
  <2> QED BY Zenon, <2>1, <2>2, <2>3 DEF Bijection, Injection, Surjection, IsInjective
<1>6. \A r \in S : pending[f[r]] = o[r]
  BY Zenon, <1>4
<1> HIDE DEF f
<1>7. Weight(K, pending) = Weight(S, o)
  <2>1. \A r \in S : o[r] \in Nat
    BY Zenon, <1>4
  <2> QED BY <1>3, <1>5, <1>6, <2>1, WeightReindex
<1> QED BY Zenon, <1>1, <1>2, <1>3, <1>4, <1>7

\* A run takes from the pending records what it pays and what it moves to the
\* failed records; a failed record of the same key is replaced, never added to.
LEMMA RunSums ==
  ASSUME pending \in Records, failed \in Records, NEW name \in Names, NEW type \in Types,
         NEW chosen, chosen \subseteq Recipients, NEW sent, sent \subseteq chosen
  PROVE  LET left  == DeleteDistributionRecord(KeysFor(name, type, chosen))
             fails == ChangeRecordStatus(failed, KeysFor(name, type, chosen \ sent))
             lost  == Weight(KeysFor(name, type, chosen \ sent), pending)
         IN  /\ Weight(Keys, left) \in Nat /\ Weight(Keys, fails) \in Nat
             /\ Weight(sent, Owed(name, type)) \in Nat /\ lost \in Nat
             /\ Weight(Keys, pending) = Weight(Keys, left) + Weight(sent, Owed(name, type)) + lost
             /\ Weight(Keys, fails) <= Weight(Keys, failed) + lost
<1>1. PICK M, P, F : /\ M = KeysFor(name, type, chosen)
                     /\ P = KeysFor(name, type, sent)
                     /\ F = KeysFor(name, type, chosen \ sent)
  BY Zenon
<1>2. PICK left, fails : left = DeleteDistributionRecord(M) /\ fails = ChangeRecordStatus(failed, F)
  BY Zenon
<1>3. M \subseteq Keys /\ F \subseteq Keys /\ F \subseteq M /\ P = M \ F
  <2>1. F \subseteq M /\ P = M \ F
    BY <1>1 DEF KeysFor
  <2> QED BY Zenon, <1>1, <2>1, OwedWeight
<1>4. /\ \A k \in Keys : pending[k] \in Nat /\ failed[k] \in Nat
      /\ \A k \in M : left[k] = 0
      /\ \A k \in Keys \ M : left[k] = pending[k]
      /\ \A k \in F : fails[k] = pending[k]
      /\ \A k \in Keys \ F : fails[k] = failed[k]
  BY Zenon, <1>2, <1>3 DEF Records, DeleteDistributionRecord, ChangeRecordStatus
<1>5. \A k \in Keys : left[k] \in Nat /\ fails[k] \in Nat
  <2>1. ASSUME NEW k \in Keys
        PROVE  left[k] \in Nat /\ fails[k] \in Nat
    <3>1. left[k] \in Nat
      BY <1>4
    <3>2. fails[k] \in Nat
      BY Zenon, <1>4
    <3> QED BY Zenon, <3>1, <3>2
  <2> QED BY Zenon, <2>1
<1>6. /\ Weight(Keys, pending) = Weight(Keys \ M, pending) + Weight(M, pending)
      /\ Weight(Keys \ M, pending) \in Nat
  BY <1>3, <1>4, KeysFinite, WeightSplit
<1>7. /\ Weight(M, pending) = Weight(P, pending) + Weight(F, pending)
      /\ Weight(P, pending) \in Nat /\ Weight(F, pending) \in Nat
  <2>1. IsFiniteSet(M) /\ \A k \in M : pending[k] \in Nat
    BY Zenon, <1>3, <1>4, KeysFinite, FS_Subset
  <2>2. /\ Weight(M, pending) = Weight(M \ F, pending) + Weight(F, pending)
        /\ Weight(M \ F, pending) \in Nat /\ Weight(F, pending) \in Nat
    <3>1. F \subseteq M
      BY Zenon, <1>3
    <3> QED BY <2>1, <3>1, WeightSplit
  <2> QED BY Zenon, <1>3, <2>2
<1>8. Weight(P, pending) = Weight(sent, Owed(name, type))
  BY Zenon, <1>1, OwedWeight
<1>9. /\ Weight(Keys, left) = Weight(Keys \ M, left) + Weight(M, left)
      /\ Weight(Keys, left) \in Nat
  BY <1>3, <1>5, KeysFinite, WeightSplit
<1>10. Weight(M, left) = 0 /\ Weight(Keys \ M, left) = Weight(Keys \ M, pending)
  BY Zenon, <1>4, WeightZero, WeightCongruence
<1>11. /\ Weight(Keys, fails) = Weight(Keys \ F, fails) + Weight(F, fails)
       /\ Weight(Keys, fails) \in Nat
  <2>1. F \subseteq Keys
    BY Zenon, <1>3
  <2>2. \A k \in Keys : fails[k] \in Nat
    BY Zenon, <1>5
  <2> QED BY <2>1, <2>2, KeysFinite, WeightSplit
<1>12. Weight(F, fails) = Weight(F, pending) /\ Weight(Keys \ F, fails) = Weight(Keys \ F, failed)
  BY Zenon, <1>4, WeightCongruence
<1>13. /\ Weight(Keys, failed) = Weight(Keys \ F, failed) + Weight(F, failed)
       /\ Weight(Keys \ F, failed) \in Nat /\ Weight(F, failed) \in Nat
  <2>1. F \subseteq Keys
    BY Zenon, <1>3
  <2>2. \A k \in Keys : failed[k] \in Nat
    BY Zenon, <1>4
  <2> QED BY <2>1, <2>2, KeysFinite, WeightSplit
<1>14. /\ Weight(Keys, pending) = Weight(Keys, left) + Weight(sent, Owed(name, type)) + Weight(F, pending)
       /\ Weight(Keys, fails) <= Weight(Keys, failed) + Weight(F, pending)
  BY <1>6, <1>7, <1>8, <1>9, <1>10, <1>11, <1>12, <1>13
<1> QED BY Zenon, <1>1, <1>2, <1>7, <1>8, <1>9, <1>11, <1>14

\* The inductive invariant: a payment that the module account covers needs
\* PromisesFunded, which in turn needs records and balances to be amounts.
DispensationInv ==
  DispensationTypeOK /\ PromisesFunded /\ OnlyBlockedFail /\ RunnerAuthorized

\* The module account covers a record and every payment made before it.
LEMMA Affordable ==
  ASSUME DispensationTypeOK, PromisesFunded, NEW name \in Names, NEW type \in Types,
         NEW chosen, chosen \subseteq Recipients, NEW sent, sent \subseteq chosen, NEW r \in chosen
  PROVE  Weight({q \in sent : q < r}, Owed(name, type)) + Owed(name, type)[r] <= module
<1>1. PICK o : o = Owed(name, type)
  BY Zenon
<1>2. PICK A : A = {q \in sent : q < r}
  BY Zenon
<1>3. /\ pending \in Records /\ module \in Nat
      /\ \A k \in Keys : failed[k] \in Nat
      /\ \A k \in Keys : pending[k] \in Nat
  BY Zenon DEF DispensationTypeOK, Records
<1>4. /\ KeysFor(name, type, chosen) \subseteq Keys /\ IsFiniteSet(chosen)
      /\ \A q \in chosen : o[q] \in Nat
      /\ Weight(KeysFor(name, type, chosen), pending) = Weight(chosen, o)
  BY Zenon, <1>1, <1>3, OwedWeight
<1>5. A \cup {r} \subseteq chosen /\ A \cap {r} = {}
  <2>1. r \in Nat
    BY Zenon, DispensationAssumption
  <2>2. ~(r < r)
    BY <2>1
  <2>3. r \notin A /\ A \subseteq sent
    BY Zenon, <1>2, <2>2
  <2> QED BY Zenon, <2>3
<1>6. IsFiniteSet(A) /\ IsFiniteSet({r})
  BY Zenon, <1>4, <1>5, FS_Subset
<1>7. Weight(A \cup {r}, o) = Weight(A, o) + Weight({r}, o)
  <2>1. \A q \in A \cup {r} : o[q] \in Nat
    BY Zenon, <1>4, <1>5
  <2> QED BY <1>5, <1>6, <2>1, WeightDisjointUnion
<1>8. Weight({r}, o) = o[r]
  BY Zenon, <1>4, WeightSingleton
<1>9. Weight(A \cup {r}, o) <= Weight(chosen, o)
  BY Zenon, <1>4, <1>5, WeightMonotone
<1>10. Weight(chosen, o) <= Weight(Keys, pending)
  <2>1. Weight(KeysFor(name, type, chosen), pending) <= Weight(Keys, pending)
    BY Zenon, <1>3, <1>4, KeysFinite, WeightMonotone
  <2> QED BY Zenon, <1>4, <2>1
<1>11. Weight(Keys, pending) \in Nat /\ Weight(Keys, failed) \in Nat
  BY Zenon, <1>3, KeysFinite, WeightType
<1>12. /\ Weight(A, o) \in Nat /\ o[r] \in Nat /\ Weight(chosen, o) \in Nat
       /\ Weight(A \cup {r}, o) = Weight(A, o) + o[r]
  <2>1. \A q \in A : o[q] \in Nat
    BY Zenon, <1>4, <1>5
  <2>2. Weight(A, o) \in Nat
    BY Zenon, <1>6, <2>1, WeightType
  <2>3. Weight(chosen, o) \in Nat
    BY Zenon, <1>4, WeightType
  <2> QED BY Zenon, <1>4, <1>7, <1>8, <2>2, <2>3
<1>13. Weight(A, o) + o[r] <= module
  BY <1>3, <1>9, <1>10, <1>11, <1>12 DEF PromisesFunded
<1> QED BY Zenon, <1>1, <1>2, <1>13

\* What RunDistribution does with the records it takes and those it pays.
Ran(name, type, r, chosen, sent) ==
  /\ chosen = GetLimitedRecordsForRunner(name, type, r)
  /\ chosen \in SUBSET Recipients /\ sent \in SUBSET chosen
  /\ \A q \in chosen : pending[<<name, type, q>>] > 0 /\ runner[<<name, type, q>>] = r
  /\ \A q \in chosen : q \in sent <=> q \notin Blocked
  /\ module' = module - Weight(sent, Owed(name, type))
  /\ paid' = [q \in Recipients |-> paid[q] + IF q \in sent THEN Owed(name, type)[q] ELSE 0]
  /\ completed' = ChangeRecordStatus(completed, KeysFor(name, type, sent))
  /\ failed' = ChangeRecordStatus(failed, KeysFor(name, type, chosen \ sent))
  /\ pending' = DeleteDistributionRecord(KeysFor(name, type, chosen))
  /\ runner' = [k \in Keys |-> IF pending'[k] = 0 THEN NoRunner ELSE runner[k]]
  /\ claims' = DeleteClaims(type, sent, chosen)
  /\ UNCHANGED <<height, funds, distributions>>

\* Of the records it takes, a run pays exactly those whose recipients the bank
\* does not refuse.
LEMMA RunStep ==
  ASSUME DispensationTypeOK, PromisesFunded,
         NEW name \in Names, NEW type \in Types, NEW r, RunDistribution(name, type, r)
  PROVE  \E chosen, sent : Ran(name, type, r, chosen, sent)
<1>1. PICK chosen : chosen = GetLimitedRecordsForRunner(name, type, r)
  BY Zenon
<1>2. /\ chosen \in SUBSET Recipients
      /\ \A q \in chosen : pending[<<name, type, q>>] > 0 /\ runner[<<name, type, q>>] = r
  BY Zenon, <1>1 DEF GetLimitedRecordsForRunner
<1>3. PICK sent \in SUBSET chosen :
        /\ Pays(sent, chosen, Owed(name, type))
        /\ module' = module - Weight(sent, Owed(name, type))
        /\ paid' = [q \in Recipients |-> paid[q] + IF q \in sent THEN Owed(name, type)[q] ELSE 0]
        /\ completed' = ChangeRecordStatus(completed, KeysFor(name, type, sent))
        /\ failed' = ChangeRecordStatus(failed, KeysFor(name, type, chosen \ sent))
        /\ pending' = DeleteDistributionRecord(KeysFor(name, type, chosen))
        /\ runner' = [k \in Keys |-> IF pending'[k] = 0 THEN NoRunner ELSE runner[k]]
        /\ claims' = DeleteClaims(type, sent, chosen)
        /\ UNCHANGED <<height, funds, distributions>>
  BY Zenon, <1>1 DEF RunDistribution, Owed, KeysFor
<1>4. ASSUME NEW q \in chosen
      PROVE  q \in sent <=> q \notin Blocked
  <2>1. Weight({p \in sent : p < q}, Owed(name, type)) + Owed(name, type)[q] <= module
    BY Zenon, <1>2, Affordable
  <2> QED BY Zenon, <1>3, <2>1 DEF Pays
<1>5. Ran(name, type, r, chosen, sent)
  BY Zenon, <1>1, <1>2, <1>3, <1>4 DEF Ran
<1> QED BY Zenon, <1>5

----------------------------------------------------------------------------
(* The invariants.                                                          *)

\* A distribution created keeps the invariant.
LEMMA CreateKeeps ==
  ASSUME DispensationInv, NEW d \in Distributors, NEW type \in Types, NEW out \in OutputLists,
         NEW r \in Runners, CreateDistribution(d, type, out, r)
  PROVE  DispensationInv'
<1>1. PICK name : name = <<height, d>>
  BY Zenon
<1>2. /\ distributions' = distributions \cup {<<name, type, r>>}
      /\ TotalOutput(out) <= funds[d]
      /\ funds' = [funds EXCEPT ![d] = @ - TotalOutput(out)]
      /\ module' = module + TotalOutput(out)
      /\ EveryDropHasCoins(name, type, out)
      /\ pending' = Drops(name, type, out)
      /\ runner' = Authorize(name, type, out, r)
      /\ UNCHANGED <<height, paid, completed, failed, claims>>
  BY Zenon, <1>1 DEF CreateDistribution, VerifyAndSetDistribution, SetDistribution, AccumulateDrops
<1>3. name \in Names
  BY Zenon, <1>1 DEF DispensationInv, DispensationTypeOK, Names
<1>4. /\ DispensationTypeOK /\ PromisesFunded /\ OnlyBlockedFail /\ RunnerAuthorized
      /\ pending \in Records
  BY Zenon DEF DispensationInv, DispensationTypeOK
<1>5. /\ pending' \in Records
      /\ \A k \in Keys : pending'[k] = pending[k] + Given(name, type, out)[k]
      /\ Weight(Keys, pending') = Weight(Keys, pending) + TotalOutput(out)
  BY Zenon, <1>2, <1>3, <1>4, DropsAdd
<1>6. TotalOutput(out) \in Nat /\ \A k \in Keys : Given(name, type, out)[k] \in Nat
  BY Zenon, <1>3, GivenTotal
<1>7. \A k \in Keys : \/ /\ k[1] = name /\ k[2] = type /\ pending'[k] > 0 /\ runner'[k] = r
                      \/ pending'[k] = pending[k] /\ runner'[k] = runner[k]
  <2> SUFFICES ASSUME NEW k \in Keys
               PROVE  \/ /\ k[1] = name /\ k[2] = type /\ pending'[k] > 0 /\ runner'[k] = r
                      \/ pending'[k] = pending[k] /\ runner'[k] = runner[k]
    BY Zenon
  <2>1. CASE k[1] = name /\ k[2] = type /\ To(out, k[3], Len(out)) # {}
    <3>1. PICK i \in DOMAIN out : out[i].to = k[3]
      BY Zenon, <2>1, OutputParts DEF To
    <3>2. k = <<name, type, out[i].to>>
      BY Zenon, <2>1, <3>1, KeyParts
    <3>3. PICK part, all : /\ part = Weight(To(out, k[3], i), CoinsOf(out))
                           /\ all = Weight(To(out, k[3], Len(out)), CoinsOf(out))
      BY Zenon
    <3>4. pending[k] + part > 0
      <4>1. Add(pending[<<name, type, out[i].to>>], Weight(To(out, out[i].to, i), CoinsOf(out))) > 0
        BY Zenon, <1>2 DEF EveryDropHasCoins
      <4> QED BY Zenon, <3>1, <3>2, <3>3, <4>1 DEF Add
    <3>5. part \in Nat /\ all \in Nat /\ part <= all
      BY Zenon, <3>3, ToParts
    <3>6. pending'[k] = pending[k] + all /\ runner'[k] = r
      BY Zenon, <1>2, <2>1, <3>3 DEF Drops, Add, Authorize
    <3>7. pending[k] \in Nat
      BY Zenon, <1>4 DEF Records
    <3>8. pending'[k] > 0
      BY <3>4, <3>5, <3>6, <3>7
    <3> QED BY Zenon, <2>1, <3>6, <3>8
  <2>2. CASE ~(k[1] = name /\ k[2] = type /\ To(out, k[3], Len(out)) # {})
    BY Zenon, <1>2, <2>2 DEF Drops, Authorize
  <2> QED BY Zenon, <2>1, <2>2
<1>8. r # NoRunner
  BY Zenon, DispensationAssumption
<1>9. DispensationTypeOK'
  <2>1. height' \in 1 .. MaxHeight /\ paid' \in [Recipients -> Nat] /\ completed' \in Records
        /\ failed' \in Records /\ claims' \subseteq Recipients \X ClaimTypes
    BY Zenon, <1>2, <1>4 DEF DispensationTypeOK
  <2>2. funds' \in [Distributors -> Nat] /\ module' \in Nat
    <3>1. PICK total : total = TotalOutput(out)
      BY Zenon
    <3>2. /\ total <= funds[d] /\ funds' = [funds EXCEPT ![d] = @ - total]
          /\ module' = module + total /\ total \in Nat
      BY Zenon, <1>2, <1>6, <3>1
    <3>3. funds \in [Distributors -> Nat] /\ module \in Nat
      BY Zenon, <1>4 DEF DispensationTypeOK
    <3> QED BY <3>2, <3>3
  <2>3. distributions' \subseteq Names \X Types \X Runners
    BY <1>2, <1>3, <1>4 DEF DispensationTypeOK
  <2>4. runner' \in [Keys -> Runners \cup {NoRunner}]
    BY Zenon, <1>2, <1>4 DEF DispensationTypeOK, Authorize
  <2>5. \A k \in Keys : pending'[k] > 0 <=> runner'[k] # NoRunner
    BY Zenon, <1>4, <1>7, <1>8 DEF DispensationTypeOK
  <2> QED BY Zenon, <1>5, <2>1, <2>2, <2>3, <2>4, <2>5 DEF DispensationTypeOK
<1>10. PromisesFunded'
  <2>1. \A k \in Keys : pending[k] \in Nat /\ failed[k] \in Nat
    BY Zenon, <1>4 DEF DispensationTypeOK, Records
  <2>2. Weight(Keys, pending) \in Nat /\ Weight(Keys, failed) \in Nat
    BY Zenon, <2>1, KeysFinite, WeightType
  <2>3. module \in Nat /\ failed' = failed
    BY Zenon, <1>2, <1>4 DEF DispensationTypeOK
  <2>4. PICK p, q, t, m : /\ p = Weight(Keys, pending) /\ q = Weight(Keys, failed)
                          /\ t = TotalOutput(out) /\ m = Weight(Keys, pending')
    BY Zenon
  <2>5. /\ p \in Nat /\ q \in Nat /\ t \in Nat /\ module \in Nat
        /\ m = p + t /\ module' = module + t
    BY Zenon, <1>2, <1>5, <1>6, <2>2, <2>3, <2>4
  <2>6. p + q <= module
    BY Zenon, <1>4, <2>4 DEF PromisesFunded
  <2>7. m + q <= module'
    BY <2>5, <2>6
  <2> QED BY Zenon, <2>3, <2>4, <2>7 DEF PromisesFunded
<1>11. OnlyBlockedFail'
  BY Zenon, <1>2, <1>4 DEF OnlyBlockedFail
<1>12. RunnerAuthorized'
  <2>1. ASSUME NEW k \in Keys, pending'[k] > 0
        PROVE  <<k[1], k[2], runner'[k]>> \in distributions'
    <3>1. CASE k[1] = name /\ k[2] = type /\ pending'[k] > 0 /\ runner'[k] = r
      BY Zenon, <1>2, <3>1
    <3>2. CASE pending'[k] = pending[k] /\ runner'[k] = runner[k]
      BY Zenon, <1>2, <1>4, <2>1, <3>2 DEF RunnerAuthorized
    <3> QED BY Zenon, <1>7, <3>1, <3>2
  <2> QED BY Zenon, <2>1 DEF RunnerAuthorized
<1> QED BY Zenon, <1>9, <1>10, <1>11, <1>12 DEF DispensationInv

\* So does a run.
LEMMA RunKeeps ==
  ASSUME DispensationInv, NEW name \in Names, NEW type \in Types, NEW r \in Runners,
         RunDistribution(name, type, r)
  PROVE  DispensationInv'
<1>1. DispensationTypeOK /\ PromisesFunded /\ OnlyBlockedFail /\ RunnerAuthorized
  BY Zenon DEF DispensationInv
<1>2. PICK chosen, sent : Ran(name, type, r, chosen, sent)
  BY Zenon, <1>1, RunStep
<1>3. /\ pending \in Records /\ completed \in Records /\ failed \in Records
      /\ module \in Nat /\ paid \in [Recipients -> Nat]
  BY Zenon, <1>1 DEF DispensationTypeOK
<1>4. pending' \in Records /\ completed' \in Records /\ failed' \in Records
  BY Zenon, <1>2, <1>3 DEF Records, DeleteDistributionRecord, ChangeRecordStatus, Ran
<1>5. PICK spent, lost :
        /\ spent = Weight(sent, Owed(name, type))
        /\ lost = Weight(KeysFor(name, type, chosen \ sent), pending)
  BY Zenon
<1>6. /\ Weight(Keys, pending') \in Nat /\ Weight(Keys, failed') \in Nat
      /\ spent \in Nat /\ lost \in Nat
      /\ Weight(Keys, pending) = Weight(Keys, pending') + spent + lost
      /\ Weight(Keys, failed') <= Weight(Keys, failed) + lost
  <2>1. chosen \subseteq Recipients /\ sent \subseteq chosen
    BY Zenon, <1>2 DEF Ran
  <2>2. PICK left, fails :
          /\ left = DeleteDistributionRecord(KeysFor(name, type, chosen))
          /\ fails = ChangeRecordStatus(failed, KeysFor(name, type, chosen \ sent))
    BY Zenon
  <2>3. /\ Weight(Keys, left) \in Nat /\ Weight(Keys, fails) \in Nat
        /\ spent \in Nat /\ lost \in Nat
        /\ Weight(Keys, pending) = Weight(Keys, left) + spent + lost
        /\ Weight(Keys, fails) <= Weight(Keys, failed) + lost
    BY <1>3, <1>5, <2>1, <2>2, RunSums
  <2>4. pending' = left /\ failed' = fails
    BY Zenon, <1>2, <2>2 DEF Ran
  <2> QED BY Zenon, <2>3, <2>4
<1>7. Weight(Keys, failed) \in Nat
  BY Zenon, <1>3, KeysFinite, WeightType DEF Records
<1>8. module' \in Nat /\ PromisesFunded'
  <2>1. module' = module - spent
    BY Zenon, <1>2, <1>5 DEF Ran
  <2> QED BY <1>1, <1>3, <1>6, <1>7, <2>1 DEF PromisesFunded
<1>9. \A k \in Keys : pending'[k] = 0 \/ pending'[k] = pending[k]
  BY Zenon, <1>2 DEF DeleteDistributionRecord, Ran
<1>10. \A k \in Keys : pending[k] \in Nat /\ pending'[k] \in Nat
  BY Zenon, <1>3, <1>4 DEF Records
<1>11. DispensationTypeOK'
  <2>1. height' \in 1 .. MaxHeight /\ funds' \in [Distributors -> Nat]
        /\ distributions' \subseteq Names \X Types \X Runners
    BY Zenon, <1>1, <1>2 DEF DispensationTypeOK, Ran
  <2>2. paid' \in [Recipients -> Nat]
    <3>1. \A q \in sent : Owed(name, type)[q] \in Nat
      BY Zenon, <1>2, <1>3, OwedWeight DEF Ran
    <3>2. paid' = [q \in Recipients |-> paid[q] + IF q \in sent THEN Owed(name, type)[q] ELSE 0]
      BY Zenon, <1>2 DEF Ran
    <3> QED BY <1>3, <3>1, <3>2
  <2>3. runner' \in [Keys -> Runners \cup {NoRunner}]
    BY Zenon, <1>1, <1>2 DEF DispensationTypeOK, Ran
  <2>4. \A k \in Keys : pending'[k] > 0 <=> runner'[k] # NoRunner
    <3>1. \A k \in Keys : runner'[k] = IF pending'[k] = 0 THEN NoRunner ELSE runner[k]
      BY Zenon, <1>2 DEF Ran
    <3>2. \A k \in Keys : pending[k] > 0 <=> runner[k] # NoRunner
      BY Zenon, <1>1 DEF DispensationTypeOK
    <3> QED BY <1>9, <1>10, <3>1, <3>2
  <2>5. claims' \subseteq Recipients \X ClaimTypes
    BY Zenon, <1>1, <1>2 DEF DispensationTypeOK, DeleteClaims, Ran
  <2> QED BY Zenon, <1>4, <1>8, <2>1, <2>2, <2>3, <2>4, <2>5 DEF DispensationTypeOK
<1>12. OnlyBlockedFail'
  <2>1. ASSUME NEW k \in Keys, failed'[k] > 0
        PROVE  k[3] \in Blocked
    <3>1. CASE k \in KeysFor(name, type, chosen \ sent)
      <4>1. \A q \in chosen : q \in sent <=> q \notin Blocked
        BY Zenon, <1>2 DEF Ran
      <4>2. PICK q \in chosen \ sent : k = <<name, type, q>>
        BY Zenon, <3>1 DEF KeysFor
      <4>3. k[3] = q
        BY Zenon, <4>2
      <4> QED BY Zenon, <4>1, <4>2, <4>3
    <3>2. CASE k \notin KeysFor(name, type, chosen \ sent)
      <4>1. failed'[k] = failed[k]
        BY Zenon, <1>2, <3>2 DEF ChangeRecordStatus, Ran
      <4> QED BY Zenon, <1>1, <2>1, <4>1 DEF OnlyBlockedFail
    <3> QED BY Zenon, <3>1, <3>2
  <2> QED BY Zenon, <2>1 DEF OnlyBlockedFail
<1>13. RunnerAuthorized'
  <2>1. ASSUME NEW k \in Keys, pending'[k] > 0
        PROVE  <<k[1], k[2], runner'[k]>> \in distributions'
    <3>1. /\ runner'[k] = IF pending'[k] = 0 THEN NoRunner ELSE runner[k]
          /\ distributions' = distributions
      BY Zenon, <1>2 DEF Ran
    <3>2. pending'[k] = pending[k] /\ runner'[k] = runner[k]
      BY <1>9, <1>10, <2>1, <3>1
    <3>3. pending[k] > 0
      BY Zenon, <2>1, <3>2
    <3>4. <<k[1], k[2], runner[k]>> \in distributions
      BY Zenon, <1>1, <3>3 DEF RunnerAuthorized
    <3> QED BY Zenon, <3>1, <3>2, <3>4
  <2> QED BY Zenon, <2>1 DEF RunnerAuthorized
<1> QED BY Zenon, <1>8, <1>11, <1>12, <1>13 DEF DispensationInv

\* Initially there is nothing.
LEMMA InvHoldsInitially == DispensationInit => DispensationInv
<1> SUFFICES ASSUME DispensationInit PROVE DispensationInv
  BY Zenon
<1>1. DispensationTypeOK
  BY DispensationAssumption DEF DispensationInit, DispensationTypeOK, Records, NoRecords
<1>2. \A k \in Keys : pending[k] = 0 /\ failed[k] = 0
  BY Zenon DEF DispensationInit, NoRecords
<1>3. Weight(Keys, pending) = 0 /\ Weight(Keys, failed) = 0
  BY Zenon, <1>2, WeightZero
<1>4. PromisesFunded
  BY <1>3 DEF DispensationInit, PromisesFunded
<1>5. OnlyBlockedFail /\ RunnerAuthorized
  BY <1>2 DEF OnlyBlockedFail, RunnerAuthorized
<1> QED BY Zenon, <1>1, <1>4, <1>5 DEF DispensationInv

\* Every step keeps the invariant.
LEMMA InvPreserved ==
  DispensationInv /\ [DispensationNext]_dispensationVars => DispensationInv'
<1> SUFFICES ASSUME DispensationInv, [DispensationNext]_dispensationVars
             PROVE  DispensationInv'
  BY Zenon
<1>1. CASE Create
  BY Zenon, <1>1, CreateKeeps DEF Create
<1>2. CASE Run
  BY Zenon, <1>2, RunKeeps DEF Run
<1>3. CASE Claim
  <2>1. PICK r \in Recipients, type \in ClaimTypes : CreateUserClaim(r, type)
    BY Zenon, <1>3 DEF Claim
  <2> QED BY <2>1 DEF CreateUserClaim, SetClaim, recordVars, DispensationInv,
                      DispensationTypeOK, PromisesFunded, OnlyBlockedFail, RunnerAuthorized
<1>4. CASE NewBlock
  BY <1>4, DispensationAssumption
     DEF NewBlock, recordVars, DispensationInv, DispensationTypeOK, PromisesFunded,
         OnlyBlockedFail, RunnerAuthorized
<1>5. CASE Restart
  BY <1>5, DispensationAssumption
     DEF Restart, Exported, GetRecords, recordVars, DispensationInv, DispensationTypeOK,
         PromisesFunded, OnlyBlockedFail, RunnerAuthorized
<1>6. CASE UNCHANGED dispensationVars
  BY Zenon, <1>6 DEF dispensationVars, recordVars, DispensationInv, DispensationTypeOK,
              PromisesFunded, OnlyBlockedFail, RunnerAuthorized
<1> QED BY Zenon, <1>1, <1>2, <1>3, <1>4, <1>5, <1>6 DEF DispensationNext

\* The invariant holds in every state.
LEMMA DispensationInvariant == DispensationSpec => []DispensationInv
BY InvHoldsInitially, InvPreserved, PTL DEF DispensationSpec

----------------------------------------------------------------------------
(* Theorems.                                                                *)

\* Whatever is created, run, claimed, exported and imported again, the module
\* account holds the coins of all pending and all failed records.
THEOREM RecordsFunded == DispensationSpec => []PromisesFunded
<1>1. DispensationInv => PromisesFunded
  BY Zenon DEF DispensationInv
<1> QED BY <1>1, DispensationInvariant, PTL

\* DistributeDrops fails only the records of recipients that the bank refuses.
THEOREM FailuresBlocked == DispensationSpec => []OnlyBlockedFail
<1>1. DispensationInv => OnlyBlockedFail
  BY Zenon DEF DispensationInv
<1> QED BY <1>1, DispensationInvariant, PTL

\* Balances and records stay amounts, and every pending record waits for a
\* runner that CreateDistribution authorised for its name and type.
THEOREM RecordsHaveRunners == DispensationSpec => [](DispensationTypeOK /\ RunnerAuthorized)
<1>1. DispensationInv => DispensationTypeOK /\ RunnerAuthorized
  BY Zenon DEF DispensationInv
<1> QED BY <1>1, DispensationInvariant, PTL

\* DeleteClaim removes a claim only together with a payment of its type to its user.
THEOREM ClaimsPaid == DispensationSpec => ClaimsEndPaid
<1> DEFINE Paid(c, k) == /\ k[2] = c[2] /\ k[3] = c[1]
                         /\ pending[k] > 0 /\ pending'[k] = 0 /\ completed'[k] = pending[k]
                         /\ paid'[c[1]] = paid[c[1]] + pending[k]
           EndPaid == \A c \in claims \ claims' : \E k \in Keys : Paid(c, k)
<1>1. ASSUME DispensationInv, [DispensationNext]_dispensationVars
      PROVE  EndPaid
  <2>1. CASE Run
    <3>1. PICK name \in Names, type \in Types, r \in Runners : RunDistribution(name, type, r)
      BY Zenon, <2>1 DEF Run
    <3>2. PICK chosen, sent : Ran(name, type, r, chosen, sent)
      BY Zenon, <1>1, <3>1, RunStep DEF DispensationInv
    <3>3. ASSUME NEW c \in claims \ claims'
          PROVE  \E k \in Keys : Paid(c, k)
      <4>1. PICK q \in sent : c = <<q, type>>
        BY Zenon, <3>2, <3>3 DEF Ran, DeleteClaims
      <4>2. q \in chosen /\ q \in Recipients
        BY Zenon, <3>2 DEF Ran
      <4>3. PICK k \in Keys : k = <<name, type, q>>
        BY Zenon, <4>2, KeyParts
      <4>4. k \in KeysFor(name, type, sent) /\ k \in KeysFor(name, type, chosen)
        BY Zenon, <4>2, <4>3 DEF KeysFor
      <4>5. pending'[k] = 0 /\ completed'[k] = pending[k] /\ pending[k] > 0
        BY Zenon, <3>2, <4>2, <4>3, <4>4 DEF Ran, ChangeRecordStatus, DeleteDistributionRecord
      <4>6. paid'[q] = paid[q] + pending[k]
        BY Zenon, <3>2, <4>2, <4>3 DEF Ran, Owed
      <4> QED BY Zenon, <4>1, <4>3, <4>5, <4>6
    <3> QED BY Zenon, <3>3
  <2>2. CASE Create \/ Claim \/ NewBlock \/ Restart \/ UNCHANGED dispensationVars
    <3>1. claims \subseteq claims'
      BY Zenon, <2>2 DEF Create, CreateDistribution, Claim, CreateUserClaim, SetClaim, NewBlock,
                  Restart, Exported, dispensationVars
    <3> QED BY Zenon, <3>1
  <2> QED BY Zenon, <1>1, <2>1, <2>2 DEF DispensationNext
<1>2. DispensationInv /\ [DispensationNext]_dispensationVars => [EndPaid]_dispensationVars
  BY Zenon, <1>1
<1> QED BY <1>2, DispensationInvariant, PTL DEF DispensationSpec, ClaimsEndPaid

\* GetLimitedRecordsForRunner takes at most MaxRecordsPerBlock records.
LEMMA RunLimited ==
  ASSUME NEW name, NEW type, NEW r
  PROVE  /\ IsFiniteSet(GetLimitedRecordsForRunner(name, type, r))
         /\ Cardinality(GetLimitedRecordsForRunner(name, type, r)) <= MaxRecordsPerBlock
<1> DEFINE matching == {q \in Recipients : /\ pending[<<name, type, q>>] > 0
                                           /\ runner[<<name, type, q>>] = r}
           Before(q) == {p \in matching : p < q}
           chosen == {q \in matching : Cardinality(Before(q)) < MaxRecordsPerBlock}
           f == [q \in chosen |-> Cardinality(Before(q))]
           T == 0 .. MaxRecordsPerBlock - 1
<1>1. matching \subseteq Nat /\ IsFiniteSet(matching) /\ chosen \subseteq matching
  BY Zenon, DispensationAssumption, FS_Subset
<1>2. chosen = GetLimitedRecordsForRunner(name, type, r)
  BY Zenon DEF GetLimitedRecordsForRunner
<1>3. \A q \in chosen : f[q] = Cardinality(Before(q)) /\ Cardinality(Before(q)) < MaxRecordsPerBlock
  BY Zenon
<1> HIDE DEF matching, chosen, f
<1>4. ASSUME NEW q
      PROVE  IsFiniteSet(Before(q)) /\ Cardinality(Before(q)) \in Nat
  BY Zenon, <1>1, FS_Subset, FS_CardinalityType
<1>5. ASSUME NEW a \in chosen, NEW b \in chosen, a < b
      PROVE  Cardinality(Before(a)) < Cardinality(Before(b))
  <2>1. a \in Nat /\ b \in Nat /\ a \in matching /\ b \in matching
    BY Zenon, <1>1
  <2>2. a \notin Before(a) /\ Before(a) \cup {a} \subseteq Before(b)
    <3>1. ~(a < a) /\ \A p \in matching : p < a => p < b
      BY <1>1, <1>5, <2>1
    <3> QED BY Zenon, <1>5, <2>1, <3>1
  <2> HIDE DEF Before
  <2>3. Cardinality(Before(a) \cup {a}) = Cardinality(Before(a)) + 1
    BY Zenon, <1>4, <2>2, FS_AddElement
  <2>4. Cardinality(Before(a) \cup {a}) <= Cardinality(Before(b))
    BY Zenon, <1>4, <2>2, FS_Subset
  <2> QED BY <1>4, <2>3, <2>4
<1> HIDE DEF Before
<1>6. f \in Injection(chosen, T)
  <2>1. f \in [chosen -> T] /\ DOMAIN f = chosen
    BY <1>3, <1>4, DispensationAssumption DEF f
  <2>2. ASSUME NEW a \in chosen, NEW b \in chosen, f[a] = f[b]
        PROVE  a = b
    <3>1. a \in Nat /\ b \in Nat
      BY Zenon, <1>1
    <3>2. ~(a < b) /\ ~(b < a)
      BY <1>3, <1>4, <1>5, <2>2
    <3> QED BY <3>1, <3>2
  <2> QED BY Zenon, <2>1, <2>2 DEF Injection, IsInjective
<1>7. IsFiniteSet(T) /\ Cardinality(T) = MaxRecordsPerBlock
  BY DispensationAssumption, FS_Interval
<1> HIDE DEF T
<1>8. IsFiniteSet(chosen) /\ Cardinality(chosen) <= Cardinality(T)
  BY Zenon, <1>6, <1>7, FS_Injection
<1> QED BY Zenon, <1>2, <1>7, <1>8

\* A step settles records of one distribution and one runner, and no more of
\* them than MaxRecordsPerBlock.
THEOREM OneRunner == DispensationSpec => OneRunnerAtATime
<1> DEFINE settled == {k \in Keys : pending[k] > 0 /\ pending'[k] = 0}
           runs == {<<k[1], k[2], runner[k]>> : k \in settled}
           One == Cardinality(settled) <= MaxRecordsPerBlock /\ Cardinality(runs) <= 1
<1>1. ASSUME DispensationInv, [DispensationNext]_dispensationVars
      PROVE  One
  <2>1. CASE Run
    <3>1. PICK name \in Names, type \in Types, r \in Runners : RunDistribution(name, type, r)
      BY Zenon, <2>1 DEF Run
    <3>2. PICK chosen, sent : Ran(name, type, r, chosen, sent)
      BY Zenon, <1>1, <3>1, RunStep DEF DispensationInv
    <3>3. /\ chosen = GetLimitedRecordsForRunner(name, type, r)
          /\ IsFiniteSet(chosen) /\ Cardinality(chosen) <= MaxRecordsPerBlock
      BY Zenon, <3>2, RunLimited DEF Ran
    <3>4. \A k \in settled : k[1] = name /\ k[2] = type /\ k[3] \in chosen /\ runner[k] = r
      <4>1. ASSUME NEW k \in Keys, pending[k] > 0, pending'[k] = 0
            PROVE  k \in KeysFor(name, type, chosen)
        <5>1. pending[k] \in Nat
          BY Zenon, <1>1 DEF DispensationInv, DispensationTypeOK, Records
        <5>2. pending' = DeleteDistributionRecord(KeysFor(name, type, chosen))
          BY Zenon, <3>2 DEF Ran
        <5> QED BY <4>1, <5>1, <5>2 DEF DeleteDistributionRecord
      <4>2. \A q \in chosen : runner[<<name, type, q>>] = r
        BY Zenon, <3>2 DEF Ran
      <4>3. ASSUME NEW k \in settled
            PROVE  k[1] = name /\ k[2] = type /\ k[3] \in chosen /\ runner[k] = r
        <5>1. k \in KeysFor(name, type, chosen)
          BY Zenon, <4>1
        <5>2. PICK q \in chosen : k = <<name, type, q>>
          BY Zenon, <5>1 DEF KeysFor
        <5> QED BY Zenon, <4>2, <5>2
      <4> QED BY Zenon, <4>3
    <3>5. Cardinality(settled) <= MaxRecordsPerBlock
      <4> DEFINE f == [k \in settled |-> k[3]]
      <4>1. f \in [settled -> chosen] /\ DOMAIN f = settled
        BY Zenon, <3>4
      <4>2. \A a, b \in settled : f[a] = f[b] => a = b
        BY <3>4, KeyParts
      <4>3. settled \subseteq Keys
        BY Zenon
      <4> HIDE DEF settled, f
      <4>4. f \in Injection(settled, chosen)
        BY Zenon, <4>1, <4>2 DEF Injection, IsInjective
      <4>5. IsFiniteSet(settled) /\ Cardinality(settled) <= Cardinality(chosen)
        BY Zenon, <3>3, <4>4, FS_Injection
      <4> QED BY <3>3, <4>5, FS_CardinalityType, DispensationAssumption
    <3>6. Cardinality(runs) <= 1
      <4>1. runs \subseteq {<<name, type, r>>}
        BY Zenon, <3>4
      <4> HIDE DEF runs
      <4>2. PICK U : U = {<<name, type, r>>}
        BY Zenon
      <4>3. IsFiniteSet(U) /\ Cardinality(U) = 1
        BY Zenon, <4>2, FS_Singleton
      <4>4. Cardinality(runs) <= Cardinality(U)
        BY Zenon, <4>1, <4>2, <4>3, FS_Subset
      <4> QED BY Zenon, <4>3, <4>4
    <3> QED BY Zenon, <3>5, <3>6
  <2>2. CASE Create \/ Claim \/ NewBlock \/ Restart \/ UNCHANGED dispensationVars
    <3>1. \A k \in Keys : pending[k] \in Nat /\ pending'[k] >= pending[k]
      <4>1. \A k \in Keys : pending[k] \in Nat
        BY Zenon, <1>1 DEF DispensationInv, DispensationTypeOK, Records
      <4>2. CASE Create
        <5>1. PICK d \in Distributors, type \in Types, out \in OutputLists, r \in Runners :
                CreateDistribution(d, type, out, r)
          BY Zenon, <4>2 DEF Create
        <5>2. PICK name \in Names : name = <<height, d>>
          BY Zenon, <1>1 DEF DispensationInv, DispensationTypeOK, Names
        <5>3. pending' = Drops(name, type, out)
          BY Zenon, <5>1, <5>2 DEF CreateDistribution
        <5>4. \A k \in Keys : /\ pending'[k] = pending[k] + Given(name, type, out)[k]
                              /\ Given(name, type, out)[k] \in Nat
          BY Zenon, <1>1, <5>3, DropsAdd, GivenTotal DEF DispensationInv, DispensationTypeOK
        <5> QED BY <4>1, <5>4
      <4>3. CASE Claim \/ NewBlock \/ Restart \/ UNCHANGED dispensationVars
        <5>1. pending' = pending
          BY Zenon, <4>3 DEF Claim, CreateUserClaim, NewBlock, Restart, Exported, GetRecords,
                      recordVars, dispensationVars
        <5> QED BY <4>1, <5>1
      <4> QED BY Zenon, <2>2, <4>2, <4>3
    <3>2. settled = {} /\ runs = {}
      <4>1. \A k \in Keys : ~(pending[k] > 0 /\ pending'[k] = 0)
        BY <3>1
      <4> QED BY Zenon, <4>1
    <3> HIDE DEF settled, runs
    <3> QED BY <3>2, FS_EmptySet, DispensationAssumption
  <2> QED BY Zenon, <1>1, <2>1, <2>2 DEF DispensationNext
<1>2. DispensationInv /\ [DispensationNext]_dispensationVars => [One]_dispensationVars
  BY Zenon, <1>1
<1> QED BY <1>2, DispensationInvariant, PTL DEF DispensationSpec, OneRunnerAtATime
=============================================================================
