------------------------- MODULE CosmosBridgeProofs -------------------------
(***************************************************************************)
(* Theorems about the bridge contract, its validator set and its bank, for *)
(* any validators, powers, tokens, users and prophecies.                   *)
(***************************************************************************)
EXTENDS CosmosBridge, BridgeBankProofs

ListEntry == [validator : Validators, power : 0 .. MaxPower]

----------------------------------------------------------------------------
(* Lists of validators.                                                     *)

\* The total of a list is a number and its members are validators with powers.
LEMMA ListType ==
  ASSUME NEW list \in ValsetLists
  PROVE  /\ list \in Seq(ListEntry)
         /\ IsFiniteSet(DOMAIN list)
         /\ \A i \in DOMAIN list : list[i] \in ListEntry
         /\ Len(list) \in Nat
         /\ ListPower(list) \in Nat
         /\ ListMembers(list) \subseteq Validators
<1>1. list \in Seq(ListEntry)
  BY Zenon, ValsetAssumption DEF ListEntry
<1>2. PICK n \in Nat : DOMAIN list = 1 .. n /\ Len(list) = n
  BY <1>1
<1>3. IsFiniteSet(DOMAIN list)
  BY <1>2, FS_Interval
<1>4. \A i \in DOMAIN list : list[i] \in ListEntry
  BY <1>1
<1>5. PICK w : w = [i \in DOMAIN list |-> list[i].power]
  BY Zenon
<1>6. \A i \in DOMAIN list : w[i] \in Nat
  BY <1>4, <1>5, ValsetAssumption DEF ListEntry
<1>7. Weight(DOMAIN list, w) \in Nat
  BY Zenon, <1>3, <1>6, WeightType
<1>8. ListMembers(list) \subseteq Validators
  BY Zenon, <1>4 DEF ListMembers, ListEntry
<1> QED BY Zenon, <1>1, <1>2, <1>3, <1>4, <1>5, <1>7, <1>8 DEF ListPower

\* The powers that a list gives are powers, and it gives none to others.
LEMMA ListPowersType ==
  ASSUME NEW list \in ValsetLists
  PROVE  /\ ListPowers(list) \in [Validators -> 0 .. MaxPower]
         /\ \A v \in Validators \ ListMembers(list) : ListPowers(list)[v] = 0
<1>1. \A k \in DOMAIN list : list[k] \in ListEntry
  BY Zenon, ListType
<1>2. ASSUME NEW v \in Validators
      PROVE  ListPowers(list)[v] \in 0 .. MaxPower
  <2>1. CASE LastOf(list, v) = {}
    BY <2>1, ValsetAssumption DEF ListPowers
  <2>2. CASE LastOf(list, v) # {}
    <3>1. PICK i : i = CHOOSE k \in LastOf(list, v) : TRUE
      BY Zenon
    <3>2. i \in LastOf(list, v)
      BY Zenon, <2>2, <3>1
    <3>3. i \in DOMAIN list
      BY Zenon, <3>2 DEF LastOf
    <3>4. ListPowers(list)[v] = list[i].power
      BY Zenon, <2>2, <3>1 DEF ListPowers
    <3> QED BY Zenon, <1>1, <3>3, <3>4 DEF ListEntry
  <2> QED BY Zenon, <2>1, <2>2
<1>3. ASSUME NEW v \in Validators \ ListMembers(list)
      PROVE  ListPowers(list)[v] = 0
  <2>1. LastOf(list, v) = {}
    BY Zenon DEF LastOf, ListMembers
  <2> QED BY Zenon, <2>1 DEF ListPowers
<1>4. ListPowers(list) = [v \in Validators |-> ListPowers(list)[v]]
  BY DEF ListPowers
<1> QED BY Zenon, <1>2, <1>3, <1>4

\* In a list without duplicates every validator has the power of its element.
LEMMA CarefulPowers ==
  ASSUME NEW list \in CarefulLists, NEW i \in DOMAIN list
  PROVE  ListPowers(list)[list[i].validator] = list[i].power
<1>1. list \in ValsetLists
  BY Zenon DEF CarefulLists
<1>2. \A k \in DOMAIN list : list[k] \in ListEntry
  BY Zenon, <1>1, ListType
<1>3. list[i].validator \in Validators
  BY Zenon, <1>2 DEF ListEntry
<1>4. \A j \in DOMAIN list : list[j].validator = list[i].validator => j = i
  BY Zenon DEF CarefulLists
<1>5. i <= i
  BY <1>1, ListType
<1>6. LastOf(list, list[i].validator) = {i}
  BY Zenon, <1>4, <1>5 DEF LastOf
<1> QED BY Zenon, <1>3, <1>6 DEF ListPowers

\* Such a list has as many members as elements, and their powers add up to its total.
LEMMA CarefulTotals ==
  ASSUME NEW list \in CarefulLists
  PROVE  /\ ListPower(list) = Weight(ListMembers(list), ListPowers(list))
         /\ Len(list) = Cardinality(ListMembers(list))
<1>1. list \in ValsetLists
  BY Zenon DEF CarefulLists
<1>2. /\ list \in Seq(ListEntry)
      /\ IsFiniteSet(DOMAIN list)
      /\ \A k \in DOMAIN list : list[k] \in ListEntry
  BY Zenon, <1>1, ListType
<1>3. PICK f : f = [i \in DOMAIN list |-> list[i].validator]
  BY Zenon
<1>4. f \in Bijection(DOMAIN list, ListMembers(list))
  BY Zenon, <1>3 DEF Bijection, Injection, Surjection, IsInjective, ListMembers, CarefulLists
<1>5. PICK w : w = [i \in DOMAIN list |-> list[i].power]
  BY Zenon
<1>6. \A i \in DOMAIN list : w[i] \in Nat
  BY <1>2, <1>5, ValsetAssumption DEF ListEntry
<1>7. \A i \in DOMAIN list : ListPowers(list)[f[i]] = w[i]
  BY Zenon, <1>3, <1>5, CarefulPowers
<1>8. Weight(ListMembers(list), ListPowers(list)) = Weight(DOMAIN list, w)
  BY <1>2, <1>4, <1>6, <1>7, WeightReindex
<1>9. Cardinality(ListMembers(list)) = Cardinality(DOMAIN list)
  BY Zenon, <1>2, <1>4, FS_Bijection DEF ExistsBijection
<1>10. Cardinality(DOMAIN list) = Len(list)
  <2>1. PICK n \in Nat : DOMAIN list = 1 .. n /\ Len(list) = n
    BY <1>2
  <2> QED BY <2>1, FS_Interval
<1> QED BY Zenon, <1>5, <1>8, <1>9, <1>10 DEF ListPower

\* Of any list, the members are no more than the elements and their powers add up to
\* no more than its total: the element that is kept is one of those that are counted.
LEMMA ListCovers ==
  ASSUME NEW list \in ValsetLists
  PROVE  /\ Weight(ListMembers(list), ListPowers(list)) <= ListPower(list)
         /\ Cardinality(ListMembers(list)) <= Len(list)
<1>1. /\ list \in Seq(ListEntry)
      /\ IsFiniteSet(DOMAIN list)
      /\ \A k \in DOMAIN list : list[k] \in ListEntry
  BY Zenon, ListType
<1>2. PICK w : w = [i \in DOMAIN list |-> list[i].power]
  BY Zenon
<1>3. \A i \in DOMAIN list : w[i] \in Nat
  BY <1>1, <1>2, ValsetAssumption DEF ListEntry
<1>4. Cardinality(ListMembers(list)) <= Len(list)
  <2>1. PICK f : f = [i \in DOMAIN list |-> list[i].validator]
    BY Zenon
  <2>2. f \in Surjection(DOMAIN list, ListMembers(list))
    BY Zenon, <2>1 DEF Surjection, ListMembers
  <2>3. Cardinality(ListMembers(list)) <= Cardinality(DOMAIN list)
    BY Zenon, <1>1, <2>2, FS_Surjection
  <2>4. PICK n \in Nat : DOMAIN list = 1 .. n /\ Len(list) = n
    BY <1>1
  <2>5. Cardinality(DOMAIN list) = Len(list)
    BY <2>4, FS_Interval
  <2> QED BY Zenon, <2>3, <2>5
<1>5. PICK K : K = {v \in ListMembers(list) : LastOf(list, v) # {}}
  BY Zenon
<1>6. PICK g : g = [v \in K |-> CHOOSE i \in LastOf(list, v) : TRUE]
  BY Zenon
<1>7. \A v \in K : g[v] \in LastOf(list, v)
  BY Zenon, <1>5, <1>6
<1>8. \A v \in K : g[v] \in DOMAIN list /\ list[g[v]].validator = v
  BY Zenon, <1>7 DEF LastOf
<1>9. \A v \in K : v \in Validators /\ ListPowers(list)[v] = w[g[v]]
  BY Zenon, <1>2, <1>5, <1>6, <1>8, ListType DEF ListPowers
<1>10. Weight(ListMembers(list), ListPowers(list)) = Weight(K, ListPowers(list))
  <2>1. PICK P : P = ListPowers(list)
    BY Zenon
  <2>2. \A v \in ListMembers(list) \ K : P[v] = 0
    BY Zenon, <1>5, <2>1, ListType DEF ListPowers
  <2>3. K \subseteq ListMembers(list)
    BY Zenon, <1>5
  <2>4. UnitsOf(ListMembers(list), P) = UnitsOf(K, P)
    BY <2>2, <2>3 DEF UnitsOf
  <2> QED BY Zenon, <2>1, <2>4 DEF Weight
<1>11. PICK I : I = {g[v] : v \in K}
  BY Zenon
<1>12. I \subseteq DOMAIN list /\ IsFiniteSet(I)
  BY <1>1, <1>8, <1>11, FS_Subset
<1>13. PICK h : h = [i \in I |-> list[i].validator]
  BY Zenon
<1>14. \A v \in K : h[g[v]] = v
  BY Zenon, <1>8, <1>11, <1>13
<1>15. h \in Bijection(I, K)
  <2>1. h \in [I -> K]
    BY Zenon, <1>8, <1>11, <1>13
  <2>2. \A v \in K : \E i \in I : h[i] = v
    BY Zenon, <1>11, <1>14
  <2>3. \A i, j \in I : h[i] = h[j] => i = j
    BY <1>11, <1>14
  <2> QED BY Zenon, <2>1, <2>2, <2>3 DEF Bijection, Injection, Surjection, IsInjective
<1>16. \A i \in I : w[i] \in Nat /\ ListPowers(list)[h[i]] = w[i]
  BY <1>3, <1>9, <1>11, <1>12, <1>14
<1>17. Weight(K, ListPowers(list)) = Weight(I, w)
  BY <1>12, <1>15, <1>16, WeightReindex
<1>18. Weight(I, w) <= Weight(DOMAIN list, w)
  BY Zenon, <1>1, <1>3, <1>12, WeightMonotone
<1> QED BY Zenon, <1>2, <1>4, <1>10, <1>17, <1>18 DEF ListPower

----------------------------------------------------------------------------
(* One entry of the current version changes.                                *)

\* Version n of the powers q differs from p at most at v, where it is x.
Entry(q, p, n, v, x) ==
  /\ q \in [Versions -> [Validators -> 0 .. MaxPower]]
  /\ \A m \in Versions \ {n} : q[m] = p[m]
  /\ \A u \in Validators : q[n][u] = IF u = v THEN x ELSE p[n][u]

LEMMA EntryChanges ==
  ASSUME NEW p \in [Versions -> [Validators -> 0 .. MaxPower]],
         NEW n \in Versions, NEW v \in Validators, NEW x \in 0 .. MaxPower,
         NEW q, q = [p EXCEPT ![n][v] = x]
  PROVE  Entry(q, p, n, v, x)
<1>1. PICK f : f = [p[n] EXCEPT ![v] = x]
  BY Zenon
<1>2. f \in [Validators -> 0 .. MaxPower]
  BY Zenon, <1>1
<1>3. q = [p EXCEPT ![n] = f]
  BY Zenon, <1>1
<1>4. q \in [Versions -> [Validators -> 0 .. MaxPower]]
  BY Zenon, <1>2, <1>3
<1>5. \A m \in Versions \ {n} : q[m] = p[m]
  BY Zenon, <1>3
<1>6. q[n] = f
  BY Zenon, <1>3
<1>7. \A u \in Validators : f[u] = IF u = v THEN x ELSE p[n][u]
  BY Zenon, <1>1
<1> QED BY Zenon, <1>4, <1>5, <1>6, <1>7 DEF Entry

\* The active validators and their powers.
Active == validators[currentValsetVersion]

\* What is known of them when the type invariant holds.
LEMMA ActiveType ==
  ASSUME ValsetTypeOK
  PROVE  /\ currentValsetVersion \in Versions
         /\ IsFiniteSet(Active)
         /\ Active \subseteq Validators
         /\ Cardinality(Active) \in Nat
         /\ powers[currentValsetVersion] \in [Validators -> 0 .. MaxPower]
         /\ \A v \in Validators : powers[currentValsetVersion][v] \in Nat
<1>1. currentValsetVersion \in Versions
  BY ValsetAssumption DEF ValsetTypeOK, Versions
<1>2. Active \subseteq Validators
  BY Zenon, <1>1 DEF Active, ValsetTypeOK
<1>3. IsFiniteSet(Active)
  BY Zenon, <1>2, ValsetAssumption, FS_Subset
<1>4. Cardinality(Active) \in Nat
  BY Zenon, <1>3, FS_CardinalityType
<1>5. powers[currentValsetVersion] \in [Validators -> 0 .. MaxPower]
  BY Zenon, <1>1 DEF ValsetTypeOK
<1> QED BY <1>1, <1>2, <1>3, <1>4, <1>5, ValsetAssumption

\* What the entries of the versions must satisfy.
EntriesOK(vs, ps) ==
  /\ vs \in [Versions -> SUBSET Validators]
  /\ ps \in [Versions -> [Validators -> 0 .. MaxPower]]
  /\ \A n \in Versions : \A v \in Validators \ vs[n] : ps[n][v] = 0

\* The entries of one active validator change and M becomes the active set.
LEMMA CurrentChanges ==
  ASSUME ValsetTypeOK, NEW v \in Validators, NEW x \in 0 .. MaxPower,
         NEW M \in SUBSET Validators, Active \ {v} \subseteq M, v \in M \/ x = 0,
         validators' = [validators EXCEPT ![currentValsetVersion] = M],
         powers' = [powers EXCEPT ![currentValsetVersion][v] = x]
  PROVE  /\ EntriesOK(validators', powers')
         /\ Entry(powers', powers, currentValsetVersion, v, x)
         /\ validators'[currentValsetVersion] = M
<1> DEFINE c == currentValsetVersion
<1>1. c \in Versions
  BY Zenon, ActiveType
<1>2. Entry(powers', powers, c, v, x)
  BY Zenon, <1>1, EntryChanges DEF ValsetTypeOK
<1>3. validators' \in [Versions -> SUBSET Validators] /\ validators'[c] = M
  BY Zenon, <1>1 DEF ValsetTypeOK
<1>4. \A u \in Validators \ M : powers'[c][u] = 0
  BY Zenon, <1>1, <1>2 DEF ValsetTypeOK, Entry, Active
<1>5. \A n \in Versions \ {c} : validators'[n] = validators[n] /\ powers'[n] = powers[n]
  BY Zenon, <1>2 DEF ValsetTypeOK, Entry
<1>6. \A n \in Versions \ {c} : \A u \in Validators \ validators'[n] : powers'[n][u] = 0
  BY Zenon, <1>5 DEF ValsetTypeOK
<1>7. powers' \in [Versions -> [Validators -> 0 .. MaxPower]]
  BY Zenon, <1>2 DEF Entry
<1> QED BY Zenon, <1>2, <1>3, <1>4, <1>6, <1>7 DEF EntriesOK

----------------------------------------------------------------------------
(* Type correctness, for any operator.                                      *)

\* The constructor establishes the type invariant.
LEMMA ValsetInitType == InitWith(ValsetLists) => ValsetTypeOK
<1> SUFFICES ASSUME InitWith(ValsetLists) PROVE ValsetTypeOK
  BY Zenon
<1>1. PICK list \in ValsetLists :
        /\ validatorCount = Len(list)
        /\ totalPower = ListPower(list)
        /\ validators = [n \in Versions |-> IF n = 1 THEN ListMembers(list) ELSE {}]
        /\ powers = [n \in Versions |-> IF n = 1 THEN ListPowers(list) ELSE NoPowers]
  BY Zenon DEF InitWith
<1>2. Len(list) \in Nat /\ ListPower(list) \in Nat /\ ListMembers(list) \subseteq Validators
  BY Zenon, ListType
<1>3. /\ ListPowers(list) \in [Validators -> 0 .. MaxPower]
      /\ \A v \in Validators \ ListMembers(list) : ListPowers(list)[v] = 0
  BY Zenon, ListPowersType
<1>4. operator \in Operators /\ currentValsetVersion = 1 /\ 1 \in 1 .. MaxVersion /\ 1 \in Versions
  BY ValsetAssumption DEF InitWith, Versions
<1>5. NoPowers \in [Validators -> 0 .. MaxPower] /\ \A v \in Validators : NoPowers[v] = 0
  BY ValsetAssumption DEF NoPowers
<1> QED BY Zenon, <1>1, <1>2, <1>3, <1>4, <1>5 DEF ValsetTypeOK

\* Adding a validator, active or not.
LEMMA AddType ==
  ASSUME ValsetTypeOK, NEW sender, NEW v \in Validators, NEW x \in 0 .. MaxPower,
         addValidator(sender, v, x)
  PROVE  /\ ValsetTypeOK'
         /\ Entry(powers', powers, currentValsetVersion, v, x)
         /\ validators'[currentValsetVersion] = Active \cup {v}
<1>1. PICK M : M = Active \cup {v}
  BY Zenon
<1>2. M \in SUBSET Validators /\ Active \ {v} \subseteq M /\ v \in M
  BY Zenon, <1>1, ActiveType
<1>3. /\ validators' = [validators EXCEPT ![currentValsetVersion] = M]
      /\ powers' = [powers EXCEPT ![currentValsetVersion][v] = x]
  BY Zenon, <1>1 DEF addValidator, Active
<1>4. /\ EntriesOK(validators', powers')
      /\ Entry(powers', powers, currentValsetVersion, v, x)
      /\ validators'[currentValsetVersion] = M
  BY Zenon, <1>2, <1>3, CurrentChanges
<1>5. ValsetTypeOK'
  BY <1>4, ValsetAssumption DEF ValsetTypeOK, EntriesOK, addValidator
<1> QED BY Zenon, <1>1, <1>4, <1>5

\* Changing the power of an active validator.
LEMMA PowerType ==
  ASSUME ValsetTypeOK, NEW sender, NEW v \in Validators, NEW x \in 0 .. MaxPower,
         updateValidatorPower(sender, v, x)
  PROVE  /\ ValsetTypeOK'
         /\ Entry(powers', powers, currentValsetVersion, v, x)
<1>1. PICK M : M = Active
  BY Zenon
<1>2. M \in SUBSET Validators /\ Active \ {v} \subseteq M /\ v \in M
  BY Zenon, <1>1, ActiveType DEF updateValidatorPower, isActiveValidator, Active
<1>3. /\ validators' = [validators EXCEPT ![currentValsetVersion] = M]
      /\ powers' = [powers EXCEPT ![currentValsetVersion][v] = x]
  BY Zenon, <1>1 DEF updateValidatorPower, Active, ValsetTypeOK
<1>4. /\ EntriesOK(validators', powers')
      /\ Entry(powers', powers, currentValsetVersion, v, x)
  BY Zenon, <1>2, <1>3, CurrentChanges
<1>5. powers[currentValsetVersion][v] \in Nat /\ x \in Nat
  BY ActiveType, ValsetAssumption
<1>6. /\ powers[currentValsetVersion][v] <= totalPower
      /\ totalPower' = totalPower - powers[currentValsetVersion][v] + x
  BY Zenon DEF updateValidatorPower, getValidatorPower
<1>7. totalPower' \in Nat
  BY <1>5, <1>6 DEF ValsetTypeOK
<1>8. ValsetTypeOK'
  BY Zenon, <1>4, <1>7 DEF ValsetTypeOK, EntriesOK, updateValidatorPower
<1> QED BY Zenon, <1>4, <1>8

\* Deleting the entries of a validator, as removeValidator and recoverGas do.
LEMMA DeleteType ==
  ASSUME ValsetTypeOK, NEW v \in Validators,
         validators' = [validators EXCEPT ![currentValsetVersion] = Active \ {v}],
         powers' = [powers EXCEPT ![currentValsetVersion][v] = 0],
         totalPower' \in Nat, validatorCount' \in Nat,
         UNCHANGED <<operator, currentValsetVersion>>
  PROVE  /\ ValsetTypeOK'
         /\ Entry(powers', powers, currentValsetVersion, v, 0)
         /\ validators'[currentValsetVersion] = Active \ {v}
<1>1. PICK M, x : M = Active \ {v} /\ x = 0
  BY Zenon
<1>2. M \in SUBSET Validators /\ Active \ {v} \subseteq M /\ x \in 0 .. MaxPower
  BY <1>1, ActiveType, ValsetAssumption
<1>3. /\ validators' = [validators EXCEPT ![currentValsetVersion] = M]
      /\ powers' = [powers EXCEPT ![currentValsetVersion][v] = x]
  BY Zenon, <1>1
<1>4. /\ EntriesOK(validators', powers')
      /\ Entry(powers', powers, currentValsetVersion, v, x)
      /\ validators'[currentValsetVersion] = M
  BY Zenon, <1>1, <1>2, <1>3, CurrentChanges
<1>5. ValsetTypeOK'
  BY Zenon, <1>4 DEF ValsetTypeOK, EntriesOK
<1> QED BY Zenon, <1>1, <1>4, <1>5

\* Removing an active validator.
LEMMA RemoveType ==
  ASSUME ValsetTypeOK, NEW sender, NEW v \in Validators, removeValidator(sender, v)
  PROVE  /\ ValsetTypeOK'
         /\ Entry(powers', powers, currentValsetVersion, v, 0)
         /\ validators'[currentValsetVersion] = Active \ {v}
<1>1. powers[currentValsetVersion][v] \in Nat
  BY Zenon, ActiveType
<1>2. /\ powers[currentValsetVersion][v] <= totalPower
      /\ totalPower' = totalPower - powers[currentValsetVersion][v]
      /\ validatorCount >= 1
      /\ validatorCount' = validatorCount - 1
  BY Zenon DEF removeValidator, getValidatorPower
<1>3. totalPower' \in Nat /\ validatorCount' \in Nat
  BY <1>1, <1>2 DEF ValsetTypeOK
<1>4. /\ validators' = [validators EXCEPT ![currentValsetVersion] = Active \ {v}]
      /\ powers' = [powers EXCEPT ![currentValsetVersion][v] = 0]
      /\ UNCHANGED <<operator, currentValsetVersion>>
  BY Zenon DEF removeValidator, Active
<1> QED BY Zenon, <1>3, <1>4, DeleteType

\* Recovering gas.
LEMMA RecoverType ==
  ASSUME ValsetTypeOK, NEW sender, NEW version, NEW v \in Validators,
         recoverGas(sender, version, v)
  PROVE  /\ ValsetTypeOK'
         /\ Entry(powers', powers, currentValsetVersion, v, 0)
         /\ validators'[currentValsetVersion] = Active \ {v}
<1>1. /\ validators' = [validators EXCEPT ![currentValsetVersion] = Active \ {v}]
      /\ powers' = [powers EXCEPT ![currentValsetVersion][v] = 0]
      /\ UNCHANGED <<operator, currentValsetVersion>>
      /\ totalPower' \in Nat /\ validatorCount' \in Nat
  BY Zenon DEF recoverGas, Active, ValsetTypeOK
<1> QED BY Zenon, <1>1, DeleteType

\* A full update with any list.
LEMMA UpdateType ==
  ASSUME ValsetTypeOK, NEW sender, NEW list \in ValsetLists, updateValset(sender, list)
  PROVE  /\ ValsetTypeOK'
         /\ validators'[currentValsetVersion'] = ListMembers(list)
         /\ powers'[currentValsetVersion'] = ListPowers(list)
<1> DEFINE n == currentValsetVersion + 1
<1>1. Len(list) \in Nat /\ ListPower(list) \in Nat /\ ListMembers(list) \subseteq Validators
  BY Zenon, ListType
<1>2. /\ ListPowers(list) \in [Validators -> 0 .. MaxPower]
      /\ \A v \in Validators \ ListMembers(list) : ListPowers(list)[v] = 0
  BY Zenon, ListPowersType
<1>3. n \in 1 .. MaxVersion /\ n \in Versions
  BY ValsetAssumption DEF updateValset, ValsetTypeOK, Versions
<1>4. PICK M, P : M = ListMembers(list) /\ P = ListPowers(list)
  BY Zenon
<1>5. /\ validators' = [validators EXCEPT ![n] = M]
      /\ powers' = [powers EXCEPT ![n] = P]
      /\ currentValsetVersion' = n
      /\ validatorCount' = Len(list)
      /\ totalPower' = ListPower(list)
      /\ operator' = operator
  BY Zenon, <1>4 DEF updateValset
<1>6. ValsetTypeOK'
  BY Zenon, <1>1, <1>2, <1>3, <1>4, <1>5 DEF ValsetTypeOK
<1>7. validators'[n] = M /\ powers'[n] = P
  BY Zenon, <1>3, <1>5 DEF ValsetTypeOK
<1> QED BY Zenon, <1>4, <1>5, <1>6, <1>7

\* Every step of any operator preserves the type invariant.
LEMMA ValsetStepType == ValsetTypeOK /\ [ValsetNext]_valsetVars => ValsetTypeOK'
<1> SUFFICES ASSUME ValsetTypeOK, [ValsetNext]_valsetVars PROVE ValsetTypeOK'
  BY Zenon
<1>1. ASSUME NEW sender \in Operators, NEW newOperator \in Operators,
             changeOperator(sender, newOperator)
      PROVE  ValsetTypeOK'
  BY Zenon, <1>1 DEF changeOperator, ValsetTypeOK
<1>2. CASE UNCHANGED valsetVars
  BY Zenon, <1>2 DEF valsetVars, ValsetTypeOK
<1> QED BY Zenon, <1>1, <1>2, AddType, PowerType, RemoveType, RecoverType, UpdateType DEF ValsetNext

\* The totals never underflow and only active validators of a version have power,
\* even when validators are added twice or deleted by recoverGas.
THEOREM ValsetTypeCorrect == ValsetSpec => []ValsetTypeOK
BY ValsetInitType, ValsetStepType, PTL DEF ValsetSpec

----------------------------------------------------------------------------
(* The power of the active validators when one entry changes.               *)

LEMMA EntryWeight ==
  ASSUME ValsetTypeOK, NEW v \in Validators, NEW x \in 0 .. MaxPower, NEW q,
         Entry(q, powers, currentValsetVersion, v, x)
  PROVE  LET c == currentValsetVersion
         IN  /\ Weight(Active, powers[c]) \in Nat
             /\ v \notin Active => Weight(Active \cup {v}, q[c]) = Weight(Active, powers[c]) + x
             /\ v \in Active => Weight(Active, q[c]) = Weight(Active, powers[c]) - powers[c][v] + x
             /\ Weight(Active \ {v}, q[c]) =
                  Weight(Active, powers[c]) - (IF v \in Active THEN powers[c][v] ELSE 0)
<1>1. PICK w, u, R, T : /\ w = powers[currentValsetVersion]
                        /\ u = q[currentValsetVersion]
                        /\ R = Active \ {v}
                        /\ T = {v}
  BY Zenon
<1>2. IsFiniteSet(Active) /\ Active \subseteq Validators /\ \A y \in Validators : w[y] \in Nat
  BY Zenon, <1>1, ActiveType
<1>3. \A y \in Validators : u[y] \in Nat /\ u[y] = IF y = v THEN x ELSE w[y]
  BY <1>1, <1>2, ValsetAssumption DEF Entry
<1>4. IsFiniteSet(R) /\ IsFiniteSet(T) /\ R \cap T = {}
  BY Zenon, <1>1, <1>2, FS_Subset, FS_Singleton
<1>5. Weight(R, u) = Weight(R, w) /\ Weight(R, w) \in Nat
  <2>1. \A y \in R : u[y] = w[y] /\ w[y] \in Nat
    BY Zenon, <1>1, <1>2, <1>3
  <2> QED BY Zenon, <1>4, <2>1, WeightCongruence, WeightType
<1>6. Weight(T, u) = x /\ Weight(T, w) = w[v]
  BY Zenon, <1>1, <1>2, <1>3, WeightSingleton
<1>7. \A y \in R \cup T : w[y] \in Nat /\ u[y] \in Nat
  BY Zenon, <1>1, <1>2, <1>3
<1>8. Weight(R \cup T, u) = Weight(R, u) + x /\ Weight(R \cup T, w) = Weight(R, w) + w[v]
  BY <1>4, <1>6, <1>7, WeightDisjointUnion
<1>9. x \in Nat /\ w[v] \in Nat
  BY <1>2, ValsetAssumption
<1>10. CASE v \in Active
  <2>1. R \cup T = Active
    BY Zenon, <1>1, <1>10
  <2>2. Weight(Active, u) = Weight(R, w) + x /\ Weight(Active, w) = Weight(R, w) + w[v]
    BY Zenon, <1>5, <1>8, <2>1
  <2>3. PICK r, a : r = Weight(R, w) /\ a = Weight(Active, w)
    BY Zenon
  <2>4. a \in Nat /\ r = a - w[v] /\ r + x = a - w[v] + x
    BY <1>5, <1>9, <2>2, <2>3
  <2> QED BY Zenon, <1>1, <1>5, <1>10, <2>2, <2>3, <2>4
<1>11. CASE v \notin Active
  <2>1. R = Active /\ R \cup T = Active \cup {v}
    BY Zenon, <1>1, <1>11
  <2>2. Weight(Active \cup {v}, u) = Weight(Active, w) + x
    BY Zenon, <1>5, <1>8, <2>1
  <2>3. PICK a : a = Weight(Active, w)
    BY Zenon
  <2>4. a \in Nat /\ a - 0 = a /\ Weight(R, u) = a
    BY <1>5, <2>1, <2>3
  <2> QED BY Zenon, <1>1, <1>11, <2>2, <2>3, <2>4
<1> QED BY Zenon, <1>10, <1>11

----------------------------------------------------------------------------
(* The totals cover the active validators, for any operator.                *)

\* The inductive invariant: the type invariant and the totals that cover.
CoverInv == ValsetTypeOK /\ TotalsCover

\* What it says of the active validators.
LEMMA CoverFacts ==
  ASSUME CoverInv
  PROVE  /\ ValsetTypeOK
         /\ IsFiniteSet(Active)
         /\ Cardinality(Active) \in Nat
         /\ Weight(Active, powers[currentValsetVersion]) <= totalPower
         /\ Cardinality(Active) <= validatorCount
         /\ totalPower \in Nat
         /\ validatorCount \in Nat
BY Zenon, ActiveType DEF CoverInv, TotalsCover, Active, ValsetTypeOK

\* The constructor establishes the invariant.
LEMMA CoverInit == InitWith(ValsetLists) => CoverInv
<1> SUFFICES ASSUME InitWith(ValsetLists) PROVE CoverInv
  BY Zenon
<1>1. PICK list \in ValsetLists :
        /\ validatorCount = Len(list)
        /\ totalPower = ListPower(list)
        /\ validators = [n \in Versions |-> IF n = 1 THEN ListMembers(list) ELSE {}]
        /\ powers = [n \in Versions |-> IF n = 1 THEN ListPowers(list) ELSE NoPowers]
  BY Zenon DEF InitWith
<1>2. currentValsetVersion = 1 /\ 1 \in Versions
  BY ValsetAssumption DEF InitWith, Versions
<1>3. TotalsCover
  BY Zenon, <1>1, <1>2, ListCovers DEF TotalsCover
<1> QED BY Zenon, <1>3, ValsetInitType DEF CoverInv

\* Adding a validator adds at least what the active ones gain.
LEMMA AddCovers ==
  ASSUME CoverInv, NEW sender, NEW v \in Validators, NEW x \in 0 .. MaxPower,
         addValidator(sender, v, x)
  PROVE  CoverInv'
<1> DEFINE c == currentValsetVersion
<1>1. ValsetTypeOK' /\ Entry(powers', powers, c, v, x) /\ validators'[c] = Active \cup {v}
  BY Zenon, CoverFacts, AddType
<1>2. /\ c' = c
      /\ totalPower' = totalPower + x
      /\ validatorCount' = validatorCount + 1
  BY Zenon DEF addValidator
<1>3. powers[c][v] \in Nat /\ x \in Nat
  BY CoverFacts, ActiveType, ValsetAssumption
<1>4. Weight(Active \cup {v}, powers'[c]) <= totalPower + x
  <2>1. PICK before, after : /\ before = Weight(Active, powers[c])
                             /\ after = Weight(Active \cup {v}, powers'[c])
    BY Zenon
  <2>2. before \in Nat /\ before <= totalPower /\ totalPower \in Nat
    BY Zenon, <1>1, <2>1, CoverFacts, EntryWeight
  <2>3. CASE v \in Active
    <3>1. Active \cup {v} = Active
      BY Zenon, <2>3
    <3>2. Weight(Active, powers'[c]) = before - powers[c][v] + x
      BY Zenon, <1>1, <2>1, <2>3, CoverFacts, EntryWeight
    <3>3. after = before - powers[c][v] + x
      BY Zenon, <2>1, <3>1, <3>2
    <3> QED BY <1>3, <2>1, <2>2, <3>3
  <2>4. CASE v \notin Active
    <3>1. after = before + x
      BY Zenon, <1>1, <2>1, <2>4, CoverFacts, EntryWeight
    <3> QED BY <1>3, <2>1, <2>2, <3>1
  <2> QED BY Zenon, <2>3, <2>4
<1>5. Cardinality(Active \cup {v}) <= validatorCount + 1
  <2>1. Cardinality(Active \cup {v}) = IF v \in Active THEN Cardinality(Active) ELSE Cardinality(Active) + 1
    BY Zenon, CoverFacts, FS_AddElement
  <2> QED BY <2>1, CoverFacts
<1> QED BY Zenon, <1>1, <1>2, <1>4, <1>5 DEF CoverInv, TotalsCover

\* A change of power moves the total by as much as the power of the active ones.
LEMMA PowerCovers ==
  ASSUME CoverInv, NEW sender, NEW v \in Validators, NEW x \in 0 .. MaxPower,
         updateValidatorPower(sender, v, x)
  PROVE  CoverInv'
<1> DEFINE c == currentValsetVersion
<1>1. ValsetTypeOK' /\ Entry(powers', powers, c, v, x)
  BY Zenon, CoverFacts, PowerType
<1>2. /\ c' = c /\ validators' = validators /\ v \in Active
      /\ totalPower' = totalPower - powers[c][v] + x
      /\ validatorCount' = validatorCount
  BY Zenon DEF updateValidatorPower, isActiveValidator, getValidatorPower, Active
<1>3. powers[c][v] \in Nat /\ x \in Nat
  BY CoverFacts, ActiveType, ValsetAssumption
<1>4. Weight(Active, powers'[c]) <= totalPower'
  <2>1. PICK before, after : /\ before = Weight(Active, powers[c])
                             /\ after = Weight(Active, powers'[c])
    BY Zenon
  <2>2. before \in Nat /\ before <= totalPower /\ totalPower \in Nat
    BY Zenon, <1>1, <2>1, CoverFacts, EntryWeight
  <2>3. after = before - powers[c][v] + x
    BY Zenon, <1>1, <1>2, <2>1, CoverFacts, EntryWeight
  <2> QED BY <1>2, <1>3, <2>1, <2>2, <2>3
<1> QED BY Zenon, <1>1, <1>2, <1>4, CoverFacts DEF CoverInv, TotalsCover, Active

\* Deleting the entries of a validator, with its power and its place taken off the
\* totals (removeValidator) or not (recoverGas).
LEMMA DeleteCovers ==
  ASSUME CoverInv, NEW v \in Validators, ValsetTypeOK',
         Entry(powers', powers, currentValsetVersion, v, 0),
         validators'[currentValsetVersion] = Active \ {v},
         currentValsetVersion' = currentValsetVersion,
         \/ /\ v \in Active
            /\ totalPower' = totalPower - powers[currentValsetVersion][v]
            /\ validatorCount' = validatorCount - 1
         \/ totalPower' = totalPower /\ validatorCount' = validatorCount
  PROVE  CoverInv'
<1> DEFINE c == currentValsetVersion
<1>1. powers[c][v] \in Nat /\ 0 \in 0 .. MaxPower
  BY CoverFacts, ActiveType, ValsetAssumption
<1>2. Weight(Active \ {v}, powers'[c]) =
        Weight(Active, powers[c]) - (IF v \in Active THEN powers[c][v] ELSE 0)
  BY Zenon, <1>1, CoverFacts, EntryWeight
<1>3. Weight(Active, powers[c]) \in Nat
  BY Zenon, <1>1, CoverFacts, EntryWeight
<1>4. Weight(Active \ {v}, powers'[c]) <= totalPower'
  BY <1>1, <1>2, <1>3, CoverFacts
<1>5. Cardinality(Active \ {v}) = IF v \in Active THEN Cardinality(Active) - 1 ELSE Cardinality(Active)
  BY Zenon, CoverFacts, FS_RemoveElement
<1>6. Cardinality(Active \ {v}) <= validatorCount'
  BY <1>5, CoverFacts
<1> QED BY Zenon, <1>4, <1>6 DEF CoverInv, TotalsCover

\* Every step of any operator preserves the invariant.
LEMMA CoverStep == CoverInv /\ [ValsetNext]_valsetVars => CoverInv'
<1> SUFFICES ASSUME CoverInv, [ValsetNext]_valsetVars PROVE CoverInv'
  BY Zenon
<1>1. ASSUME NEW sender, NEW v \in Validators, removeValidator(sender, v)
      PROVE  CoverInv'
  <2>1. /\ v \in Active
        /\ currentValsetVersion' = currentValsetVersion
        /\ totalPower' = totalPower - powers[currentValsetVersion][v]
        /\ validatorCount' = validatorCount - 1
    BY Zenon, <1>1 DEF removeValidator, isActiveValidator, getValidatorPower, Active
  <2> QED BY Zenon, <1>1, <2>1, CoverFacts, RemoveType, DeleteCovers
<1>2. ASSUME NEW sender, NEW version, NEW v \in Validators, recoverGas(sender, version, v)
      PROVE  CoverInv'
  <2>1. /\ currentValsetVersion' = currentValsetVersion
        /\ totalPower' = totalPower
        /\ validatorCount' = validatorCount
    BY Zenon, <1>2 DEF recoverGas
  <2> QED BY Zenon, <1>2, <2>1, CoverFacts, RecoverType, DeleteCovers
<1>3. ASSUME NEW sender, NEW list \in ValsetLists, updateValset(sender, list)
      PROVE  CoverInv'
  <2>1. totalPower' = ListPower(list) /\ validatorCount' = Len(list)
    BY Zenon, <1>3 DEF updateValset
  <2> QED BY Zenon, <1>3, <2>1, CoverFacts, UpdateType, ListCovers DEF CoverInv, TotalsCover
<1>4. ASSUME NEW sender, NEW newOperator \in Operators, changeOperator(sender, newOperator)
      PROVE  CoverInv'
  BY Zenon, <1>4 DEF changeOperator, CoverInv, ValsetTypeOK, TotalsCover
<1>5. CASE UNCHANGED valsetVars
  BY Zenon, <1>5 DEF valsetVars, CoverInv, ValsetTypeOK, TotalsCover
<1> QED BY Zenon, <1>1, <1>2, <1>3, <1>4, <1>5, AddCovers, PowerCovers DEF ValsetNext

\* Whatever is added twice, listed twice or deleted by recoverGas, totalPower and
\* validatorCount never fall below what the active validators have: the threshold of a
\* prophecy is never below the percentage of the active power it stands for.
THEOREM TotalsAreCovered == ValsetSpec => []TotalsCover
<1>1. CoverInv => TotalsCover
  BY Zenon DEF CoverInv
<1> QED BY <1>1, CoverInit, CoverStep, PTL DEF ValsetSpec

----------------------------------------------------------------------------
(* The steps of a careful operator keep the totals exact.                   *)

\* The invariant of a careful operator.
ValsetInv == ValsetTypeOK /\ TotalsExact

\* The constructor establishes the invariant.
LEMMA ValsetInitInv == InitWith(CarefulLists) => ValsetInv
<1> SUFFICES ASSUME InitWith(CarefulLists) PROVE ValsetInv
  BY Zenon
<1>1. InitWith(ValsetLists)
  BY Zenon DEF InitWith, CarefulLists
<1>2. ValsetTypeOK
  BY Zenon, <1>1, ValsetInitType
<1>3. PICK list \in CarefulLists :
        /\ validatorCount = Len(list)
        /\ totalPower = ListPower(list)
        /\ validators = [n \in Versions |-> IF n = 1 THEN ListMembers(list) ELSE {}]
        /\ powers = [n \in Versions |-> IF n = 1 THEN ListPowers(list) ELSE NoPowers]
  BY Zenon DEF InitWith
<1>4. currentValsetVersion = 1 /\ 1 \in Versions
  BY ValsetAssumption DEF InitWith, Versions
<1>5. TotalsExact
  BY Zenon, <1>3, <1>4, CarefulTotals DEF TotalsExact
<1> QED BY Zenon, <1>2, <1>5 DEF ValsetInv

LEMMA AddKeepsInv ==
  ASSUME ValsetInv, NEW sender, NEW v \in Validators, NEW x \in 0 .. MaxPower,
         ~isActiveValidator(v), addValidator(sender, v, x)
  PROVE  ValsetInv'
<1> DEFINE c == currentValsetVersion
<1>1. ValsetTypeOK' /\ Entry(powers', powers, c, v, x) /\ validators'[c] = Active \cup {v}
  BY Zenon, AddType DEF ValsetInv
<1>2. /\ c' = c /\ v \notin Active
      /\ totalPower' = totalPower + x
      /\ validatorCount' = validatorCount + 1
  BY Zenon DEF addValidator, Active, isActiveValidator
<1>3. totalPower = Weight(Active, powers[c]) /\ validatorCount = Cardinality(Active)
  BY Zenon DEF ValsetInv, TotalsExact, Active
<1>4. Weight(Active \cup {v}, powers'[c]) = totalPower'
  BY Zenon, <1>1, <1>2, <1>3, EntryWeight DEF ValsetInv
<1>5. Cardinality(Active \cup {v}) = validatorCount'
  BY Zenon, <1>2, <1>3, ActiveType, FS_AddElement DEF ValsetInv
<1> QED BY Zenon, <1>1, <1>2, <1>4, <1>5 DEF ValsetInv, TotalsExact

LEMMA PowerKeepsInv ==
  ASSUME ValsetInv, NEW sender, NEW v \in Validators, NEW x \in 0 .. MaxPower,
         updateValidatorPower(sender, v, x)
  PROVE  ValsetInv'
<1> DEFINE c == currentValsetVersion
<1>1. ValsetTypeOK' /\ Entry(powers', powers, c, v, x)
  BY Zenon, PowerType DEF ValsetInv
<1>2. /\ validators' = validators /\ c' = c /\ v \in Active
      /\ totalPower' = totalPower - powers[c][v] + x
      /\ validatorCount' = validatorCount
  BY Zenon DEF updateValidatorPower, isActiveValidator, getValidatorPower, Active
<1>3. totalPower = Weight(Active, powers[c]) /\ validatorCount = Cardinality(Active)
  BY Zenon DEF ValsetInv, TotalsExact, Active
<1>4. Weight(Active, powers'[c]) = totalPower'
  BY Zenon, <1>1, <1>2, <1>3, EntryWeight DEF ValsetInv
<1> QED BY Zenon, <1>1, <1>2, <1>3, <1>4 DEF ValsetInv, TotalsExact, Active

LEMMA RemoveKeepsInv ==
  ASSUME ValsetInv, NEW sender, NEW v \in Validators, removeValidator(sender, v)
  PROVE  ValsetInv'
<1> DEFINE c == currentValsetVersion
<1>1. ValsetTypeOK' /\ Entry(powers', powers, c, v, 0) /\ validators'[c] = Active \ {v}
  BY Zenon, RemoveType DEF ValsetInv
<1>2. /\ c' = c /\ v \in Active
      /\ totalPower' = totalPower - powers[c][v]
      /\ validatorCount' = validatorCount - 1
  BY Zenon DEF removeValidator, Active, isActiveValidator, getValidatorPower
<1>3. totalPower = Weight(Active, powers[c]) /\ validatorCount = Cardinality(Active)
  BY Zenon DEF ValsetInv, TotalsExact, Active
<1>4. 0 \in 0 .. MaxPower
  BY ValsetAssumption
<1>5. Weight(Active \ {v}, powers'[c]) = totalPower'
  BY Zenon, <1>1, <1>2, <1>3, <1>4, EntryWeight DEF ValsetInv
<1>6. Cardinality(Active \ {v}) = validatorCount'
  BY Zenon, <1>2, <1>3, ActiveType, FS_RemoveElement DEF ValsetInv
<1> QED BY Zenon, <1>1, <1>2, <1>5, <1>6 DEF ValsetInv, TotalsExact

LEMMA UpdateKeepsInv ==
  ASSUME ValsetInv, NEW sender, NEW list \in CarefulLists, updateValset(sender, list)
  PROVE  ValsetInv'
<1>1. list \in ValsetLists
  BY Zenon DEF CarefulLists
<1>2. /\ ValsetTypeOK'
      /\ validators'[currentValsetVersion'] = ListMembers(list)
      /\ powers'[currentValsetVersion'] = ListPowers(list)
  BY Zenon, <1>1, UpdateType DEF ValsetInv
<1>3. totalPower' = ListPower(list) /\ validatorCount' = Len(list)
  BY Zenon DEF updateValset
<1>4. TotalsExact'
  BY Zenon, <1>2, <1>3, CarefulTotals DEF TotalsExact
<1> QED BY Zenon, <1>2, <1>4 DEF ValsetInv

\* Every step of a careful operator preserves the invariant.
LEMMA ValsetStepInv == ValsetInv /\ [CarefulNext]_valsetVars => ValsetInv'
<1> SUFFICES ASSUME ValsetInv, [CarefulNext]_valsetVars PROVE ValsetInv'
  BY Zenon
<1>1. ASSUME NEW sender \in Operators, NEW newOperator \in Operators,
             changeOperator(sender, newOperator)
      PROVE  ValsetInv'
  BY Zenon, <1>1 DEF changeOperator, ValsetInv, ValsetTypeOK, TotalsExact
<1>2. CASE UNCHANGED valsetVars
  BY Zenon, <1>2 DEF valsetVars, ValsetInv, ValsetTypeOK, TotalsExact
<1> QED BY Zenon, <1>1, <1>2, AddKeepsInv, PowerKeepsInv, RemoveKeepsInv, UpdateKeepsInv DEF CarefulNext

\* The inductive invariant holds in every state.
LEMMA ValsetInvariant == CarefulSpec => []ValsetInv
BY ValsetInitInv, ValsetStepInv, PTL DEF CarefulSpec

----------------------------------------------------------------------------
(* The theorem.                                                             *)

\* When the operator adds no validator twice, totalPower and validatorCount, from
\* which getProphecyThreshold computes every decision, are those of the active
\* validators after any sequence of additions, removals, changes and full updates.
THEOREM TotalsAreExact == CarefulSpec => [](ValsetTypeOK /\ TotalsExact)
BY ValsetInvariant, PTL DEF ValsetInv

----------------------------------------------------------------------------
(* A prophecy is paid once while the total power does not grow.             *)

\* A paid prophecy has the threshold of the present total power, which is what
\* newProphecyClaim refuses further signatures by.
PaidInv ==
  /\ ValsetTypeOK
  /\ oracleClaimValidators \in [Prophecies -> Nat]
  /\ completed \in [Prophecies -> Nat]
  /\ \A p \in Prophecies :
       /\ completed[p] <= 1
       /\ completed[p] = 1 => HasReachedThreshold(oracleClaimValidators[p])

\* A threshold that is reached stays reached when the total does not grow.
LEMMA ThresholdMonotone ==
  ASSUME NEW a \in Nat, NEW b \in Nat, b <= a, NEW s \in Nat,
         s * 100 >= a * consensusThreshold
  PROVE  s * 100 >= b * consensusThreshold
<1>1. consensusThreshold \in Nat
  BY CosmosBridgeAssumption
<1>2. b * consensusThreshold <= a * consensusThreshold
  BY <1>1
<1> QED BY <1>1, <1>2

LEMMA PaidInit == CosmosBridgeInit => PaidInv
BY ValsetInitType DEF CosmosBridgeInit, PaidInv

\* A signature: the prophecy was not paid before, and is when the threshold is reached.
LEMMA ClaimPaysOnce ==
  ASSUME PaidInv, NEW v \in Validators, NEW p \in Prophecies, newProphecyClaim(v, p)
  PROVE  PaidInv'
<1>1. UNCHANGED valsetVars /\ ~HasReachedThreshold(oracleClaimValidators[p])
  BY Zenon DEF newProphecyClaim, MaySign
<1>2. ValsetTypeOK' /\ totalPower' = totalPower
  BY Zenon, <1>1, ValsetStepType DEF PaidInv, valsetVars
<1>3. PICK s : s = Signed(v, p)
  BY Zenon
<1>4. s \in Nat
  BY <1>3, ActiveType DEF PaidInv, Signed, getValidatorPower
<1>5. oracleClaimValidators' = [oracleClaimValidators EXCEPT ![p] = s]
  BY Zenon, <1>3 DEF newProphecyClaim
<1>6. IF HasReachedThreshold(s) THEN completed' = [completed EXCEPT ![p] = @ + 1]
                                ELSE completed' = completed
  BY Zenon, <1>3 DEF newProphecyClaim
<1>7. completed[p] = 0
  BY <1>1 DEF PaidInv
<1>8. /\ oracleClaimValidators' \in [Prophecies -> Nat]
      /\ completed' \in [Prophecies -> Nat]
  BY <1>4, <1>5, <1>6 DEF PaidInv
<1>9. completed'[p] <= 1 /\ (completed'[p] = 1 => HasReachedThreshold(s))
  BY <1>6, <1>7 DEF PaidInv
<1>10. oracleClaimValidators'[p] = s
  BY Zenon, <1>5 DEF PaidInv
<1>11. \A q \in Prophecies \ {p} :
         completed'[q] = completed[q] /\ oracleClaimValidators'[q] = oracleClaimValidators[q]
  BY Zenon, <1>5, <1>6 DEF PaidInv
<1>12. \A q \in Prophecies :
         /\ completed'[q] <= 1
         /\ completed'[q] = 1 => HasReachedThreshold(oracleClaimValidators'[q])
  BY Zenon, <1>9, <1>10, <1>11 DEF PaidInv
<1>13. \A q \in Prophecies :
         HasReachedThreshold(oracleClaimValidators'[q]) => HasReachedThreshold(oracleClaimValidators[q])'
  BY Zenon, <1>2 DEF HasReachedThreshold
<1> QED BY Zenon, <1>2, <1>8, <1>12, <1>13 DEF PaidInv

\* A change of the validator set under which the total does not grow.
LEMMA SteadyKeepsPaid ==
  ASSUME PaidInv, [ValsetNext]_valsetVars, totalPower' <= totalPower,
         UNCHANGED <<oracleClaimValidators, completed>>
  PROVE  PaidInv'
<1>1. ValsetTypeOK'
  BY Zenon, ValsetStepType DEF PaidInv
<1>2. totalPower \in Nat /\ totalPower' \in Nat
  BY Zenon, <1>1 DEF PaidInv, ValsetTypeOK
<1>3. ASSUME NEW p \in Prophecies, HasReachedThreshold(oracleClaimValidators[p])
      PROVE  HasReachedThreshold(oracleClaimValidators[p])'
  <2>1. PICK s \in Nat : s = oracleClaimValidators[p] /\ s = oracleClaimValidators'[p]
    BY Zenon DEF PaidInv
  <2>2. s * 100 >= totalPower * consensusThreshold
    BY Zenon, <1>3, <2>1 DEF HasReachedThreshold
  <2>3. s * 100 >= totalPower' * consensusThreshold
    BY Zenon, <1>2, <2>2, ThresholdMonotone
  <2> QED BY Zenon, <2>1, <2>3 DEF HasReachedThreshold
<1> QED BY Zenon, <1>1, <1>3 DEF PaidInv

LEMMA PaidStep == PaidInv /\ [SteadyNext]_allVars => PaidInv'
<1> SUFFICES ASSUME PaidInv, [SteadyNext]_allVars PROVE PaidInv'
  BY Zenon
<1>1. ASSUME UNCHANGED valsetVars, UNCHANGED <<oracleClaimValidators, completed>>
      PROVE  PaidInv'
  <2>1. totalPower' <= totalPower
    BY <1>1 DEF PaidInv, ValsetTypeOK, valsetVars
  <2> QED BY Zenon, <1>1, <2>1, SteadyKeepsPaid
<1>2. CASE OracleStep
  <2>1. ASSUME NEW sender \in Operators, setBridgeBank(sender) PROVE PaidInv'
    BY Zenon, <1>1, <2>1 DEF setBridgeBank
  <2> QED BY Zenon, <1>2, <2>1, ClaimPaysOnce DEF OracleStep
<1>3. CASE BankStep
  BY Zenon, <1>1, <1>3 DEF BankStep, oracleVars
<1>4. CASE ValsetStep /\ totalPower' <= totalPower
  BY Zenon, <1>4, SteadyKeepsPaid DEF ValsetStep, oracleVars
<1>5. CASE UNCHANGED allVars
  BY Zenon, <1>1, <1>5 DEF allVars, oracleVars
<1> QED BY Zenon, <1>2, <1>3, <1>4, <1>5 DEF SteadyNext

\* As long as no change of the validator set makes the total power grow, no prophecy
\* is paid twice, whatever is deposited and listed and however often a validator signs.
THEOREM PaidOnce == SteadySpec => []CompletedOnce
<1>1. PaidInv => CompletedOnce
  BY Zenon DEF PaidInv, CompletedOnce
<1> QED BY <1>1, PaidInit, PaidStep, PTL DEF SteadySpec

----------------------------------------------------------------------------
(* The bank under the bridge, with any changes of the validator set.        *)

\* A signature may deploy a token and may pay; the bank's books stay right.
LEMMA ClaimKeepsBank ==
  ASSUME BankInv, NEW v \in Validators, NEW p \in Prophecies, newProphecyClaim(v, p)
  PROVE  BankInv'
<1>1. /\ p.symbol \in Symbols /\ p.receiver \in Users /\ p.amount \in Nat
  BY Zenon, CosmosBridgeAssumption, BankAssumption
<1>2. PICK s : s = safeLowerToUpper(lowerToUpperTokens, p.symbol)
  BY Zenon
<1>3. s \in Symbols
  BY Zenon, <1>1, <1>2, UpperSymbol DEF BankInv, TablesInv
<1>4. PICK deploys \in BOOLEAN :
        deploys <=> /\ oracleClaimValidators[p] = 0
                    /\ p.claimType = "lock"
                    /\ controlledBridgeTokens[s] = Zero
  BY Zenon
<1>5. PICK tokens, uppers :
        /\ tokens = IF deploys THEN WithBridgeToken(s) ELSE controlledBridgeTokens
        /\ uppers = IF deploys THEN WithUpper(s) ELSE lowerToUpperTokens
  BY Zenon
<1>6. /\ IF deploys THEN createNewBridgeToken(s)
                    ELSE UNCHANGED <<controlledBridgeTokens, lowerToUpperTokens, cosmosWhiteList>>
      /\ \/ UNCHANGED <<balances, logs>>
         \/ Unlock(p.receiver, p.symbol, p.amount)
         \/ Mint(p.receiver, p.symbol, p.amount, tokens, uppers)
      /\ UNCHANGED roleVars
      /\ UNCHANGED <<ethWhiteList, lockedTokenList, lockBurnNonce>>
  BY Zenon, <1>2, <1>4, <1>5 DEF newProphecyClaim
<1>7. TablesInv'
  <2>1. CASE deploys
    BY Zenon, <1>3, <1>6, <2>1, CreateKeepsTables DEF BankInv
  <2>2. CASE ~deploys
    BY Zenon, <1>6, <2>2 DEF BankInv, TablesInv
  <2> QED BY Zenon, <2>1, <2>2
<1>8. UpperOK(uppers)
  BY Zenon, <1>3, <1>5, UpperSet DEF BankInv, TablesInv
<1>9. FundsInv' /\ NoncesInv'
  <2>1. CASE UNCHANGED <<balances, logs>>
    BY Zenon, <1>6, <2>1, IdleKeepsFunds, NoncesIdle DEF BankInv
  <2>2. CASE Unlock(p.receiver, p.symbol, p.amount)
    BY Zenon, <1>1, <1>6, <2>2, UnlockPosts DEF BankInv
  <2>3. CASE Mint(p.receiver, p.symbol, p.amount, tokens, uppers)
    BY Zenon, <1>1, <1>6, <1>8, <2>3, MintPosts DEF BankInv
  <2> QED BY Zenon, <1>6, <2>1, <2>2, <2>3
<1> QED BY Zenon, <1>6, <1>7, <1>9, RolesIdle DEF BankInv

\* A step that leaves the bank alone.
LEMMA BankIdle ==
  ASSUME BankInv, UNCHANGED bankVars
  PROVE  BankInv'
BY Zenon, BankStepInv

\* The signatures: what is counted was signed.
SignaturesInv ==
  /\ ValsetTypeOK
  /\ hasBridgeBank \in BOOLEAN
  /\ hasMadeClaim \in [Prophecies -> SUBSET Validators]
  /\ oracleClaimValidators \in [Prophecies -> Nat]
  /\ completed \in [Prophecies -> Nat]
  /\ \A p \in Prophecies : hasMadeClaim[p] = {} => oracleClaimValidators[p] = 0

LEMMA ClaimKeepsSignatures ==
  ASSUME SignaturesInv, NEW v \in Validators, NEW p \in Prophecies, newProphecyClaim(v, p)
  PROVE  SignaturesInv'
<1>1. ValsetTypeOK'
  <2>1. UNCHANGED valsetVars
    BY Zenon DEF newProphecyClaim
  <2> QED BY Zenon, <2>1, ValsetStepType DEF SignaturesInv
<1>2. PICK s \in Nat : s = Signed(v, p)
  BY ActiveType DEF SignaturesInv, Signed, getValidatorPower
<1>3. /\ oracleClaimValidators' = [oracleClaimValidators EXCEPT ![p] = s]
      /\ hasMadeClaim' = [hasMadeClaim EXCEPT ![p] = hasMadeClaim[p] \cup {v}]
      /\ hasBridgeBank' = hasBridgeBank
  BY Zenon, <1>2 DEF newProphecyClaim, Signers
<1>4. completed' = [completed EXCEPT ![p] = @ + 1] \/ completed' = completed
  BY Zenon DEF newProphecyClaim
<1>5. completed' \in [Prophecies -> Nat]
  BY <1>4 DEF SignaturesInv
<1>6. oracleClaimValidators' \in [Prophecies -> Nat] /\ hasMadeClaim' \in [Prophecies -> SUBSET Validators]
  BY Zenon, <1>3 DEF SignaturesInv
<1>7. \A q \in Prophecies : hasMadeClaim'[q] = {} => oracleClaimValidators'[q] = 0
  BY Zenon, <1>3 DEF SignaturesInv
<1> QED BY Zenon, <1>1, <1>3, <1>5, <1>6, <1>7 DEF SignaturesInv

BridgeInv == BankInv /\ SignaturesInv

LEMMA BridgeInitInv == CosmosBridgeInit => BridgeInv
<1> SUFFICES ASSUME CosmosBridgeInit PROVE BridgeInv
  BY Zenon
<1>1. BankInv /\ ValsetTypeOK
  BY Zenon, BankInitInv, ValsetInitType DEF CosmosBridgeInit
<1>2. SignaturesInv
  BY Zenon, <1>1 DEF CosmosBridgeInit, SignaturesInv
<1> QED BY Zenon, <1>1, <1>2 DEF BridgeInv

LEMMA BridgeStepInv == BridgeInv /\ [CosmosBridgeNext]_allVars => BridgeInv'
<1> SUFFICES ASSUME BridgeInv, [CosmosBridgeNext]_allVars PROVE BridgeInv'
  BY Zenon
<1>1. CASE OracleStep
  <2>1. ASSUME NEW sender \in Operators, setBridgeBank(sender) PROVE BridgeInv'
    <3>1. /\ UNCHANGED valsetVars /\ UNCHANGED bankVars
          /\ UNCHANGED <<hasMadeClaim, oracleClaimValidators, completed>>
          /\ hasBridgeBank' = TRUE
      BY Zenon, <2>1 DEF setBridgeBank
    <3>2. ValsetTypeOK' /\ BankInv'
      BY Zenon, <3>1, ValsetStepType, BankIdle DEF BridgeInv, SignaturesInv
    <3> QED BY Zenon, <3>1, <3>2 DEF BridgeInv, SignaturesInv
  <2> QED BY Zenon, <1>1, <2>1, ClaimKeepsBank, ClaimKeepsSignatures DEF OracleStep, BridgeInv
<1>2. ASSUME ValsetTypeOK', UNCHANGED oracleVars
      PROVE  SignaturesInv'
  BY Zenon, <1>2 DEF BridgeInv, SignaturesInv, oracleVars
<1>3. CASE BankStep
  <2>1. UNCHANGED valsetVars /\ UNCHANGED oracleVars /\ (Deposit \/ Administer)
    BY Zenon, <1>3 DEF BankStep
  <2>2. ValsetTypeOK' /\ BankInv'
    BY Zenon, <2>1, ValsetStepType, DepositKeepsInv, AdministerKeepsInv DEF BridgeInv, SignaturesInv
  <2> QED BY Zenon, <1>2, <2>1, <2>2 DEF BridgeInv
<1>4. CASE ValsetStep
  <2>1. ValsetNext /\ UNCHANGED bankVars /\ UNCHANGED oracleVars
    BY Zenon, <1>4 DEF ValsetStep
  <2>2. ValsetTypeOK' /\ BankInv'
    BY Zenon, <2>1, ValsetStepType, BankIdle DEF BridgeInv, SignaturesInv
  <2> QED BY Zenon, <1>2, <2>1, <2>2 DEF BridgeInv
<1>5. CASE UNCHANGED allVars
  <2>1. UNCHANGED valsetVars /\ UNCHANGED bankVars /\ UNCHANGED oracleVars
    BY Zenon, <1>5 DEF allVars
  <2>2. ValsetTypeOK' /\ BankInv'
    BY Zenon, <2>1, ValsetStepType, BankIdle DEF BridgeInv, SignaturesInv
  <2> QED BY Zenon, <1>2, <2>1, <2>2 DEF BridgeInv
<1> QED BY Zenon, <1>1, <1>3, <1>4, <1>5 DEF CosmosBridgeNext

\* With the bridge driving the bank and any changes of the validator set, the
\* contracts stay well formed, no signature counts without being recorded, and the
\* bank's logs account for every deposit and every supply.
THEOREM BridgeBooksRight ==
  CosmosBridgeSpec => [](CosmosBridgeTypeOK /\ DepositsBacked /\ SupplyLogged /\ NoncesIdentifyDeposits)
<1>1. BridgeInv => CosmosBridgeTypeOK /\ DepositsBacked /\ SupplyLogged /\ NoncesIdentifyDeposits
  BY Zenon, BankInvImplies DEF BridgeInv, SignaturesInv, CosmosBridgeTypeOK
<1> QED BY <1>1, BridgeInitInv, BridgeStepInv, PTL DEF CosmosBridgeSpec

----------------------------------------------------------------------------
(* A validator set that stays as it is.                                     *)

LEMMA FixedIsBridge == [FixedNext]_allVars => [CosmosBridgeNext]_allVars
<1>1. CarefulAdminister => Administer
  <2>1. CarefulTokens \subseteq Tokens
    BY Zenon, BankAssumption
  <2> QED BY Zenon, <2>1 DEF CarefulAdminister, Administer
<1> QED BY Zenon, <1>1 DEF FixedNext, CosmosBridgeNext, BankStep

\* All that have signed are active and what is counted is their power.
ActiveInv ==
  \A p \in Prophecies :
    /\ hasMadeClaim[p] \subseteq Active
    /\ oracleClaimValidators[p] = Weight(hasMadeClaim[p], powers[currentValsetVersion])

ActiveStep ==
  \A p \in Prophecies :
    completed'[p] # completed[p] =>
      LET signers == hasMadeClaim'[p] \cap validators[currentValsetVersion]
      IN  HasReachedThreshold(Weight(signers, powers[currentValsetVersion]))

\* A signature adds the power of a validator that has not signed.
LEMMA ClaimAddsPower ==
  ASSUME SignaturesInv, ActiveInv, NEW v \in Validators, NEW p \in Prophecies, newProphecyClaim(v, p)
  PROVE  ActiveInv' /\ ActiveStep
<1>1. PICK S, w : S = hasMadeClaim[p] /\ w = powers[currentValsetVersion]
  BY Zenon
<1>2. /\ IsFiniteSet(Active) /\ Active \subseteq Validators
      /\ \A x \in Validators : w[x] \in Nat
  BY Zenon, <1>1, ActiveType DEF SignaturesInv
<1>3. S \subseteq Active /\ v \in Active /\ v \notin S
  BY Zenon, <1>1 DEF ActiveInv, newProphecyClaim, MaySign, isActiveValidator, Active
<1>4. PICK T : T = {v}
  BY Zenon
<1>5. /\ IsFiniteSet(S) /\ IsFiniteSet(T) /\ S \cap T = {}
      /\ \A x \in S \cup T : w[x] \in Nat
  <2>1. IsFiniteSet(S)
    BY Zenon, <1>2, <1>3, FS_Subset
  <2>2. IsFiniteSet(T)
    BY Zenon, <1>4, FS_Singleton
  <2>3. S \cap T = {} /\ S \cup T \subseteq Validators
    BY Zenon, <1>2, <1>3, <1>4
  <2> QED BY Zenon, <1>2, <2>1, <2>2, <2>3
<1>6. Weight(S \cup T, w) = Weight(S, w) + Weight(T, w)
  BY <1>5, WeightDisjointUnion
<1>7. Weight(T, w) = w[v]
  BY Zenon, <1>4, <1>5, WeightSingleton
<1>8. Signed(v, p) = Weight(S \cup T, w)
  BY Zenon, <1>1, <1>6, <1>7 DEF Signed, getValidatorPower, ActiveInv
<1>9. /\ hasMadeClaim' = [hasMadeClaim EXCEPT ![p] = S \cup T]
      /\ oracleClaimValidators' = [oracleClaimValidators EXCEPT ![p] = Weight(S \cup T, w)]
      /\ UNCHANGED valsetVars
  BY Zenon, <1>1, <1>4, <1>8 DEF newProphecyClaim, Signers
<1>10. /\ hasMadeClaim \in [Prophecies -> SUBSET Validators]
       /\ oracleClaimValidators \in [Prophecies -> Nat]
       /\ completed \in [Prophecies -> Nat]
  BY Zenon DEF SignaturesInv
<1>11. /\ hasMadeClaim'[p] = S \cup T /\ oracleClaimValidators'[p] = Weight(S \cup T, w)
       /\ \A q \in Prophecies \ {p} : /\ hasMadeClaim'[q] = hasMadeClaim[q]
                                      /\ oracleClaimValidators'[q] = oracleClaimValidators[q]
  BY Zenon, <1>9, <1>10
<1>12. S \cup T \subseteq Active
  BY Zenon, <1>3, <1>4
<1>13. Active' = Active /\ powers'[currentValsetVersion'] = w
  BY Zenon, <1>1, <1>9 DEF Active, valsetVars
<1>14. ActiveInv'
  <2> SUFFICES ASSUME NEW q \in Prophecies
               PROVE  /\ hasMadeClaim'[q] \subseteq Active'
                      /\ oracleClaimValidators'[q] = Weight(hasMadeClaim'[q], powers'[currentValsetVersion'])
    BY Zenon DEF ActiveInv, Weight, UnitsOf
  <2>1. CASE q = p
    BY Zenon, <1>11, <1>12, <1>13, <2>1
  <2>2. CASE q # p
    BY Zenon, <1>1, <1>11, <1>13, <2>2 DEF ActiveInv
  <2> QED BY Zenon, <2>1, <2>2
<1>15. ActiveStep
  <2> SUFFICES ASSUME NEW q \in Prophecies, completed'[q] # completed[q]
               PROVE  HasReachedThreshold(Weight(hasMadeClaim'[q] \cap validators[currentValsetVersion],
                                                 powers[currentValsetVersion]))
    BY Zenon DEF ActiveStep
  <2>1. completed' = IF HasReachedThreshold(Signed(v, p)) THEN [completed EXCEPT ![p] = @ + 1] ELSE completed
    BY Zenon DEF newProphecyClaim
  <2>2. q = p /\ HasReachedThreshold(Signed(v, p))
    BY Zenon, <1>10, <2>1
  <2>3. hasMadeClaim'[q] \cap validators[currentValsetVersion] = S \cup T
    BY Zenon, <1>11, <1>12, <2>2 DEF Active
  <2> QED BY Zenon, <1>1, <1>8, <2>2, <2>3
<1> QED BY Zenon, <1>14, <1>15

LEMMA ActiveIdle ==
  ASSUME ActiveInv, UNCHANGED valsetVars, UNCHANGED <<hasMadeClaim, oracleClaimValidators, completed>>
  PROVE  ActiveInv' /\ ActiveStep
<1>1. Active' = Active /\ powers'[currentValsetVersion'] = powers[currentValsetVersion]
  BY Zenon DEF Active, valsetVars
<1> QED BY <1>1 DEF ActiveInv, ActiveStep, Weight, UnitsOf

LEMMA ActiveFixed == BridgeInv /\ ActiveInv /\ [FixedNext]_allVars => ActiveInv' /\ ActiveStep
<1> SUFFICES ASSUME BridgeInv, ActiveInv, [FixedNext]_allVars PROVE ActiveInv' /\ ActiveStep
  BY Zenon
<1>1. CASE OracleStep
  BY Zenon, <1>1, ClaimAddsPower, ActiveIdle DEF OracleStep, setBridgeBank, BridgeInv
<1>2. CASE UNCHANGED <<valsetVars, oracleVars>>
  BY Zenon, <1>2, ActiveIdle DEF oracleVars
<1> QED BY Zenon, <1>1, <1>2 DEF FixedNext, allVars

\* While the validator set stays as it is, a prophecy is paid only when the active
\* validators that have signed it hold the threshold of the total power, in whatever
\* order they sign and whatever is deposited and listed in between.
THEOREM ActiveSignersPay == FixedSpec => ActiveSignersDecide
<1>1. CosmosBridgeInit => ActiveInv
  <2> SUFFICES ASSUME CosmosBridgeInit PROVE ActiveInv
    BY Zenon
  <2>1. \A p \in Prophecies : hasMadeClaim[p] = {} /\ oracleClaimValidators[p] = 0
    BY Zenon DEF CosmosBridgeInit
  <2> QED BY Zenon, <2>1, WeightEmpty DEF ActiveInv
<1>2. BridgeInv /\ [FixedNext]_allVars => BridgeInv'
  BY Zenon, FixedIsBridge, BridgeStepInv
<1> QED BY <1>1, <1>2, ActiveFixed, BridgeInitInv, PTL DEF FixedSpec, ActiveSignersDecide, ActiveStep

----------------------------------------------------------------------------
(* Ether is paid for the symbol "eth" only.                                 *)

\* The prophecies' symbols come from denominations, which are in lower case.
LowerCase == \A s \in ProphecySymbols : toLower[s] = s

Written(k) == safeLowerToUpper(lowerToUpperTokens, k)

\* Only careful tokens are listed and locked, and a burn prophecy that has got power
\* still stands for a locked token or for ether.
EtherInv ==
  /\ ethWhiteList \subseteq CarefulTokens \cup {Zero}
  /\ \A s \in Symbols : lockedTokenList[s] \in CarefulTokens \cup {Zero}
  /\ \A p \in Prophecies :
       p.claimType = "burn" /\ oracleClaimValidators[p] # 0 => MayBurn(Written(p.symbol))
  /\ EtherOnlyForEth

\* The symbols of prophecies are in lower case, also that of what they stand for.
LEMMA WrittenLower ==
  ASSUME LowerCase, BankInv, NEW k \in ProphecySymbols
  PROVE  k \in Symbols /\ Written(k) \in Symbols /\ toLower[Written(k)] = k
<1>1. k \in Symbols /\ toLower[k] = k
  BY Zenon, BankAssumption DEF LowerCase
<1> QED BY Zenon, <1>1 DEF BankInv, TablesInv, UpperOK, Written, safeLowerToUpper

LEMMA ProphecySymbol == \A p \in Prophecies : p.symbol \in ProphecySymbols
BY Zenon, CosmosBridgeAssumption

\* What listing careful tokens does to the symbols leaves those of prophecies with
\* power as they are.
LEMMA WrittenMoves ==
  ASSUME LowerCase, BankInv, EtherInv, UNCHANGED <<lockedTokenList, oracleClaimValidators>>,
         \A k \in Symbols : \/ Written(k)' = Written(k)
                            \/ \E t \in CarefulTokens : toLower[symbolOf[t]] = k /\ Written(k)' = symbolOf[t],
         NEW p \in Prophecies, p.claimType = "burn", oracleClaimValidators'[p] # 0
  PROVE  MayBurn(Written(p.symbol))'
<1>1. PICK k, s, n : k = p.symbol /\ s = Written(k) /\ n = Written(k)'
  BY Zenon
<1>2. k \in ProphecySymbols
  BY Zenon, <1>1, ProphecySymbol
<1>3. k \in Symbols /\ s \in Symbols /\ toLower[s] = k
  BY Zenon, <1>1, <1>2, WrittenLower
<1>4. lockedTokenList[s] # Zero \/ s = Eth
  BY Zenon, <1>1 DEF EtherInv, MayBurn
<1>5. n = s
  <2>1. CASE \E t \in CarefulTokens : toLower[symbolOf[t]] = k /\ n = symbolOf[t]
    <3>1. PICK t \in CarefulTokens : toLower[symbolOf[t]] = k /\ n = symbolOf[t]
      BY Zenon, <2>1
    <3>2. s # Eth
      BY Zenon, <1>3, <3>1, BankAssumption
    <3>3. PICK u : u = lockedTokenList[s]
      BY Zenon
    <3>4. u # Zero /\ u \in CarefulTokens
      BY Zenon, <1>3, <1>4, <3>2, <3>3 DEF EtherInv
    <3>5. symbolOf[u] = s
      BY Zenon, <1>3, <3>3, <3>4 DEF BankInv, TablesInv, LockedOK
    <3>6. u = t
      <4>1. \A x, y \in CarefulTokens : toLower[symbolOf[x]] = toLower[symbolOf[y]] => x = y
        BY Zenon, BankAssumption
      <4> QED BY SMTT(15), <1>3, <3>1, <3>4, <3>5, <4>1
    <3> QED BY Zenon, <3>1, <3>5, <3>6
  <2> QED BY Zenon, <1>1, <1>3, <2>1
<1>6. MayBurn(Written(p.symbol))' <=> lockedTokenList'[n] # Zero \/ n = Eth
  BY Zenon, <1>1 DEF MayBurn, Written
<1> QED BY Zenon, <1>4, <1>5, <1>6

\* The entry of a symbol is written.
LEMMA WrittenSet ==
  ASSUME BankInv, NEW s \in Symbols, lowerToUpperTokens' = WithUpper(s)
  PROVE  \A k \in Symbols : Written(k)' = IF k = toLower[s] THEN s ELSE Written(k)
<1>1. s # NoSymbol /\ toLower[s] \in Symbols
  BY Zenon, BankAssumption
<1>2. \A k \in Symbols : lowerToUpperTokens'[k] = IF k = toLower[s] THEN s ELSE lowerToUpperTokens[k]
  BY Zenon, <1>1 DEF WithUpper, BankInv, TablesInv, UpperOK
<1> QED BY Zenon, <1>1, <1>2 DEF Written, safeLowerToUpper

\* Logs that pay no ether for another symbol.
LEMMA EtherLogs ==
  ASSUME BankInv, EtherOnlyForEth,
         \/ logs' = logs
         \/ \E l : /\ logs' = Append(logs, l)
                   /\ l.type = "unlock" /\ l.token = Zero => l.symbol = Eth
  PROVE  EtherOnlyForEth'
<1>1. logs \in Seq(Logs)
  BY Zenon DEF BankInv, FundsInv
<1>2. CASE logs' = logs
  BY Zenon, <1>2 DEF EtherOnlyForEth
<1>3. ASSUME NEW l, logs' = Append(logs, l), l.type = "unlock" /\ l.token = Zero => l.symbol = Eth
      PROVE  EtherOnlyForEth'
  <2>1. \A i \in DOMAIN logs' : logs'[i] = l \/ (i \in DOMAIN logs /\ logs'[i] = logs[i])
    BY <1>1, <1>3
  <2> QED BY ZenonT(40), <1>3, <2>1 DEF EtherOnlyForEth
<1> QED BY Zenon, <1>2, <1>3

LEMMA EtherLock ==
  ASSUME BankInv, EtherInv, UNCHANGED oracleClaimValidators, NEW sender, NEW recipient, NEW token \in Assets,
         NEW amount, NEW value, lock(sender, recipient, token, amount, value)
  PROVE  EtherInv'
<1>1. PICK s : s = IF value > 0 THEN Eth ELSE symbolOf[token]
  BY Zenon
<1>2. s \in Symbols /\ s = SymbolWritten(token)
  <2>1. /\ Zero \notin Tokens /\ Contracts \subseteq Tokens /\ Eth \in Symbols
        /\ \A t \in Tokens : symbolOf[t] \in Symbols
    BY Zenon, BankAssumption
  <2>2. IF value > 0 THEN token = Zero ELSE token \in Tokens
    BY Zenon, <2>1 DEF lock, EtherPaid, Exists
  <2> QED BY Zenon, <1>1, <2>1, <2>2 DEF SymbolWritten
<1>3. PICK l : l = Log("lock", token, s, sender, amount, NextNonce)
  BY Zenon
<1>4. /\ logs' = Append(logs, l)
      /\ lockedTokenList' = [lockedTokenList EXCEPT ![s] = token]
      /\ token \in ethWhiteList
      /\ UNCHANGED <<ethWhiteList, lowerToUpperTokens>>
  BY Zenon, <1>1, <1>3 DEF lock, lockFunds
<1>5. l.type = "lock"
  BY Zenon, <1>3 DEF Log
<1>6. EtherOnlyForEth'
  BY Zenon, <1>4, <1>5, EtherLogs DEF EtherInv
<1>7. token \in CarefulTokens \cup {Zero}
  BY Zenon, <1>4 DEF EtherInv
<1>8. \A k \in Symbols : lockedTokenList'[k] = IF k = s THEN token ELSE lockedTokenList[k]
  BY Zenon, <1>2, <1>4 DEF BankInv, TablesInv, LockedOK
<1>9. token = Zero => s = Eth
  BY Zenon, <1>2 DEF SymbolWritten
<1>10. ASSUME NEW p \in Prophecies, p.claimType = "burn", oracleClaimValidators'[p] # 0
       PROVE  MayBurn(Written(p.symbol))'
  <2>1. PICK w : w = Written(p.symbol)
    BY Zenon
  <2>2. w \in Symbols
    BY Zenon, <2>1, ProphecySymbol, BankAssumption, UpperSymbol DEF BankInv, TablesInv, Written
  <2>3. lockedTokenList[w] # Zero \/ w = Eth
    BY Zenon, <1>10, <2>1 DEF EtherInv, MayBurn
  <2>4. lockedTokenList'[w] # Zero \/ w = Eth
    BY Zenon, <1>8, <1>9, <2>2, <2>3
  <2> QED BY Zenon, <1>4, <2>1, <2>4 DEF MayBurn, Written
<1>11. \A k \in Symbols : lockedTokenList'[k] \in CarefulTokens \cup {Zero}
  BY Zenon, <1>7, <1>8 DEF EtherInv
<1> QED BY Zenon, <1>4, <1>6, <1>10, <1>11 DEF EtherInv

\* Listings, as far as ether is concerned.
LEMMA EtherListed ==
  ASSUME LowerCase, BankInv, EtherInv, UNCHANGED <<lockedTokenList, oracleClaimValidators, logs>>,
         ethWhiteList' \subseteq ethWhiteList \cup CarefulTokens,
         \A k \in Symbols : \/ Written(k)' = Written(k)
                            \/ \E t \in CarefulTokens : toLower[symbolOf[t]] = k /\ Written(k)' = symbolOf[t]
  PROVE  EtherInv'
<1>1. EtherOnlyForEth'
  BY Zenon, EtherLogs DEF EtherInv
<1>2. ethWhiteList' \subseteq CarefulTokens \cup {Zero}
  BY Zenon DEF EtherInv
<1>3. \A p \in Prophecies :
        p.claimType = "burn" /\ oracleClaimValidators'[p] # 0 => MayBurn(Written(p.symbol))'
  BY Zenon, WrittenMoves
<1> QED BY Zenon, <1>1, <1>2, <1>3 DEF EtherInv

LEMMA EtherAdminister ==
  ASSUME LowerCase, BankInv, EtherInv, UNCHANGED oracleClaimValidators, CarefulAdminister
  PROVE  EtherInv'
<1>1. PICK sender \in Admins :
        \/ \E token \in CarefulTokens, inList \in BOOLEAN : updateEthWhiteList(sender, token, inList)
        \/ \E tokens \in TokenLists \cap Seq(CarefulTokens) : bulkWhitelistUpdateLimits(sender, tokens)
        \/ \E token \in CarefulTokens : addExistingBridgeToken(sender, token)
  BY Zenon DEF CarefulAdminister
<1>2. ASSUME NEW token \in CarefulTokens, lowerToUpperTokens' = WithUpper(symbolOf[token]),
             ethWhiteList' \subseteq ethWhiteList \cup {token}, UNCHANGED <<lockedTokenList, logs>>
      PROVE  EtherInv'
  <2>1. symbolOf[token] \in Symbols
    BY Zenon, BankAssumption
  <2>2. \A k \in Symbols : Written(k)' = IF k = toLower[symbolOf[token]] THEN symbolOf[token] ELSE Written(k)
    BY Zenon, <1>2, <2>1, WrittenSet
  <2>3. ethWhiteList' \subseteq ethWhiteList \cup CarefulTokens
    BY Zenon, <1>2
  <2> QED BY Zenon, <1>2, <2>2, <2>3, EtherListed
<1>3. ASSUME NEW token \in CarefulTokens, NEW inList \in BOOLEAN, updateEthWhiteList(sender, token, inList)
      PROVE  EtherInv'
  <2>1. ethWhiteList' \subseteq ethWhiteList \cup {token}
    BY Zenon, <1>3 DEF updateEthWhiteList, setTokenInEthWhiteList
  <2> QED BY Zenon, <1>2, <1>3, <2>1 DEF updateEthWhiteList, fundVars
<1>4. ASSUME NEW token \in CarefulTokens, addExistingBridgeToken(sender, token)
      PROVE  EtherInv'
  <2>1. ethWhiteList' \subseteq ethWhiteList \cup {token}
    BY Zenon, <1>4 DEF addExistingBridgeToken
  <2> QED BY Zenon, <1>2, <1>4, <2>1 DEF addExistingBridgeToken, fundVars
<1>5. ASSUME NEW tokens \in TokenLists \cap Seq(CarefulTokens), bulkWhitelistUpdateLimits(sender, tokens)
      PROVE  EtherInv'
  <2>1. \A i \in DOMAIN tokens : tokens[i] \in CarefulTokens
    OBVIOUS
  <2>2. /\ ethWhiteList' = ethWhiteList \cup {tokens[i] : i \in DOMAIN tokens}
        /\ UNCHANGED <<lockedTokenList, logs>>
        /\ \A k \in Symbols :
             lowerToUpperTokens'[k] = IF LastWith(tokens, k) = {}
                                      THEN lowerToUpperTokens[k]
                                      ELSE symbolOf[tokens[CHOOSE i \in LastWith(tokens, k) : TRUE]]
    BY Zenon, <1>5 DEF bulkWhitelistUpdateLimits, fundVars
  <2>3. ASSUME NEW k \in Symbols
        PROVE  \/ Written(k)' = Written(k)
               \/ \E t \in CarefulTokens : toLower[symbolOf[t]] = k /\ Written(k)' = symbolOf[t]
    <3>1. CASE LastWith(tokens, k) = {}
      BY Zenon, <2>2, <3>1 DEF Written, safeLowerToUpper
    <3>2. CASE LastWith(tokens, k) # {}
      <4>1. PICK i : i = CHOOSE j \in LastWith(tokens, k) : TRUE
        BY Zenon
      <4>2. i \in LastWith(tokens, k)
        BY Zenon, <3>2, <4>1
      <4>3. i \in DOMAIN tokens /\ toLower[symbolOf[tokens[i]]] = k
        BY Zenon, <4>2 DEF LastWith
      <4>4. PICK t \in CarefulTokens : t = tokens[i]
        BY Zenon, <2>1, <4>3
      <4>5. symbolOf[t] # NoSymbol
        BY BankAssumption
      <4>6. lowerToUpperTokens'[k] = symbolOf[t]
        BY Zenon, <2>2, <3>2, <4>1, <4>4
      <4>7. Written(k)' = symbolOf[t]
        BY Zenon, <4>5, <4>6 DEF Written, safeLowerToUpper
      <4> QED BY Zenon, <4>3, <4>4, <4>7
    <3> QED BY Zenon, <3>1, <3>2
  <2>4. ethWhiteList' \subseteq ethWhiteList \cup CarefulTokens
    BY Zenon, <2>1, <2>2
  <2> QED BY Zenon, <2>2, <2>3, <2>4, EtherListed
<1> QED BY Zenon, <1>1, <1>3, <1>4, <1>5

\* A signature: what the first one requires of a burn prophecy holds for the others,
\* and a bridge token that is deployed leaves every symbol standing for what it did.
LEMMA EtherClaim ==
  ASSUME LowerCase, BridgeInv, EtherInv, NEW v \in Validators, NEW p \in Prophecies, newProphecyClaim(v, p)
  PROVE  EtherInv'
<1>1. PICK s : s = safeLowerToUpper(lowerToUpperTokens, p.symbol)
  BY Zenon
<1>2. BankInv /\ oracleClaimValidators \in [Prophecies -> Nat] /\ p.symbol \in ProphecySymbols
  BY Zenon, ProphecySymbol DEF BridgeInv, SignaturesInv
<1>3. s \in Symbols /\ toLower[s] = p.symbol /\ s = Written(p.symbol)
  BY Zenon, <1>1, <1>2, WrittenLower DEF Written
<1>4. /\ oracleClaimValidators[p] = 0 /\ p.claimType = "burn" => MayBurn(s)
      /\ lowerToUpperTokens' = WithUpper(s) \/ lowerToUpperTokens' = lowerToUpperTokens
      /\ oracleClaimValidators' = [oracleClaimValidators EXCEPT ![p] = Signed(v, p)]
      /\ UNCHANGED <<ethWhiteList, lockedTokenList>>
  BY Zenon, <1>1 DEF newProphecyClaim, createNewBridgeToken
<1>5. p.claimType = "burn" => MayBurn(s)
  BY Zenon, <1>3, <1>4 DEF EtherInv
<1>6. \A k \in Symbols : Written(k)' = Written(k)
  <2>1. CASE lowerToUpperTokens' = WithUpper(s)
    <3>1. \A k \in Symbols : Written(k)' = IF k = toLower[s] THEN s ELSE Written(k)
      BY Zenon, <1>2, <1>3, <2>1, WrittenSet
    <3> QED BY Zenon, <1>3, <3>1
  <2>2. CASE lowerToUpperTokens' = lowerToUpperTokens
    BY Zenon, <2>2 DEF Written, safeLowerToUpper
  <2> QED BY Zenon, <1>4, <2>1, <2>2
<1>7. ASSUME NEW q \in Prophecies, q.claimType = "burn", oracleClaimValidators'[q] # 0
      PROVE  MayBurn(Written(q.symbol))'
  <2>1. q.symbol \in Symbols
    BY Zenon, ProphecySymbol, BankAssumption
  <2>2. MayBurn(Written(q.symbol))
    <3>1. CASE q = p
      BY Zenon, <1>3, <1>5, <1>7, <3>1
    <3>2. CASE q # p
      <4>1. oracleClaimValidators'[q] = oracleClaimValidators[q]
        BY Zenon, <1>2, <1>4, <3>2
      <4> QED BY Zenon, <1>7, <4>1 DEF EtherInv
    <3> QED BY Zenon, <3>1, <3>2
  <2>3. PICK w : w = Written(q.symbol) /\ w = Written(q.symbol)'
    BY Zenon, <1>6, <2>1
  <2>4. lockedTokenList[w] # Zero \/ w = Eth
    BY Zenon, <2>2, <2>3 DEF MayBurn
  <2>5. MayBurn(Written(q.symbol))' <=> lockedTokenList'[w] # Zero \/ w = Eth
    BY Zenon, <2>3 DEF MayBurn, Written
  <2> QED BY Zenon, <1>4, <2>4, <2>5
<1>8. EtherOnlyForEth'
  <2>1. \/ logs' = logs
        \/ \E u, t : logs' = Append(logs, Log("mint", t, u, p.receiver, p.amount, 0))
        \/ /\ p.claimType = "burn"
           /\ logs' = Append(logs, Log("unlock", lockedTokenList[s], s, p.receiver, p.amount, 0))
    BY Zenon, <1>1 DEF newProphecyClaim, Unlock, Mint
  <2>2. ASSUME NEW u, NEW t, logs' = Append(logs, Log("mint", t, u, p.receiver, p.amount, 0))
        PROVE  EtherOnlyForEth'
    <3>1. PICK l : l = Log("mint", t, u, p.receiver, p.amount, 0)
      BY Zenon
    <3>2. l.type = "mint"
      BY Zenon, <3>1 DEF Log
    <3> QED BY Zenon, <1>2, <2>2, <3>1, <3>2, EtherLogs DEF EtherInv
  <2>3. CASE /\ p.claimType = "burn"
             /\ logs' = Append(logs, Log("unlock", lockedTokenList[s], s, p.receiver, p.amount, 0))
    <3>1. PICK l : l = Log("unlock", lockedTokenList[s], s, p.receiver, p.amount, 0)
      BY Zenon
    <3>2. l.token = lockedTokenList[s] /\ l.symbol = s
      BY Zenon, <3>1 DEF Log
    <3>3. l.token = Zero => l.symbol = Eth
      BY Zenon, <1>5, <2>3, <3>2 DEF MayBurn
    <3> QED BY Zenon, <1>2, <2>3, <3>1, <3>3, EtherLogs DEF EtherInv
  <2>4. CASE logs' = logs
    BY Zenon, <1>2, <2>4, EtherLogs DEF EtherInv
  <2> QED BY Zenon, <2>1, <2>2, <2>3, <2>4
<1> QED BY Zenon, <1>4, <1>7, <1>8 DEF EtherInv

\* A step that only logs something else.
LEMMA EtherIdle ==
  ASSUME BankInv, EtherInv,
         UNCHANGED <<ethWhiteList, lockedTokenList, lowerToUpperTokens, oracleClaimValidators>>,
         \/ logs' = logs
         \/ \E l : logs' = Append(logs, l) /\ l.type # "unlock"
  PROVE  EtherInv'
<1>1. EtherOnlyForEth'
  BY Zenon, EtherLogs DEF EtherInv
<1> QED BY Zenon, <1>1 DEF EtherInv, MayBurn, Written

LEMMA EtherStep == LowerCase /\ BridgeInv /\ EtherInv /\ [FixedNext]_allVars => EtherInv'
<1> SUFFICES ASSUME LowerCase, BridgeInv, EtherInv, [FixedNext]_allVars PROVE EtherInv'
  BY Zenon
<1>1. BankInv
  BY Zenon DEF BridgeInv
<1>2. CASE OracleStep
  <2>1. ASSUME NEW sender \in Operators, setBridgeBank(sender) PROVE EtherInv'
    BY Zenon, <1>1, <2>1, EtherIdle DEF setBridgeBank, bankVars, tableVars, fundVars
  <2> QED BY Zenon, <1>2, <2>1, EtherClaim DEF OracleStep
<1>3. CASE Deposit /\ UNCHANGED oracleVars
  <2>1. oracleClaimValidators' = oracleClaimValidators
    BY Zenon, <1>3 DEF oracleVars
  <2>2. ASSUME NEW sender, NEW recipient, NEW token, NEW amount, burn(sender, recipient, token, amount)
        PROVE  EtherInv'
    <3>1. PICK l : l = Log("burn", token, symbolOf[token], sender, amount, NextNonce)
      BY Zenon
    <3>2. l.type # "unlock"
      BY Zenon, <3>1 DEF Log
    <3>3. logs' = Append(logs, l) /\ UNCHANGED <<ethWhiteList, lockedTokenList, lowerToUpperTokens>>
      BY Zenon, <2>2, <3>1 DEF burn, burnFunds, tableVars
    <3> QED BY Zenon, <1>1, <2>1, <3>2, <3>3, EtherIdle
  <2> QED BY Zenon, <1>1, <1>3, <2>1, <2>2, EtherLock DEF Deposit
<1>4. CASE CarefulAdminister /\ UNCHANGED oracleVars
  BY Zenon, <1>1, <1>4, EtherAdminister DEF oracleVars
<1>5. CASE UNCHANGED allVars
  BY Zenon, <1>1, <1>5, EtherIdle DEF allVars, bankVars, tableVars, fundVars, oracleVars
<1> QED BY Zenon, <1>2, <1>3, <1>4, <1>5 DEF FixedNext

\* With symbols of prophecies in lower case and tokens that are listed with care, no
\* burn prophecy is paid in ether for another symbol, though the table of symbols and
\* the locked tokens change between its signatures.
THEOREM EtherPaidForEth == LowerCase /\ FixedSpec => []EtherOnlyForEth
<1>1. CosmosBridgeInit => EtherInv
  <2> SUFFICES ASSUME CosmosBridgeInit PROVE EtherInv
    BY Zenon
  <2>1. /\ ethWhiteList = {Zero} /\ logs = << >>
        /\ \A s \in Symbols : lockedTokenList[s] = Zero
        /\ \A p \in Prophecies : oracleClaimValidators[p] = 0
    BY Zenon DEF CosmosBridgeInit, BankInit
  <2>2. \A i \in DOMAIN logs : logs[i].type = "unlock" /\ logs[i].token = Zero => logs[i].symbol = Eth
    <3>1. DOMAIN logs = {}
      BY <2>1
    <3> QED BY Zenon, <3>1
  <2>3. EtherOnlyForEth
    BY Zenon, <2>2 DEF EtherOnlyForEth
  <2> QED BY Zenon, <2>1, <2>3 DEF EtherInv
<1>2. BridgeInv /\ [FixedNext]_allVars => BridgeInv'
  BY Zenon, FixedIsBridge, BridgeStepInv
<1>3. LowerCase => LowerCase'
  BY Zenon DEF LowerCase
<1>4. EtherInv => EtherOnlyForEth
  BY Zenon DEF EtherInv
<1> QED BY <1>1, <1>2, <1>3, <1>4, EtherStep, BridgeInitInv, PTL DEF FixedSpec
=============================================================================
