------------------------------- MODULE Valset -------------------------------
(***************************************************************************)
(* The validator set kept on Ethereum (contracts Valset and ValsetStorage).*)
(* The operator adds and removes validators and changes their powers; each *)
(* full update starts a new version and the entries of earlier versions    *)
(* stay in storage.  A call that reverts is an action that is not enabled. *)
(***************************************************************************)
EXTENDS Weights, Sequences

CONSTANTS
  Validators,     \* addresses of validators
  Operators,      \* addresses that may become the operator
  ValsetLists,    \* arguments of updateValset and of the constructor
  MaxPower,       \* bound on the power of one validator
  MaxVersion,     \* bound on the number of full updates
  MaxCount        \* bound on validatorCount

ASSUME ValsetAssumption ==
  /\ IsFiniteSet(Validators)
  /\ MaxPower \in Nat
  /\ MaxVersion \in Nat \ {0}
  /\ MaxCount \in Nat
  /\ ValsetLists \subseteq Seq([validator : Validators, power : 0 .. MaxPower])

VARIABLES
  operator,
  currentValsetVersion,
  validatorCount,
  totalPower,
  validators,     \* validators[n]: the validators of version n
  powers          \* powers[n][v]: their powers, 0 for the others

valsetVars == <<operator, currentValsetVersion, validatorCount, totalPower, validators, powers>>

Versions == 0 .. MaxVersion

NoPowers == [v \in Validators |-> 0]

isActiveValidator(v) == v \in validators[currentValsetVersion]

getValidatorPower(v) == powers[currentValsetVersion][v]

----------------------------------------------------------------------------
(* The operations.                                                          *)

\* Mutant: the power of the new validator is not added to the total.
addValidator_NotCounted(sender, v, p) ==
  /\ sender = operator
  /\ validatorCount < MaxCount
  /\ validatorCount' = validatorCount + 1
  /\ validators' = [validators EXCEPT ![currentValsetVersion] = @ \cup {v}]
  /\ powers' = [powers EXCEPT ![currentValsetVersion][v] = p]
  /\ UNCHANGED <<operator, currentValsetVersion, totalPower>>

\* addValidatorInternal does not check whether the validator is active.
addValidator(sender, v, p) ==
  /\ sender = operator
  /\ validatorCount < MaxCount
  /\ validatorCount' = validatorCount + 1
  /\ totalPower' = totalPower + p
  /\ validators' = [validators EXCEPT ![currentValsetVersion] = @ \cup {v}]
  /\ powers' = [powers EXCEPT ![currentValsetVersion][v] = p]
  /\ UNCHANGED <<operator, currentValsetVersion>>

\* SafeMath reverts when the prior power exceeds the total.
updateValidatorPower(sender, v, p) ==
  /\ sender = operator
  /\ isActiveValidator(v)
  /\ getValidatorPower(v) <= totalPower
  /\ totalPower' = totalPower - getValidatorPower(v) + p
  /\ powers' = [powers EXCEPT ![currentValsetVersion][v] = p]
  /\ UNCHANGED <<operator, currentValsetVersion, validatorCount, validators>>

removeValidator(sender, v) ==
  /\ sender = operator
  /\ isActiveValidator(v)
  /\ validatorCount >= 1
  /\ getValidatorPower(v) <= totalPower
  /\ validatorCount' = validatorCount - 1
  /\ totalPower' = totalPower - getValidatorPower(v)
  /\ validators' = [validators EXCEPT ![currentValsetVersion] = @ \ {v}]
  /\ powers' = [powers EXCEPT ![currentValsetVersion][v] = 0]
  /\ UNCHANGED <<operator, currentValsetVersion>>

----------------------------------------------------------------------------
(* A list of validators as resetValset and the loop over addValidatorInternal *)
(* leave it: every element is counted, the last one of a validator is kept.   *)

ListMembers(list) == {list[i].validator : i \in DOMAIN list}

ListPower(list) == Weight(DOMAIN list, [i \in DOMAIN list |-> list[i].power])

LastOf(list, v) ==
  {i \in DOMAIN list : /\ list[i].validator = v
                       /\ \A j \in DOMAIN list : list[j].validator = v => j <= i}

ListPowers(list) ==
  [v \in Validators |->
     IF LastOf(list, v) = {} THEN 0 ELSE list[CHOOSE i \in LastOf(list, v) : TRUE].power]

updateValset(sender, list) ==
  /\ sender = operator
  /\ currentValsetVersion < MaxVersion
  /\ currentValsetVersion' = currentValsetVersion + 1
  /\ validatorCount' = Len(list)
  /\ totalPower' = ListPower(list)
  /\ validators' = [validators EXCEPT ![currentValsetVersion + 1] = ListMembers(list)]
  /\ powers' = [powers EXCEPT ![currentValsetVersion + 1] = ListPowers(list)]
  /\ UNCHANGED operator

\* The version is only compared; what is deleted is the entry of the current one.
recoverGas(sender, version, v) ==
  /\ sender = operator
  /\ version < currentValsetVersion
  /\ validators' = [validators EXCEPT ![currentValsetVersion] = @ \ {v}]
  /\ powers' = [powers EXCEPT ![currentValsetVersion][v] = 0]
  /\ UNCHANGED <<operator, currentValsetVersion, validatorCount, totalPower>>

changeOperator(sender, newOperator) ==
  /\ sender = operator
  /\ operator' = newOperator
  /\ UNCHANGED <<currentValsetVersion, validatorCount, totalPower, validators, powers>>

\* The constructor: version 1 with one of the given lists.
InitWith(lists) ==
  /\ operator \in Operators
  /\ currentValsetVersion = 1
  /\ \E list \in lists :
       /\ validatorCount = Len(list)
       /\ totalPower = ListPower(list)
       /\ validators = [n \in Versions |-> IF n = 1 THEN ListMembers(list) ELSE {}]
       /\ powers = [n \in Versions |-> IF n = 1 THEN ListPowers(list) ELSE NoPowers]

----------------------------------------------------------------------------
(* Specifications.                                                          *)

ValsetNext ==
  \E sender \in Operators :
    \/ \E v \in Validators, p \in 0 .. MaxPower :
         addValidator(sender, v, p) \/ updateValidatorPower(sender, v, p)
    \/ \E v \in Validators : removeValidator(sender, v)
    \/ \E list \in ValsetLists : updateValset(sender, list)
    \/ \E version \in Versions, v \in Validators : recoverGas(sender, version, v)
    \/ \E newOperator \in Operators : changeOperator(sender, newOperator)

ValsetSpec == InitWith(ValsetLists) /\ [][ValsetNext]_valsetVars

\* An operator that adds each validator once and does not recover gas.
CarefulLists ==
  {list \in ValsetLists :
     \A i, j \in DOMAIN list : list[i].validator = list[j].validator => i = j}

CarefulNext ==
  \E sender \in Operators :
    \/ \E v \in Validators, p \in 0 .. MaxPower :
         \/ ~isActiveValidator(v) /\ addValidator(sender, v, p)
         \/ updateValidatorPower(sender, v, p)
    \/ \E v \in Validators : removeValidator(sender, v)
    \/ \E list \in CarefulLists : updateValset(sender, list)
    \/ \E newOperator \in Operators : changeOperator(sender, newOperator)

CarefulSpec == InitWith(CarefulLists) /\ [][CarefulNext]_valsetVars

----------------------------------------------------------------------------
(* What the validator set promises.                                         *)

\* Counts and powers are natural numbers and only active validators of a version
\* have power, however validators are added twice, removed and deleted (the guards
\* of SafeMath in updateValidatorPower and removeValidator).
ValsetTypeOK ==
  /\ operator \in Operators
  /\ currentValsetVersion \in 1 .. MaxVersion
  /\ validatorCount \in Nat
  /\ totalPower \in Nat
  /\ validators \in [Versions -> SUBSET Validators]
  /\ powers \in [Versions -> [Validators -> 0 .. MaxPower]]
  /\ \A n \in Versions : \A v \in Validators \ validators[n] : powers[n][v] = 0

\* The "total power of all validators" and the "validator count" (ValsetStorage)
\* that the threshold of every prophecy is computed from are those of the active
\* validators.
TotalsExact ==
  LET active == validators[currentValsetVersion]
  IN  /\ totalPower = Weight(active, powers[currentValsetVersion])
      /\ validatorCount = Cardinality(active)

\* Whatever is added twice, listed twice or deleted, the totals never fall below those
\* of the active validators: the threshold of a prophecy is never too low, and the
\* subtractions of removeValidator and updateValidatorPower never revert.
TotalsCover ==
  LET active == validators[currentValsetVersion]
  IN  /\ Weight(active, powers[currentValsetVersion]) <= totalPower
      /\ Cardinality(active) <= validatorCount
=============================================================================
