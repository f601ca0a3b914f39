---------------------------- MODULE CosmosBridge ----------------------------
(***************************************************************************)
(* The contract CosmosBridge with Oracle: validators sign prophecies about *)
(* locks and burns on the Cosmos side.  The signature that reaches the     *)
(* threshold has BridgeBank mint or unlock in the same transaction, so a   *)
(* payment that fails takes the signature back.  The validator set and the *)
(* bank change between signatures.  The identifier of a prophecy, a hash   *)
(* of its content, is modelled by the content.                             *)
(***************************************************************************)
EXTENDS Valset, BridgeBank

CONSTANTS
  consensusThreshold,   \* percent of the total power
  Prophecies            \* contents of prophecies

ASSUME CosmosBridgeAssumption ==
  /\ consensusThreshold \in 1 .. 100
  /\ Prophecies \subseteq [claimType : {"burn", "lock"}, sequence : Nat, receiver : Users,
                           symbol : ProphecySymbols, amount : Amounts]

VARIABLES
  hasBridgeBank,
  hasMadeClaim,             \* hasMadeClaim[p]: the validators that have signed p
  oracleClaimValidators,    \* oracleClaimValidators[p]: the power they had when they signed
  completed                 \* completed[p]: how often LogProphecyCompleted was emitted for p

oracleVars == <<hasBridgeBank, hasMadeClaim, oracleClaimValidators, completed>>

allVars == <<valsetVars, bankVars, oracleVars>>

----------------------------------------------------------------------------
(* The oracle.                                                              *)

HasReachedThreshold(signedPower) == signedPower * 100 >= totalPower * consensusThreshold

\* Mutant: a prophecy that has reached the threshold can be signed again.
MaySign_Completed(v, p) == isActiveValidator(v) /\ v \notin hasMadeClaim[p]

\* Mutant: a validator can sign twice.
MaySign_Twice(v, p) == isActiveValidator(v) /\ ~HasReachedThreshold(oracleClaimValidators[p])

MaySign(v, p) ==
  /\ isActiveValidator(v)
  /\ ~HasReachedThreshold(oracleClaimValidators[p])
  /\ v \notin hasMadeClaim[p]

Signers(v, p) == hasMadeClaim[p] \cup {v}

\* Mutant: only the last signature counts.
Signed_Last(v, p) == getValidatorPower(v)

Signed(v, p) == oracleClaimValidators[p] + getValidatorPower(v)

\* Mutant: any symbol without a locked token is taken for ether.
MayBurn_AnySymbol(s) == TRUE

\* What the first signature of a burn prophecy requires.
MayBurn(s) == lockedTokenList[s] # Zero \/ s = Eth

\* The first signature of a lock prophecy deploys a missing bridge token; a
\* signature that brings no power leaves the next one the first.
newProphecyClaim(v, p) ==
  /\ hasBridgeBank
  /\ MaySign(v, p)
  /\ LET first   == oracleClaimValidators[p] = 0
         s       == safeLowerToUpper(lowerToUpperTokens, p.symbol)
         deploys == first /\ p.claimType = "lock" /\ controlledBridgeTokens[s] = Zero
         tokens  == IF deploys THEN WithBridgeToken(s) ELSE controlledBridgeTokens
         uppers  == IF deploys THEN WithUpper(s) ELSE lowerToUpperTokens
     IN  /\ first /\ p.claimType = "burn" => MayBurn(s)
         /\ IF deploys THEN createNewBridgeToken(s)
                       ELSE UNCHANGED <<controlledBridgeTokens, lowerToUpperTokens, cosmosWhiteList>>
         /\ hasMadeClaim' = [hasMadeClaim EXCEPT ![p] = Signers(v, p)]
         /\ oracleClaimValidators' = [oracleClaimValidators EXCEPT ![p] = Signed(v, p)]
         /\ IF HasReachedThreshold(Signed(v, p))
            THEN /\ IF p.claimType = "burn" THEN Unlock(p.receiver, p.symbol, p.amount)
                                            ELSE Mint(p.receiver, p.symbol, p.amount, tokens, uppers)
                 /\ completed' = [completed EXCEPT ![p] = @ + 1]
            ELSE UNCHANGED <<balances, logs, completed>>
  /\ UNCHANGED <<valsetVars, roleVars, ethWhiteList, lockedTokenList, lockBurnNonce, hasBridgeBank>>

setBridgeBank(sender) ==
  /\ sender = operator
  /\ ~hasBridgeBank
  /\ hasBridgeBank' = TRUE
  /\ UNCHANGED <<valsetVars, bankVars, hasMadeClaim, oracleClaimValidators, completed>>

----------------------------------------------------------------------------
(* Specifications.                                                          *)

CosmosBridgeInit ==
  /\ InitWith(ValsetLists)
  /\ BankInit
  /\ hasBridgeBank = FALSE
  /\ hasMadeClaim = [p \in Prophecies |-> {}]
  /\ oracleClaimValidators = [p \in Prophecies |-> 0]
  /\ completed = [p \in Prophecies |-> 0]

OracleStep ==
  \/ \E v \in Validators, p \in Prophecies : newProphecyClaim(v, p)
  \/ \E sender \in Operators : setBridgeBank(sender)

BankStep ==
  /\ (lockBurnNonce < MaxLogs /\ Deposit) \/ Administer
  /\ UNCHANGED <<valsetVars, oracleVars>>

ValsetStep == ValsetNext /\ UNCHANGED <<bankVars, oracleVars>>

CosmosBridgeNext == OracleStep \/ BankStep \/ ValsetStep

CosmosBridgeSpec == CosmosBridgeInit /\ [][CosmosBridgeNext]_allVars

\* An operator under whom the total power never grows.
SteadyNext == OracleStep \/ BankStep \/ (ValsetStep /\ totalPower' <= totalPower)

SteadySpec == CosmosBridgeInit /\ [][SteadyNext]_allVars

\* The validator set stays as it is and administrators are careful; the operator
\* connects the contracts and every relayer signs every prophecy it can sign, by its
\* subscription or by a later run of its replay command.
FixedNext ==
  \/ OracleStep
  \/ /\ (lockBurnNonce < MaxLogs /\ Deposit) \/ CarefulAdminister
     /\ UNCHANGED <<valsetVars, oracleVars>>

FixedSpec ==
  /\ CosmosBridgeInit
  /\ [][FixedNext]_allVars
  /\ \A sender \in Operators : WF_allVars(setBridgeBank(sender))
  /\ \A v \in Validators, p \in Prophecies : WF_allVars(newProphecyClaim(v, p))

----------------------------------------------------------------------------
(* What the contracts promise.                                              *)

\* The bank and the validator set stay well formed when the bridge drives them, and
\* a signature is never counted when it is not recorded (newOracleClaim).
CosmosBridgeTypeOK ==
  /\ ValsetTypeOK
  /\ BankTypeOK
  /\ hasBridgeBank \in BOOLEAN
  /\ hasMadeClaim \in [Prophecies -> SUBSET Validators]
  /\ oracleClaimValidators \in [Prophecies -> Nat]
  /\ completed \in [Prophecies -> Nat]
  /\ \A p \in Prophecies : hasMadeClaim[p] = {} => oracleClaimValidators[p] = 0

\* "should not allow burn prophecies to be processed twice": a prophecy is paid at
\* most once (newProphecyClaim asks getProphecyThreshold whether it was).
CompletedOnce == \A p \in Prophecies : completed[p] <= 1

\* "The claim is considered valid if the combined active signatory validator powers
\* pass the consensus threshold": when a prophecy is paid, the active validators
\* that have signed it hold the threshold of the total power.
ActiveSignersDecide ==
  [][\A p \in Prophecies :
       completed'[p] # completed[p] =>
         LET signers == hasMadeClaim'[p] \cap validators[currentValsetVersion]
         IN  HasReachedThreshold(Weight(signers, powers[currentValsetVersion]))]_allVars

\* Ether is paid for the symbol "eth" only ("Invalid token address" refuses a burn
\* prophecy of another symbol without a locked token).
EtherOnlyForEth ==
  \A i \in DOMAIN logs : logs[i].type = "unlock" /\ logs[i].token = Zero => logs[i].symbol = Eth

\* Every lock prophecy that all validators sign is paid, and every burn prophecy
\* whose amount of ether stays available.
EveryProphecyCompleted ==
  \A p \in Prophecies :
    \/ p.claimType = "lock" /\ <>(completed[p] = 1)
    \/ p.claimType = "burn" /\ (<>[](p.symbol = Eth /\ Affordable(Zero, p.amount)) => <>(completed[p] = 1))
=============================================================================
