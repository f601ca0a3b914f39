---------------------------- MODULE Dispensation ----------------------------
(***************************************************************************)
(* Distributions (x/dispensation).  A distributor hands the module account *)
(* the coins of a list of outputs; the module keeps one pending record for *)
(* each name, type and recipient.  The authorised runner then has the      *)
(* records paid, MaxRecordsPerBlock at a time; a record ends up completed  *)
(* or failed.  Users file claims, which a payment of the same type deletes.*)
(*                                                                         *)
(* A name is made of the block height and the distributor, so everything a *)
(* distributor creates in one block shares it.  Coins are amounts of one   *)
(* denomination: a send of several moves all of them or none.  The stores  *)
(* refuse records without coins, so an amount of 0 stands for "no record". *)
(***************************************************************************)
EXTENDS Weights, Sequences

CONSTANTS
  Distributors,
  Runners,
  Recipients,          \* addresses, numbered in the order of their keys
  Blocked,             \* recipients that the bank refuses to pay from a module
  Types,               \* distribution types
  ClaimTypes,          \* those that support claims
  MaxRecordsPerBlock,  \* records that one run settles, 10 in the code
  NoRunner,
  Amounts,             \* coins of one output
  MaxOutputs,          \* bound on the outputs of one message
  MaxFunds,            \* bound on what a distributor starts with
  MaxHeight            \* bound on the block height

ASSUME DispensationAssumption ==
  /\ IsFiniteSet(Distributors) /\ IsFiniteSet(Types) /\ IsFiniteSet(Recipients)
  /\ Recipients \subseteq Nat
  /\ Blocked \subseteq Recipients
  /\ ClaimTypes \subseteq Types
  /\ MaxRecordsPerBlock \in Nat \ {0}
  /\ NoRunner \notin Runners
  /\ Amounts \subseteq Nat
  /\ MaxOutputs \in Nat /\ MaxFunds \in Nat /\ MaxHeight \in Nat \ {0}

VARIABLES
  height,         \* height of the current block
  funds,          \* what each distributor still owns
  paid,           \* what each recipient has received from the module
  module,         \* balance of the module account
  distributions,  \* <<name, type, runner>> of every distribution stored
  pending,        \* coins of the record stored for each key, by status
  completed,
  failed,
  runner,         \* AuthorizedRunner of the pending record
  claims          \* <<recipient, type>> of every claim stored

recordVars == <<pending, completed, failed, runner>>
dispensationVars == <<height, funds, paid, module, distributions, recordVars, claims>>

Names == (1 .. MaxHeight) \X Distributors

\* GetDistributionRecordKey without the status: a store for each status.
Keys == Names \X Types \X Recipients

Records == [Keys -> Nat]

NoRecords == [k \in Keys |-> 0]

Outputs == [to : Recipients, coins : Amounts]

\* ValidateBasic refuses an empty list; a list without coins is accepted.
OutputLists == UNION {[1 .. n -> Outputs] : n \in 1 .. MaxOutputs}

----------------------------------------------------------------------------
(* Creating a distribution.                                                 *)

\* The outputs of a list to one recipient, from the first to the n-th.
To(out, r, n) == {i \in 1 .. n : out[i].to = r}

CoinsOf(out) == [i \in DOMAIN out |-> out[i].coins]

TotalOutput(out) == Weight(DOMAIN out, CoinsOf(out))

\* DistributionRecord.Add
Add(old, n) == old + n

\* CreateDrops, one output after the other: each adds to the pending record
\* of its recipient and is refused when the record still has no coins.
Drops(name, type, out) ==
  [k \in Keys |->
     IF k[1] = name /\ k[2] = type /\ To(out, k[3], Len(out)) # {}
       THEN Add(pending[k], Weight(To(out, k[3], Len(out)), CoinsOf(out)))
       ELSE pending[k]]

EveryDropHasCoins(name, type, out) ==
  \A i \in DOMAIN out :
    Add(pending[<<name, type, out[i].to>>], Weight(To(out, out[i].to, i), CoinsOf(out))) > 0

\* The record of every recipient of the list goes to the runner of this message.
Authorize(name, type, out, authorizedRunner) ==
  [k \in Keys |->
     IF k[1] = name /\ k[2] = type /\ To(out, k[3], Len(out)) # {}
       THEN authorizedRunner
       ELSE runner[k]]

ExistsDistribution(name, type, authorizedRunner) ==
  <<name, type, authorizedRunner>> \in distributions

SetDistribution(name, type, authorizedRunner) ==
  distributions' = distributions \cup {<<name, type, authorizedRunner>>}

VerifyAndSetDistribution(name, type, authorizedRunner) ==
  /\ ~ExistsDistribution(name, type, authorizedRunner)
  /\ SetDistribution(name, type, authorizedRunner)

\* Mutant: the coins of the first output only are collected.
AccumulateDrops_First(distributor, out) ==
  /\ out[1].coins <= funds[distributor]
  /\ funds' = [funds EXCEPT ![distributor] = @ - out[1].coins]
  /\ module' = module + out[1].coins

AccumulateDrops(distributor, out) ==
  /\ TotalOutput(out) <= funds[distributor]
  /\ funds' = [funds EXCEPT ![distributor] = @ - TotalOutput(out)]
  /\ module' = module + TotalOutput(out)

CreateDistribution(distributor, type, out, authorizedRunner) ==
  LET name == <<height, distributor>>
  IN  /\ VerifyAndSetDistribution(name, type, authorizedRunner)
      /\ AccumulateDrops(distributor, out)
      /\ EveryDropHasCoins(name, type, out)
      /\ pending' = Drops(name, type, out)
      /\ runner' = Authorize(name, type, out, authorizedRunner)
      /\ UNCHANGED <<height, paid, completed, failed, claims>>

----------------------------------------------------------------------------
(* Running a distribution.                                                  *)

\* The first records of the runner, in the order of the keys.
GetLimitedRecordsForRunner(name, type, authorizedRunner) ==
  LET matching == {r \in Recipients : /\ pending[<<name, type, r>>] > 0
                                      /\ runner[<<name, type, r>>] = authorizedRunner}
  IN  {r \in matching : Cardinality({q \in matching : q < r}) < MaxRecordsPerBlock}

\* The records that the bank pays.  SendCoinsFromModuleToAccount refuses blocked
\* recipients and what the earlier payments left no coins for.
Pays(sent, chosen, owed) ==
  \A r \in chosen :
    r \in sent <=> /\ r \notin Blocked
                   /\ Weight({q \in sent : q < r}, owed) + owed[r] <= module

\* A record that the status already has under the same key is replaced.
ChangeRecordStatus(store, moved) ==
  [k \in Keys |-> IF k \in moved THEN pending[k] ELSE store[k]]

\* Mutant: the record of a payment stays pending.
DeleteDistributionRecord_Unpaid(moved) ==
  [k \in Keys |-> IF k \in moved /\ k[3] \in Blocked THEN 0 ELSE pending[k]]

\* Mutant: a failed record stays pending as well.
DeleteDistributionRecord_Paid(moved) ==
  [k \in Keys |-> IF k \in moved /\ k[3] \notin Blocked THEN 0 ELSE pending[k]]

DeleteDistributionRecord(moved) ==
  [k \in Keys |-> IF k \in moved THEN 0 ELSE pending[k]]

\* Mutant: the claim goes whether or not the payment succeeds.
DeleteClaims_Early(type, sent, chosen) ==
  claims \ {<<r, type>> : r \in chosen}

\* DeleteClaim, for every payment of a type that supports claims.
DeleteClaims(type, sent, chosen) ==
  IF type \in ClaimTypes THEN claims \ {<<r, type>> : r \in sent} ELSE claims

\* RunDistribution and DistributeDrops: any account may send the message for
\* itself as the runner, for a name that need not exist.
RunDistribution(name, type, authorizedRunner) ==
  LET chosen == GetLimitedRecordsForRunner(name, type, authorizedRunner)
      owed   == [r \in Recipients |-> pending[<<name, type, r>>]]
      KeysOf(S) == {<<name, type, r>> : r \in S}
  IN  \E sent \in SUBSET chosen :
        /\ Pays(sent, chosen, owed)
        /\ module' = module - Weight(sent, owed)
        /\ paid' = [r \in Recipients |-> paid[r] + IF r \in sent THEN owed[r] ELSE 0]
        /\ completed' = ChangeRecordStatus(completed, KeysOf(sent))
        /\ failed' = ChangeRecordStatus(failed, KeysOf(chosen \ sent))
        /\ pending' = DeleteDistributionRecord(KeysOf(chosen))
        /\ runner' = [k \in Keys |-> IF pending'[k] = 0 THEN NoRunner ELSE runner[k]]
        /\ claims' = DeleteClaims(type, sent, chosen)
        /\ UNCHANGED <<height, funds, distributions>>

GetRecords == recordVars

----------------------------------------------------------------------------
(* Claims, blocks and restarts.                                             *)

ExistsClaim(r, type) == <<r, type>> \in claims

SetClaim(r, type) == claims' = claims \cup {<<r, type>>}

CreateUserClaim(r, type) ==
  /\ ~ExistsClaim(r, type)
  /\ SetClaim(r, type)
  /\ UNCHANGED <<height, funds, paid, module, distributions, recordVars>>

NewBlock ==
  /\ height < MaxHeight
  /\ height' = height + 1
  /\ UNCHANGED <<funds, paid, module, distributions, recordVars, claims>>

\* ExportGenesis: the distributions, the records of all three statuses, the claims.
Exported == <<distributions, GetRecords, claims>>

\* InitGenesis on what was exported.  After an export for height zero the
\* heights, and with them the names, begin again.
Restart ==
  /\ height' = 1
  /\ UNCHANGED <<Exported, funds, paid, module>>

DispensationInit ==
  /\ height = 1
  /\ funds \in [Distributors -> {MaxFunds}]
  /\ paid = [r \in Recipients |-> 0]
  /\ module = 0
  /\ distributions = {}
  /\ pending = NoRecords /\ completed = NoRecords /\ failed = NoRecords
  /\ runner = [k \in Keys |-> NoRunner]
  /\ claims = {}

Create ==
  \E d \in Distributors, type \in Types, out \in OutputLists, r \in Runners :
    CreateDistribution(d, type, out, r)

Run == \E name \in Names, type \in Types, r \in Runners : RunDistribution(name, type, r)

Claim == \E r \in Recipients, type \in ClaimTypes : CreateUserClaim(r, type)

DispensationNext == Create \/ Run \/ Claim \/ NewBlock \/ Restart

\* A runner goes on sending its message while records wait for it: each run
\* settles a few, and no block does it by itself.
DispensationFairness ==
  \A name \in Names, type \in Types, r \in Runners :
    WF_dispensationVars(/\ GetLimitedRecordsForRunner(name, type, r) # {}
                        /\ RunDistribution(name, type, r))

DispensationSpec ==
  DispensationInit /\ [][DispensationNext]_dispensationVars /\ DispensationFairness

----------------------------------------------------------------------------
(* Properties.                                                              *)

\* Balances and records are amounts, and exactly the pending records have a runner.
DispensationTypeOK ==
  /\ height \in 1 .. MaxHeight
  /\ funds \in [Distributors -> Nat] /\ paid \in [Recipients -> Nat] /\ module \in Nat
  /\ distributions \subseteq Names \X Types \X Runners
  /\ pending \in Records /\ completed \in Records /\ failed \in Records
  /\ runner \in [Keys -> Runners \cup {NoRunner}]
  /\ \A k \in Keys : pending[k] > 0 <=> runner[k] # NoRunner
  /\ claims \subseteq Recipients \X ClaimTypes

\* The module account always holds the coins of every record still pending and
\* of every record that failed: DistributeDrops (executors.go) can pay them all,
\* in any order and however often names repeat.
PromisesFunded == module >= Weight(Keys, pending) + Weight(Keys, failed)

\* A record fails (executors.go:43) only because the bank refuses its recipient,
\* never because the module account ran out of coins.
OnlyBlockedFail == \A k \in Keys : failed[k] > 0 => k[3] \in Blocked

\* A pending record waits for a runner that a distribution stored for its name
\* and type names, also after a later message took the record over.
RunnerAuthorized ==
  \A k \in Keys : pending[k] > 0 => <<k[1], k[2], runner[k]>> \in distributions

\* A claim disappears only in a step that pays its user a record of its type.
ClaimsEndPaid ==
  [][\A c \in claims \ claims' :
       \E k \in Keys : /\ k[2] = c[2] /\ k[3] = c[1]
                       /\ pending[k] > 0 /\ pending'[k] = 0 /\ completed'[k] = pending[k]
                       /\ paid'[c[1]] = paid[c[1]] + pending[k]]_dispensationVars

\* What one runner leaves pending another account never settles: a step takes
\* coins from records of at most one runner, and at most MaxRecordsPerBlock of them.
OneRunnerAtATime ==
  [][LET settled == {k \in Keys : pending[k] > 0 /\ pending'[k] = 0}
     IN  /\ Cardinality(settled) <= MaxRecordsPerBlock
         /\ Cardinality({<<k[1], k[2], runner[k]>> : k \in settled}) <= 1]_dispensationVars

\* As long as runners run what waits for them, every pending record is settled,
\* the ones behind MaxRecordsPerBlock others and the ones taken over included.
EveryRecordSettled ==
  \A k \in Keys : pending[k] > 0 ~> pending[k] = 0
=============================================================================
