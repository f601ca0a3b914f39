----------------------------- MODULE EthBridge -----------------------------
(***************************************************************************)
(* The ethbridge module of the chain (x/ethbridge) on top of the oracle.   *)
(* Validators report what happened on Ethereum; a report that reaches      *)
(* consensus mints coins.  Accounts lock or burn coins; the coins are      *)
(* destroyed and an event is emitted that the relayers carry to Ethereum.  *)
(* A handler that fails or panics leaves no trace (the transaction is      *)
(* rolled back), so it is an action that is not enabled.                   *)
(***************************************************************************)
EXTENDS Oracle, Sequences

CONSTANTS
  Denoms,            \* coin denominations
  Ceth,              \* the one in which fees are paid
  Peg,               \* Peg[s]: denomination of the pegged token of symbol s
  Module,            \* the account of the ethbridge module
  Blocked,           \* accounts that may not receive coins from a module
  NoAccount,         \* no ceth receiver account is set
  EthAddresses,      \* receivers on Ethereum
  ChainIds, Nonces, EthSenders,   \* what identifies a claim
  InitialBalances,   \* balances at genesis
  InitialPeggy,      \* peggy tokens at genesis
  GasCost,           \* lockGasCost and burnGasCost
  Amounts, Fees,     \* amounts and fees of messages
  MaxSequence        \* bound on the number of transactions of an account

Holders == Accounts \cup {Module}

ASSUME EthBridgeAssumption ==
  /\ IsFiniteSet(Accounts)
  /\ Module \notin Accounts
  /\ NoAccount \notin Accounts
  /\ Admin \in Accounts
  /\ Blocked \subseteq Holders
  /\ Module \in Blocked
  /\ Ceth \in Denoms
  /\ Amounts \subseteq Nat
  /\ Fees \subseteq Nat
  /\ GasCost \in Nat
  /\ MaxSequence \in Nat
  /\ IsFiniteSet(Ids)
  /\ InitialBalances \in [Holders -> [Denoms -> Nat]]
  /\ \A d \in Denoms \ {Ceth} : InitialBalances[Module][d] = 0
  /\ InitialPeggy \subseteq Denoms
  /\ \A c \in Contents : /\ c.claimType \in {"lock", "burn"}
                         /\ c.amount \in Nat
                         /\ c.receiver \in Holders
                         /\ c.claimType = "lock" => Peg[c.symbol] \in Denoms
                         /\ c.claimType = "burn" => c.symbol \in Denoms

VARIABLES
  balances,       \* balances[a][d], kept by the bank module
  peggyTokens,    \* denominations of pegged tokens
  cethReceiver,   \* the account fees go to, or NoAccount
  blacklist,      \* Ethereum addresses nothing is sent to
  sequence,       \* the account sequences, kept by the auth module
  events          \* the lock and burn events emitted so far

bridgeVars == <<balances, peggyTokens, cethReceiver, blacklist, sequence, events>>
vars == <<oracleVars, bridgeVars>>

Messages == [type : {"lock", "burn"}, denom : Denoms, amount : Amounts,
             fee : Fees, receiver : EthAddresses]

Events == [type : {"lock", "burn"}, sender : Accounts, sequence : Nat,
           receiver : EthAddresses, denom : Denoms, amount : Amounts]

----------------------------------------------------------------------------
(* The bank.                                                                *)

Send(b, from, to, d, n) == [[b EXCEPT ![from][d] = @ - n] EXCEPT ![to][d] = @ + n]

MintCoins(b, d, n) == [b EXCEPT ![Module][d] = @ + n]

BurnCoins(b, d, n) == [b EXCEPT ![Module][d] = @ - n]

----------------------------------------------------------------------------
(* Lock and burn.                                                           *)

\* Fees stay in the module's account until a receiver is set.
FeeAccount == IF cethReceiver = NoAccount THEN Module ELSE cethReceiver

AfterFee(b, sender, m) == Send(b, sender, FeeAccount, Ceth, m.fee)

\* Mutant: the amount is compared with the balance before the fee was taken.
MessageOK_BeforeFee(b, sender, m) ==
  /\ m.amount > 0
  /\ m.fee >= GasCost
  /\ m.type = "lock" <=> m.denom \notin peggyTokens
  /\ m.receiver \notin blacklist
  /\ ~(m.type = "lock" /\ m.denom = Ceth /\ cethReceiver = NoAccount)
  /\ b[sender][Ceth] >= m.fee
  /\ b[sender][m.denom] >= m.amount

\* ValidateBasic, the check of the peggy token list by Lock and Burn, and the
\* errors of ProcessLock and ProcessBurn.  Locking ceth panics while no receiver
\* is set: NewCoins refuses two coins of one denomination.
MessageOK(b, sender, m) ==
  /\ m.amount > 0
  /\ m.fee >= GasCost
  /\ m.type = "lock" <=> m.denom \notin peggyTokens
  /\ m.receiver \notin blacklist
  /\ ~(m.type = "lock" /\ m.denom = Ceth /\ cethReceiver = NoAccount)
  /\ b[sender][Ceth] >= m.fee
  /\ AfterFee(b, sender, m)[sender][m.denom] >= m.amount

\* Mutant: the coins stay in the module's account.
ProcessMessage_NotBurned(b, sender, m) ==
  Send(AfterFee(b, sender, m), sender, Module, m.denom, m.amount)

\* The fee goes to its account, the amount to the module, which destroys it.
ProcessMessage(b, sender, m) ==
  BurnCoins(Send(AfterFee(b, sender, m), sender, Module, m.denom, m.amount),
            m.denom, m.amount)

EventOf(sender, seq, m) ==
  [type |-> m.type, sender |-> sender, sequence |-> seq, receiver |-> m.receiver,
   denom |-> m.denom, amount |-> m.amount]

\* A transaction increments the sequence of its sender once, before its
\* messages are handled.
NextSequence(sender) ==
  /\ sequence[sender] < MaxSequence
  /\ sequence' = [sequence EXCEPT ![sender] = @ + 1]

\* A transaction with one message.
LockOrBurn(sender, m) ==
  /\ NextSequence(sender)
  /\ MessageOK(balances, sender, m)
  /\ balances' = ProcessMessage(balances, sender, m)
  /\ events' = Append(events, EventOf(sender, sequence[sender] + 1, m))
  /\ UNCHANGED <<oracleVars, peggyTokens, cethReceiver, blacklist>>

\* A transaction with two messages; if the second one fails, so does the first.
LockOrBurnTwice(sender, m, n) ==
  LET b == ProcessMessage(balances, sender, m)
  IN  /\ NextSequence(sender)
      /\ MessageOK(balances, sender, m)
      /\ MessageOK(b, sender, n)
      /\ balances' = ProcessMessage(b, sender, n)
      /\ events' = Append(Append(events, EventOf(sender, sequence[sender] + 1, m)),
                          EventOf(sender, sequence[sender] + 1, n))
      /\ UNCHANGED <<oracleVars, peggyTokens, cethReceiver, blacklist>>

\* Any other transaction of the account, failed ones included.
OtherTransaction(sender) ==
  /\ NextSequence(sender)
  /\ UNCHANGED <<oracleVars, balances, peggyTokens, cethReceiver, blacklist, events>>

----------------------------------------------------------------------------
(* Claims.                                                                  *)

Digit == <<"0", "1", "2", "3", "4", "5", "6", "7", "8", "9">>

\* FormatInt(n, 10)
Decimal[n \in Nat] ==
  IF n < 10 THEN <<Digit[n + 1]>> ELSE Decimal[n \div 10] \o <<Digit[(n % 10) + 1]>>

\* The identifier is the concatenation, without separators, of the decimal
\* chain identifier and nonce and the sender's address.
OracleID(chain, nonce, ethSender) == Decimal[chain] \o Decimal[nonce] \o <<ethSender>>

ASSUME OracleIDAssumption ==
  \A chain \in ChainIds, nonce \in Nonces, s \in EthSenders : OracleID(chain, nonce, s) \in Ids

MintDenom(content) ==
  IF content.claimType = "lock" THEN Peg[content.symbol] ELSE content.symbol

\* Mutant: a failed transfer is ignored and the vote that decided is kept.
ProcessSuccessfulClaim_Ignored(content) ==
  LET d == MintDenom(content)
  IN  /\ peggyTokens' = IF content.claimType = "lock" THEN peggyTokens \cup {d} ELSE peggyTokens
      /\ balances' = IF content.receiver \in Blocked
                       THEN balances
                       ELSE Send(MintCoins(balances, d, content.amount),
                                 Module, content.receiver, d, content.amount)

\* SendCoinsFromModuleToAccount refuses blocked receivers and the code panics.
ProcessSuccessfulClaim(content) ==
  LET d == MintDenom(content)
  IN  /\ content.receiver \notin Blocked
      /\ peggyTokens' = IF content.claimType = "lock" THEN peggyTokens \cup {d} ELSE peggyTokens
      /\ balances' = Send(MintCoins(balances, d, content.amount),
                          Module, content.receiver, d, content.amount)

CreateEthBridgeClaim(v, id, content) ==
  /\ ProcessClaim(v, id, content)
  /\ IF prophecies'[id].status = "success"
       THEN ProcessSuccessfulClaim(prophecies'[id].finalClaim)
       ELSE UNCHANGED <<balances, peggyTokens>>
  /\ UNCHANGED <<cethReceiver, blacklist, sequence, events>>

----------------------------------------------------------------------------
(* Administration, genesis and the staking module.                          *)

UpdateWhiteListValidator(sender, v, operation) ==
  /\ ProcessUpdateWhiteListValidator(sender, v, operation)
  /\ UNCHANGED bridgeVars

UpdateCethReceiverAccount(sender, account) ==
  /\ sender = Admin
  /\ cethReceiver' = account
  /\ UNCHANGED <<oracleVars, balances, peggyTokens, blacklist, sequence, events>>

RescueCeth(sender, receiver, n) ==
  /\ sender = Admin
  /\ receiver \notin Blocked
  /\ balances[Module][Ceth] >= n
  /\ balances' = Send(balances, Module, receiver, Ceth, n)
  /\ UNCHANGED <<oracleVars, peggyTokens, cethReceiver, blacklist, sequence, events>>

\* The addresses that are not in the message are removed, the others are set.
SetBlacklist(sender, addresses) ==
  /\ sender = Admin
  /\ blacklist' = addresses
  /\ UNCHANGED <<oracleVars, balances, peggyTokens, cethReceiver, sequence, events>>

\* Export of the state and start of a new chain from it.  The oracle's whitelist,
\* admin and prophecies, the peggy tokens and the receiver are carried over; the
\* blacklist is not part of the genesis state.
Restart ==
  /\ blacklist' = {}
  /\ UNCHANGED <<oracleVars, balances, peggyTokens, cethReceiver, sequence, events>>

BridgeStaking == Staking /\ UNCHANGED bridgeVars

----------------------------------------------------------------------------
(* Specifications.                                                          *)

BridgeInit ==
  /\ balances = InitialBalances
  /\ peggyTokens = InitialPeggy
  /\ cethReceiver \in Accounts \cup {NoAccount}
  /\ blacklist = {}
  /\ sequence = [a \in Accounts |-> 0]
  /\ events = <<>>

Init == OracleInit /\ BridgeInit

Claims ==
  \E v \in Validators, chain \in ChainIds, nonce \in Nonces, s \in EthSenders,
     content \in Contents : CreateEthBridgeClaim(v, OracleID(chain, nonce, s), content)

Administration ==
  \E sender \in Accounts :
    \/ \E v \in Validators, operation \in {"add", "remove"} :
         UpdateWhiteListValidator(sender, v, operation)
    \/ \E account \in Accounts : UpdateCethReceiverAccount(sender, account)
    \/ \E receiver \in Holders, n \in Amounts : RescueCeth(sender, receiver, n)
    \/ \E addresses \in SUBSET EthAddresses : SetBlacklist(sender, addresses)

Next ==
  \/ Claims
  \/ \E sender \in Accounts, m \in Messages : LockOrBurn(sender, m)
  \/ \E sender \in Accounts, m, n \in Messages : LockOrBurnTwice(sender, m, n)
  \/ \E sender \in Accounts : OtherTransaction(sender)
  \/ Administration
  \/ Restart
  \/ BridgeStaking

Spec == Init /\ [][Next]_vars

----------------------------------------------------------------------------
(* What the bridge promises.                                                *)

\* No balance is ever negative, also when fee and amount of a message are paid in
\* one denomination and a transaction has several messages.
BridgeTypeOK ==
  /\ balances \in [Holders -> [Denoms -> Nat]]
  /\ peggyTokens \subseteq Denoms
  /\ cethReceiver \in Accounts \cup {NoAccount}
  /\ blacklist \subseteq EthAddresses
  /\ sequence \in [Accounts -> 0 .. MaxSequence]
  /\ events \in Seq(Events)

SupplyIn(b, d) == Weight(Holders, [h \in Holders |-> b[h][d]])

SuccessfulMints(p, d) ==
  {id \in Ids : p[id].status = "success" /\ MintDenom(p[id].finalClaim) = d}

MintedIn(p, d) == Weight(SuccessfulMints(p, d), [id \in Ids |-> p[id].finalClaim.amount])

DestroyedIn(evs, d) ==
  Weight({i \in DOMAIN evs : evs[i].denom = d}, [i \in DOMAIN evs |-> evs[i].amount])

\* Coins appear and disappear only with their counterpart: the supply of every
\* denomination is the one at genesis, plus the amounts of the prophecies that
\* succeeded, each once, minus the amounts of the lock and burn events.  A
\* prophecy therefore never succeeds without its mint (CreateEthBridgeClaim
\* rolls the vote back when the mint fails), and no event is emitted for coins
\* that still exist.
SupplyAccounted ==
  \A d \in Denoms :
    SupplyIn(balances, d) + DestroyedIn(events, d)
      = SupplyIn(InitialBalances, d) + MintedIn(prophecies, d)

\* The module's account only ever holds fees: what ProcessLock and ProcessBurn
\* take and what ProcessSuccessfulClaim mints passes through it within one
\* transaction, also when fee and amount are of one denomination.
ModuleHoldsOnlyFees == \A d \in Denoms \ {Ceth} : balances[Module][d] = 0
=============================================================================
