----------------------------- MODULE BridgeBank -----------------------------
(***************************************************************************)
(* The contract BridgeBank with the contracts it inherits from: it locks   *)
(* ether and ERC20 tokens, burns and mints bridge tokens, and keeps the    *)
(* white lists and the tables from symbols to token contracts.  Address(0) *)
(* stands for ether in balances and for "no contract" in the tables, as it *)
(* does in the code.  A call that reverts is an action that is not enabled.*)
(***************************************************************************)
EXTENDS Weights, Sequences

CONSTANTS
  Users,            \* Ethereum accounts
  Admins,           \* addresses that may be operator, owner or pauser
  InitialPauser,    \* the pauser given to initialize
  Blocklists,       \* contents that blocklist contracts may have
  Bank,             \* the address of the contract
  Tokens,           \* token contracts, those deployed by the bank included
  Contracts,        \* those that exist when the bank is deployed
  BridgeTokens,     \* those the bank may mint and burn
  Zero,             \* address(0)
  Symbols,          \* strings that are symbols of tokens or of prophecies
  symbolOf,         \* symbolOf[t]: what BridgeToken(t).symbol() returns
  ProphecySymbols,  \* symbols the Cosmos side sends
  toLower,          \* toLower[s]: the symbol in lower case
  BridgeTokenOf,    \* BridgeTokenOf[s]: the contract that is deployed for s
  CarefulTokens,    \* tokens that careful administrators list
  Recipients,       \* recipients of deposits, as bytes
  SifAddresses,     \* those of 42 bytes that begin with "sif"
  RefuseEther,      \* accounts whose code refuses a payment of ether
  Amounts,          \* amounts of calls
  Values,           \* ether sent with a call of lock
  InitialBalances,  \* InitialBalances[t][a]
  TokenLists,       \* arguments of bulkWhitelistUpdateLimits
  MaxLogs           \* bound on the number of logs

Eth == "eth"

NoSymbol == ""

Holders == Users \cup {Bank}

Assets == Tokens \cup {Zero}

ASSUME BankAssumption ==
  /\ IsFiniteSet(Users) /\ Bank \notin Users
  /\ Blocklists \subseteq SUBSET Users
  /\ Zero \notin Tokens
  /\ Contracts \subseteq Tokens /\ BridgeTokens \subseteq Tokens
  /\ Eth \in Symbols /\ NoSymbol \notin Symbols
  /\ ProphecySymbols \subseteq Symbols
  /\ symbolOf \in [Tokens -> Symbols]
  /\ toLower \in [Symbols -> Symbols] /\ \A s \in Symbols : toLower[toLower[s]] = toLower[s]
  /\ \A s \in Symbols \cap {Eth, "erowan"} : toLower[s] = s
  /\ BridgeTokenOf \in [Symbols -> BridgeTokens]
  /\ \A s \in Symbols : symbolOf[BridgeTokenOf[s]] = s
  /\ CarefulTokens \subseteq Contracts
  /\ \A t, u \in CarefulTokens : toLower[symbolOf[t]] = toLower[symbolOf[u]] => t = u
  /\ \A t \in CarefulTokens : toLower[symbolOf[t]] # Eth
  /\ Amounts \subseteq Nat /\ Values \subseteq Nat
  /\ InitialBalances \in [Assets -> [Users -> Nat]]
  /\ TokenLists \subseteq Seq(Tokens)
  /\ MaxLogs \in Nat

VARIABLES
  bankOperator, owner, pausers, paused,
  blocked,                \* accounts the blocklist contract answers true for
  ethWhiteList,           \* tokens that can be locked
  cosmosWhiteList,        \* tokens that can be burned
  lockedTokenList,        \* from the symbol of a locked token to its contract
  controlledBridgeTokens, \* from the symbol of a bridge token to its contract
  lowerToUpperTokens,     \* from a lower case symbol to the symbol as it is written
  lockBurnNonce,
  balances,               \* balances[t][a]
  logs                    \* LogLock, LogBurn, LogUnlock and LogBridgeTokenMint

roleVars == <<bankOperator, owner, pausers, paused, blocked>>
tableVars == <<ethWhiteList, cosmosWhiteList, lockedTokenList, controlledBridgeTokens, lowerToUpperTokens>>
fundVars == <<lockBurnNonce, balances, logs>>
bankVars == <<roleVars, tableVars, fundVars>>

\* A contract has code when it existed before or has been deployed by the bank.
Exists(t) == t \in Contracts \/ (t \in Tokens /\ t \in cosmosWhiteList)

Credit(b, t, a, n) == [b EXCEPT ![t][a] = @ + n]
Debit(b, t, a, n) == [b EXCEPT ![t][a] = @ - n]

Log(type, t, s, a, n, nonce) ==
  [type |-> type, token |-> t, symbol |-> s, account |-> a, amount |-> n, nonce |-> nonce]

\* Mutant: only the blocklist is asked.
Open_WhilePaused(account) == account \notin blocked

\* whenNotPaused and onlyNotBlocklisted.
Open(account) == ~paused /\ account \notin blocked

safeLowerToUpper(table, s) == IF table[s] = NoSymbol THEN s ELSE table[s]

----------------------------------------------------------------------------
(* Deposits.                                                                *)

\* Mutant: the amount is not compared with what is paid.
EtherPaid_AnyAmount(token, amount, value) == token = Zero

\* The requirements on a call that carries ether.
EtherPaid(token, amount, value) == token = Zero /\ value = amount

\* Mutant: a deposit does not advance the nonce.
NextNonce_Same == lockBurnNonce

NextNonce == lockBurnNonce + 1

lockFunds(sender, token, s, amount) ==
  /\ lockBurnNonce' = NextNonce
  /\ lockedTokenList' = [lockedTokenList EXCEPT ![s] = token]
  /\ logs' = Append(logs, Log("lock", token, s, sender, amount, NextNonce))

burnFunds(sender, token, s, amount) ==
  /\ lockBurnNonce' = NextNonce
  /\ logs' = Append(logs, Log("burn", token, s, sender, amount, NextNonce))

\* Ether is paid with the call; an ERC20 token is moved by its contract.
lock(sender, recipient, token, amount, value) ==
  /\ token \in ethWhiteList
  /\ recipient \in SifAddresses
  /\ Open(sender)
  /\ IF value > 0 THEN EtherPaid(token, amount, value) ELSE Exists(token)
  /\ LET s    == IF value > 0 THEN Eth ELSE symbolOf[token]
         paid == IF value > 0 THEN value ELSE amount
     IN  /\ balances[token][sender] >= paid
         /\ balances' = Credit(Debit(balances, token, sender, paid), token, Bank, paid)
         /\ lockFunds(sender, token, s, amount)
  /\ UNCHANGED <<roleVars, ethWhiteList, cosmosWhiteList, controlledBridgeTokens, lowerToUpperTokens>>

\* Mutant: the tokens are taken in as by a lock.
burnFrom_ToBank(token, sender, amount) ==
  Credit(Debit(balances, token, sender, amount), token, Bank, amount)

burnFrom(token, sender, amount) == Debit(balances, token, sender, amount)

burn(sender, recipient, token, amount) ==
  /\ recipient \in SifAddresses
  /\ token \in cosmosWhiteList
  /\ Open(sender)
  /\ Exists(token) /\ token \in BridgeTokens
  /\ balances[token][sender] >= amount
  /\ balances' = burnFrom(token, sender, amount)
  /\ burnFunds(sender, token, symbolOf[token], amount)
  /\ UNCHANGED <<roleVars, tableVars>>

----------------------------------------------------------------------------
(* What the CosmosBridge contract calls.                                    *)

\* The table entries after createNewBridgeToken(s).
WithBridgeToken(s) == [controlledBridgeTokens EXCEPT ![s] = BridgeTokenOf[s]]

\* Mutant: the key is not in lower case.
WithUpper_AsWritten(s) == [lowerToUpperTokens EXCEPT ![s] = s]

WithUpper(s) == [lowerToUpperTokens EXCEPT ![toLower[s]] = s]

setTokenInCosmosWhiteList(token) == cosmosWhiteList' = cosmosWhiteList \cup {token}

createNewBridgeToken(s) ==
  /\ controlledBridgeTokens' = WithBridgeToken(s)
  /\ lowerToUpperTokens' = WithUpper(s)
  /\ setTokenInCosmosWhiteList(BridgeTokenOf[s])

\* mintBridgeTokens, with the tables given because the same transaction may have
\* created the token.
Mint(recipient, _symbol, amount, tokens, uppers) ==
  LET s     == safeLowerToUpper(uppers, _symbol)
      token == tokens[s]
  IN  /\ Open(recipient)
      /\ token \in BridgeTokens
      /\ balances' = Credit(balances, token, recipient, amount)
      /\ logs' = Append(logs, Log("mint", token, s, recipient, amount, 0))

\* The call that pays ether and the transfer of a token fail without the funds.
Affordable(token, amount) == balances[token][Bank] >= amount

\* A symbol without a locked token has the entry address(0) and is paid in ether.
Unlock(recipient, _symbol, amount) ==
  LET s     == safeLowerToUpper(lowerToUpperTokens, _symbol)
      token == lockedTokenList[s]
  IN  /\ Open(recipient)
      /\ token = Zero => recipient \notin RefuseEther
      /\ Affordable(token, amount)
      /\ balances' = Credit(Debit(balances, token, Bank, amount), token, recipient, amount)
      /\ logs' = Append(logs, Log("unlock", token, s, recipient, amount, 0))

mintBridgeTokens(recipient, _symbol, amount) ==
  /\ Mint(recipient, _symbol, amount, controlledBridgeTokens, lowerToUpperTokens)
  /\ UNCHANGED <<roleVars, tableVars, lockBurnNonce>>

unlock(recipient, _symbol, amount) ==
  /\ Unlock(recipient, _symbol, amount)
  /\ UNCHANGED <<roleVars, tableVars, lockBurnNonce>>

----------------------------------------------------------------------------
(* White lists and tables.                                                  *)

setTokenInEthWhiteList(token, inList) ==
  ethWhiteList' = IF inList THEN ethWhiteList \cup {token} ELSE ethWhiteList \ {token}

\* A token may join when no token with its symbol has been locked, and may leave
\* when one has been.
updateEthWhiteList(sender, token, inList) ==
  /\ sender = bankOperator
  /\ Exists(token)
  /\ inList <=> lockedTokenList[symbolOf[token]] = Zero
  /\ lowerToUpperTokens' = WithUpper(symbolOf[token])
  /\ setTokenInEthWhiteList(token, inList)
  /\ UNCHANGED <<roleVars, cosmosWhiteList, lockedTokenList, controlledBridgeTokens, fundVars>>

\* Where the list has its last token with the lower case symbol s.
LastWith(tokens, s) ==
  {i \in DOMAIN tokens : /\ toLower[symbolOf[tokens[i]]] = s
                         /\ \A j \in DOMAIN tokens : toLower[symbolOf[tokens[j]]] = s => j <= i}

bulkWhitelistUpdateLimits(sender, tokens) ==
  /\ sender = bankOperator
  /\ \A i \in DOMAIN tokens : Exists(tokens[i])
  /\ ethWhiteList' = ethWhiteList \cup {tokens[i] : i \in DOMAIN tokens}
  /\ lowerToUpperTokens' =
       [s \in Symbols |-> IF LastWith(tokens, s) = {}
                          THEN lowerToUpperTokens[s]
                          ELSE symbolOf[tokens[CHOOSE i \in LastWith(tokens, s) : TRUE]]]
  /\ UNCHANGED <<roleVars, cosmosWhiteList, lockedTokenList, controlledBridgeTokens, fundVars>>

addExistingBridgeToken(sender, token) ==
  /\ sender = owner
  /\ Exists(token)
  /\ setTokenInCosmosWhiteList(token)
  /\ controlledBridgeTokens' = [controlledBridgeTokens EXCEPT ![symbolOf[token]] = token]
  /\ lowerToUpperTokens' = WithUpper(symbolOf[token])
  /\ UNCHANGED <<roleVars, ethWhiteList, lockedTokenList, fundVars>>

----------------------------------------------------------------------------
(* Roles.                                                                   *)

changeOwner(sender, newOwner) ==
  /\ sender = owner
  /\ owner' = newOwner
  /\ UNCHANGED <<bankOperator, pausers, paused, blocked, tableVars, fundVars>>

changeBankOperator(sender, newOperator) ==
  /\ sender = bankOperator
  /\ bankOperator' = newOperator
  /\ UNCHANGED <<owner, pausers, paused, blocked, tableVars, fundVars>>

\* pause is refused while paused, unpause while not.
togglePause(sender) ==
  /\ sender \in pausers
  /\ paused' = ~paused
  /\ UNCHANGED <<bankOperator, owner, pausers, blocked, tableVars, fundVars>>

addPauser(sender, account) ==
  /\ sender \in pausers
  /\ pausers' = pausers \cup {account}
  /\ UNCHANGED <<bankOperator, owner, paused, blocked, tableVars, fundVars>>

renouncePauser(sender) ==
  /\ pausers' = pausers \ {sender}
  /\ UNCHANGED <<bankOperator, owner, paused, blocked, tableVars, fundVars>>

\* The operator sets another blocklist, with any contents.
setBlocklist(sender, accounts) ==
  /\ sender = bankOperator
  /\ blocked' = accounts
  /\ UNCHANGED <<bankOperator, owner, pausers, paused, tableVars, fundVars>>

----------------------------------------------------------------------------
(* Specifications.                                                          *)

BankInit ==
  /\ bankOperator \in Admins /\ owner \in Admins
  /\ pausers = {InitialPauser}
  /\ paused = FALSE
  /\ blocked = {}
  /\ ethWhiteList = {Zero} /\ cosmosWhiteList = {Zero}
  /\ lockedTokenList = [s \in Symbols |-> Zero]
  /\ controlledBridgeTokens = [s \in Symbols |-> Zero]
  /\ lowerToUpperTokens = [s \in Symbols |-> IF s \in {Eth, "erowan"} THEN s ELSE NoSymbol]
  /\ lockBurnNonce = 0
  /\ balances = [t \in Assets |-> [a \in Holders |-> IF a = Bank THEN 0 ELSE InitialBalances[t][a]]]
  /\ logs = << >>

Deposit ==
  \E sender \in Users, recipient \in Recipients, token \in Assets, amount \in Amounts :
    \/ \E value \in Values : lock(sender, recipient, token, amount, value)
    \/ burn(sender, recipient, token, amount)

Administer ==
  \E sender \in Admins :
    \/ \E token \in Tokens, inList \in BOOLEAN : updateEthWhiteList(sender, token, inList)
    \/ \E tokens \in TokenLists : bulkWhitelistUpdateLimits(sender, tokens)
    \/ \E token \in Tokens : addExistingBridgeToken(sender, token)
    \/ \E admin \in Admins : \/ changeOwner(sender, admin)
                             \/ changeBankOperator(sender, admin)
                             \/ addPauser(sender, admin)
    \/ togglePause(sender)
    \/ renouncePauser(sender)
    \/ \E accounts \in Blocklists : setBlocklist(sender, accounts)

\* The calls of a CosmosBridge whose validators may sign anything: any symbol of a
\* prophecy, any receiver and any amount.
BridgeCalls ==
  \E _symbol \in ProphecySymbols :
    \/ \E recipient \in Users, amount \in Amounts :
         mintBridgeTokens(recipient, _symbol, amount) \/ unlock(recipient, _symbol, amount)
    \/ LET s == safeLowerToUpper(lowerToUpperTokens, _symbol)
       IN  /\ controlledBridgeTokens[s] = Zero
           /\ createNewBridgeToken(s)
           /\ UNCHANGED <<roleVars, ethWhiteList, lockedTokenList, fundVars>>

\* ERC20 transfers that do not go through the bank; ether has no other way in.
Transfer ==
  \E token \in Tokens, from \in Users, to \in Holders, amount \in Amounts :
    /\ balances[token][from] >= amount
    /\ balances' = Credit(Debit(balances, token, from, amount), token, to, amount)
    /\ UNCHANGED <<roleVars, tableVars, lockBurnNonce, logs>>

BankNext ==
  \/ Len(logs) < MaxLogs /\ (Deposit \/ BridgeCalls)
  \/ Administer
  \/ Transfer

BankSpec == BankInit /\ [][BankNext]_bankVars

\* Administrators who only list tokens of CarefulTokens, whose symbols differ from
\* each other and from "eth" also in lower case.
CarefulAdminister ==
  \E sender \in Admins :
    \/ \E token \in CarefulTokens, inList \in BOOLEAN : updateEthWhiteList(sender, token, inList)
    \/ \E tokens \in TokenLists \cap Seq(CarefulTokens) : bulkWhitelistUpdateLimits(sender, tokens)
    \/ \E token \in CarefulTokens : addExistingBridgeToken(sender, token)

----------------------------------------------------------------------------
(* What the bank promises.                                                  *)

Logs ==
  [type : {"lock", "burn", "unlock", "mint"}, token : Assets, symbol : Symbols,
   account : Users, amount : Nat, nonce : Nat]

BankTypeOK ==
  /\ bankOperator \in Admins /\ owner \in Admins /\ pausers \subseteq Admins \cup {InitialPauser} /\ paused \in BOOLEAN
  /\ blocked \subseteq Users
  /\ ethWhiteList \subseteq Assets /\ cosmosWhiteList \subseteq Assets
  /\ lockedTokenList \in [Symbols -> Assets]
  /\ controlledBridgeTokens \in [Symbols -> Assets]
  /\ lowerToUpperTokens \in [Symbols -> Symbols \cup {NoSymbol}]
  /\ lockBurnNonce \in Nat
  /\ balances \in [Assets -> [Holders -> Nat]]
  /\ logs \in Seq(Logs)

\* The sum of the amounts of the logs of one type and token.
Logged(type, token) ==
  Weight({i \in DOMAIN logs : logs[i].type = type /\ logs[i].token = token},
         [i \in DOMAIN logs |-> logs[i].amount])

\* Every deposit that is logged, and so credited on the other chain, is in the bank
\* until an unlock is logged; ether cannot come in any other way (lock, unlock).
DepositsBacked ==
  /\ \A token \in Tokens : balances[token][Bank] + Logged("unlock", token) >= Logged("lock", token)
  /\ balances[Zero][Bank] + Logged("unlock", Zero) = Logged("lock", Zero)

\* The supply of a token is what was there at first, plus what the logs say was
\* minted, minus what they say was burned (mintBridgeTokens, burn).
SupplyLogged ==
  \A token \in Assets :
    Weight(Holders, balances[token]) + Logged("burn", token)
      = Weight(Users, InitialBalances[token]) + Logged("mint", token)

OnlyWhenOpen == logs' # logs => ~paused /\ logs'[Len(logs')].account \notin blocked

\* While the bank is paused no balance changes through it, and a blocked account
\* neither deposits nor receives (whenNotPaused, onlyNotBlocklisted).
FundsFrozen == [][OnlyWhenOpen]_bankVars

\* Nonces grow from deposit to deposit, locks and burns together, so that a nonce
\* and a sender identify a deposit (lockBurnNonce).
NoncesIdentifyDeposits ==
  \A i, j \in DOMAIN logs :
    i < j /\ {logs[i].type, logs[j].type} \subseteq {"lock", "burn"} => logs[i].nonce < logs[j].nonce

\* The tables lead from a symbol to a contract of that symbol, a lower case symbol
\* leads to one that it is the lower case of, and every bridge token that can be
\* minted can be burned again (createNewBridgeToken, addExistingBridgeToken,
\* updateEthWhiteList, lock).
TablesConsistent ==
  \A s \in Symbols :
    /\ lockedTokenList[s] = Zero \/ symbolOf[lockedTokenList[s]] = s
    /\ controlledBridgeTokens[s] = Zero \/ (/\ symbolOf[controlledBridgeTokens[s]] = s
                                            /\ controlledBridgeTokens[s] \in cosmosWhiteList)
    /\ lowerToUpperTokens[s] = NoSymbol \/ toLower[lowerToUpperTokens[s]] = s

SymbolWritten(token) == IF token = Zero THEN Eth ELSE symbolOf[token]

\* No two tokens that were listed or locked have one symbol, and none of those in
\* use have symbols that differ in case only.
SymbolsClear ==
  LET lockable == ethWhiteList \cup {logs[i].token : i \in {j \in DOMAIN logs : logs[j].type = "lock"}}
      used     == lockable \cup cosmosWhiteList
  IN  /\ \A t, u \in lockable : SymbolWritten(t) = SymbolWritten(u) => t = u
      /\ \A t, u \in used : toLower[SymbolWritten(t)] = toLower[SymbolWritten(u)]
                              => SymbolWritten(t) = SymbolWritten(u)

\* What is locked can be unlocked: while symbols are clear, the lower case symbol,
\* which is what the Cosmos side sends back, leads to the token that was locked,
\* whatever is whitelisted, removed, deployed or locked afterwards.
LockedTokenReachable ==
  SymbolsClear =>
    \A i \in DOMAIN logs :
      logs[i].type = "lock" =>
        lockedTokenList[safeLowerToUpper(lowerToUpperTokens, toLower[logs[i].symbol])] = logs[i].token
=============================================================================
