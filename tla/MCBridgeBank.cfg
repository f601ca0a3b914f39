CONSTANTS
  Users = {u1}
  Admins = {admin}
  InitialPauser = admin
  Blocklists = {}
  Bank = Bank
  Zero = "address(0)"
  OtherSymbol = "none"
  BridgeSymbol = "tkn"
  ProphecySymbols = {"eth", "tkn"}
  Recipients = {sif, bad}
  SifAddresses = {sif}
  RefuseEther = {}
  Amounts = {1}
  Values = {0, 1, 2}
  MaxLogs = 2
  Symbols <- MCSymbols
  Contracts <- MCContracts
  Tokens <- MCTokens
  BridgeTokens <- MCBridgeTokens
  BridgeTokenOf <- Deployed
  symbolOf <- MCsymbolOf
  toLower <- MCtoLower
  InitialBalances <- MCInitialBalances
  CarefulTokens <- MCCarefulTokens
  TokenLists <- MCTokenLists

SPECIFICATION BankSpec

INVARIANTS
  DepositsBacked
  SupplyLogged
  NoncesIdentifyDeposits
  LockedTokenReachable

