CONSTANTS
  v1 = v1  v2 = v2  v3 = v3  u1 = u1
  Validators = {v1, v2}
  Operators = {op}
  ValsetLists <- RepeatLists
  MaxPower = 1
  MaxVersion = 2
  MaxCount = 2
  consensusThreshold = 70
  Users = {u1}
  Admins = {admin}
  InitialPauser = admin
  Blocklists = {{u1}}
  Bank = Bank
  Zero = "address(0)"
  ContractSymbols = {}
  BurnSymbols = {"eth"}
  ProphecySymbols = {"eth", "erowan"}
  Recipients = {sif}
  SifAddresses = {sif}
  RefuseEther = {}
  Amounts = {1}
  Values = {0, 1}
  MaxLogs = 1
  CarefulTokens = {}
  TokenLists = {}
  Symbols <- MCSymbols
  Contracts <- MCContracts
  Tokens <- MCTokens
  BridgeTokens <- MCBridgeTokens
  BridgeTokenOf <- Deployed
  symbolOf <- MCsymbolOf
  toLower <- MCtoLower
  InitialBalances <- MCInitialBalances
  Prophecies <- MCProphecies

SPECIFICATION SteadySpec

INVARIANTS
  CompletedOnce
  

PROPERTY FundsFrozen
