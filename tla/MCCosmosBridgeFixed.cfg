CONSTANTS
  v1 = v1  v2 = v2  v3 = v3  u1 = u1
  Validators = {v1, v2, v3}
  Operators = {op}
  ValsetLists <- TripleLists
  MaxPower = 2
  MaxVersion = 1
  MaxCount = 3
  consensusThreshold = 70
  Users = {u1}
  Admins = {admin}
  InitialPauser = admin
  Blocklists = {}
  Bank = Bank
  Zero = "address(0)"
  ContractSymbols = {"TKN"}
  BurnSymbols = {"eth", "tkn"}
  ProphecySymbols = {"eth", "erowan", "tkn"}
  Recipients = {sif}
  SifAddresses = {sif}
  RefuseEther = {}
  Amounts = {1}
  Values = {0, 1}
  MaxLogs = 2
  CarefulTokens <- MCContracts
  TokenLists <- MCTokenLists
  Symbols <- MCSymbols
  Contracts <- MCContracts
  Tokens <- MCTokens
  BridgeTokens <- MCBridgeTokens
  BridgeTokenOf <- Deployed
  symbolOf <- MCsymbolOf
  toLower <- MCtoLower
  InitialBalances <- MCInitialBalances
  Prophecies <- MCProphecies

SPECIFICATION FixedSpec

INVARIANT EtherOnlyForEth

PROPERTIES
  ActiveSignersDecide
  
