CONSTANTS
  v1 = v1  v2 = v2  alice = alice  admin = admin  mod = mod
  Validators = {v1, v2}
  Contents <- MCContents
  Ids <- MCIds
  NoClaim = NoClaim
  Accounts = {alice, admin}
  Admin = admin
  MaxPower = 1
  ConsensusNum = 7
  ConsensusDen = 10
  Denoms = {"ceth", "rowan"}
  Ceth = "ceth"
  Peg <- MCPeg
  Module = mod
  Blocked = {mod}
  NoAccount = NoAccount
  EthAddresses = {e1}
  ChainIds = {1}
  Nonces = {1}
  EthSenders = {"0xa"}
  InitialBalances <- MCInitialBalances
  InitialPeggy = {}
  GasCost = 1
  Amounts = {0, 1}
  Fees = {0, 1}
  MaxSequence = 1
SPECIFICATION Spec
INVARIANTS BridgeTypeOK SupplyAccounted 
SYMMETRY Symmetry
