SPECIFICATION RelaySpec
CONSTANTS
  v1 = v1
  v2 = v2
  d1 = d1
  d2 = d2
  c = c
  no = no
  Validators <- MCValidators
  Relayers <- MCRelayers
  Ids <- MCIds
  Refused <- MCRefused
  Contents <- MCContents
  NoClaim = no
  Accounts <- MCAccounts
  Admin = no
  MaxPower = 1
  ConsensusNum = 7
  ConsensusDen = 10
  TrailingBlocks = 1
  MaxBlock = 3
  MaxReorgs = 1
  MaxCrashes = 1
  MaxPending = 1
INVARIANTS
  
  EveryBlockRead
PROPERTIES
  EveryDepositDecided
