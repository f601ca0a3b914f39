SPECIFICATION ClpSpec
CONSTANTS
  u1 = u1
  u2 = u2
  ceth = ceth
  cusdc = cusdc
  rowan = rowan
  Accounts <- MCAccounts
  Admins <- MCAdmins
  Externals <- MCExternals
  Native = rowan
  Factor <- MCFactor
  Adjust <- MCAdjust
  PoolThreshold = 3
  MaxWbasis = 4
  BasisPoints <- MCBasisPoints
  Asymmetries <- MCAsymmetries
  Amounts <- MCAmounts
  MinReceived <- MCMinReceived
  Funds = 6
  MaxMessages = 4
INVARIANTS
  SidesPositive
  
  
PROPERTIES
  BooksKept
  
  
CHECK_DEADLOCK FALSE
