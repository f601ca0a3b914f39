CONSTANTS
  v1 = v1  v2 = v2  v3 = v3
  c1 = c1  c2 = c2
  Validators = {v1, v2, v3}
  Contents = {c1, c2}
  Ids = {id1}
  NoClaim = NoClaim
  Accounts = {admin, other}
  Admin = admin
  MaxPower = 4
  ConsensusNum = 7
  ConsensusDen = 10
SPECIFICATION OracleSpec
SYMMETRY Symmetric
INVARIANTS  ListedOutcomeUnique
PROPERTIES DecisionsAndVotesKept SuccessBacked DecidedExactly
