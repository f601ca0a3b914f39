SPECIFICATION DispensationSpec
CONSTANTS
  distributor = distributor
  runner1 = runner1
  runner2 = runner2
  airdrop = airdrop
  mining = mining
  none = none
  NoRunner = none
  Distributors <- MCDistributors
  Runners <- MCRunners
  Recipients <- MCRecipients
  Blocked <- MCBlocked
  Types <- MCTypes
  ClaimTypes <- MCClaimTypes
  Amounts <- MCAmounts
  MaxRecordsPerBlock = 1
  MaxOutputs = 2
  MaxFunds = 2
  MaxHeight = 2
INVARIANTS  PromisesFunded OnlyBlockedFail
PROPERTIES ClaimsEndPaid  EveryRecordSettled
