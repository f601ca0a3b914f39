SPECIFICATION CosmosSubSpec
CONSTANTS
  e1 = e1
  e2 = e2
  Events <- MCEvents
  Key <- MCKey
  NoEvent = none
  MaxRetries = 2
  Chains <- MCChains
  MaxNonce = 2
  MaxStops = 1
  MaxDrops = 1
INVARIANTS
  OneTransactionPerCall
  EveryBlockFinished
PROPERTIES
  EverySignatureArrives
CHECK_DEADLOCK FALSE
