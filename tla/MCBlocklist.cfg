CONSTANTS
  Addresses = {a1, a2, a3}
  NoOwner = NoOwner
  NoCall = NoCall
  MaxBatch = 2
  Batches <- MCBatches

SPECIFICATION BlocklistSpec

PROPERTY ImplementsAddressSet

\* After renounceOwnership no call succeeds.
CHECK_DEADLOCK FALSE
