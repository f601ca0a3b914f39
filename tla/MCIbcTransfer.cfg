SPECIFICATION IbcSpec
CONSTANTS
  u1 = u1
  admin = admin
  c1 = c1
  c2 = c2
  ceth = ceth
  Ceth = Ceth
  xeth = xeth
  atom = atom
  osmo = osmo
  NoDenom = NoDenom
  Denoms = {ceth, Ceth, xeth, atom, osmo}
  Fold <- MCFold
  Accounts = {admin, u1}
  AdminAccount = admin
  Entries <- MCEntries
  Lists <- MCLists
  Users = {u1}
  Channels = {c1, c2}
  Voucher <- MCVoucher
  AliasOf <- MCAliasOf
  Precision <- MCPrecision
  InitialHeld <- MCInitialHeld
  InitialAliases <- MCInitialAliases
  InitialList <- MCInitialList
  Amounts = {1}
  MaxPackets = 3
INVARIANTS   CoinsKept
PROPERTY LookupFollowsMessages
CHECK_DEADLOCK FALSE
