--------------------------- MODULE MCIbcTransfer ----------------------------
(* Instances of IbcTransfer for TLC. *)
EXTENDS IbcTransfer, TLC

CONSTANTS u1, admin, c1, c2, ceth, Ceth, xeth, atom, osmo

MCFold == [d \in Denoms |-> IF d = Ceth THEN ceth ELSE d]

\* The registry never lists the token of the second chain.
MCVoucher == c1 :> atom @@ c2 :> osmo

MCAliasOf == xeth :> ceth

MCPrecision == xeth :> 10

MCInitialHeld == [d \in Denoms |-> IF d = ceth THEN 1 ELSE 0]

MCInitialAliases == c1 :> 1 @@ c2 :> 0

Entry(denom, unit, decimals, permissions) ==
  [denom |-> denom, unit |-> unit, decimals |-> decimals, permissions |-> permissions]

CethEntry == Entry(ceth, NoDenom, 18, {"CLP", "IBCEXPORT"})
KeptEntry == Entry(Ceth, Ceth, 18, {"CLP"})
XethEntry == Entry(xeth, ceth, 17, {"IBCEXPORT"})
AtomEntry == Entry(atom, NoDenom, 6, {"IBCEXPORT", "IBCIMPORT"})

MCEntries == {CethEntry, KeptEntry, XethEntry, AtomEntry}

MCInitialList == <<CethEntry, XethEntry, AtomEntry>>

MCLists == {MCInitialList, <<XethEntry, KeptEntry, CethEntry>>}
=============================================================================
