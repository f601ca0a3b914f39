--------------------------- MODULE MCCosmosBridge ---------------------------
(***************************************************************************)
(* The Ethereum side with two or three validators, one user, prophecies of *)
(* each type, and token contracts whose symbols may differ in case only.   *)
(***************************************************************************)
EXTENDS CosmosBridge, TLC

CONSTANTS
  v1, v2, v3, u1,
  ContractSymbols,   \* symbols of the ERC20 contracts that exist
  BurnSymbols        \* symbols of the burn prophecies

MCSymbols == {"eth", "erowan"} \cup (IF ContractSymbols = {} THEN {} ELSE {"TKN", "tkn", "Tkn"})

ContractOf == [s \in ContractSymbols |-> IF s = "TKN" THEN "TKN contract" ELSE "Tkn contract"]

Deployed == [s \in MCSymbols |-> CASE s = "eth" -> "new eth"
                                   [] s = "erowan" -> "new erowan"
                                   [] s = "TKN" -> "new TKN"
                                   [] s = "tkn" -> "new tkn"
                                   [] OTHER -> "new Tkn"]

MCContracts == {ContractOf[s] : s \in ContractSymbols}

MCBridgeTokens == {Deployed[s] : s \in MCSymbols}

MCTokens == MCContracts \cup MCBridgeTokens

MCsymbolOf ==
  [t \in MCTokens |-> CHOOSE s \in MCSymbols : Deployed[s] = t \/ (s \in ContractSymbols /\ ContractOf[s] = t)]

MCtoLower == [s \in MCSymbols |-> IF s \in {"TKN", "Tkn"} THEN "tkn" ELSE s]

MCInitialBalances ==
  [t \in MCTokens \cup {"address(0)"} |->
     [u \in Users |-> IF t \in MCContracts \cup {"address(0)"} THEN 1 ELSE 0]]

MCProphecies ==
  {[claimType |-> "lock", sequence |-> 1, receiver |-> u1, symbol |-> "erowan", amount |-> 1]}
  \cup {[claimType |-> "burn", sequence |-> 1, receiver |-> u1, symbol |-> s, amount |-> 1] : s \in BurnSymbols}

MCTokenLists == {<<t>> : t \in MCContracts}

Entry(v, p) == [validator |-> v, power |-> p]

\* Equal powers, a validator without power, and one that is listed twice.
PairLists == {<<Entry(v1, 1), Entry(v2, 1)>>}

TripleLists == {<<Entry(v1, 1), Entry(v2, 2), Entry(v3, 0)>>, <<Entry(v1, 1), Entry(v2, 1), Entry(v3, 1)>>}

RepeatLists == PairLists \cup {<<Entry(v1, 1), Entry(v2, 0), Entry(v1, 1)>>}
=============================================================================
