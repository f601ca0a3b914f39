---------------------------- MODULE MCBridgeBank ----------------------------
(***************************************************************************)
(* A bank with an ERC20 token TKN, a second ERC20 token that may share its *)
(* symbol, an existing bridge token and the tokens the bank may deploy.    *)
(***************************************************************************)
EXTENDS BridgeBank

CONSTANTS
  OtherSymbol,    \* the symbol of the second ERC20 token, or "none"
  BridgeSymbol    \* the symbol of the existing bridge token

MCSymbols == {"eth", "TKN", "tkn", OtherSymbol, BridgeSymbol} \ {"none"}

MCContracts == {"TKN contract", "bridge contract"}
                 \cup (IF OtherSymbol = "none" THEN {} ELSE {"other contract"})

Deployed == [s \in MCSymbols |-> CASE s = "eth" -> "new eth"
                                   [] s = "TKN" -> "new TKN"
                                   [] s = "tkn" -> "new tkn"
                                   [] s = "erowan" -> "new erowan"
                                   [] OTHER -> "new other"]

MCBridgeTokens == {"bridge contract"} \cup {Deployed[s] : s \in MCSymbols}

MCTokens == MCContracts \cup MCBridgeTokens

MCsymbolOf ==
  [t \in MCTokens |-> CASE t = "TKN contract" -> "TKN"
                        [] t = "other contract" -> OtherSymbol
                        [] t = "bridge contract" -> BridgeSymbol
                        [] OTHER -> CHOOSE s \in MCSymbols : Deployed[s] = t]

MCtoLower == [s \in MCSymbols |-> IF s = "TKN" THEN "tkn" ELSE s]

MCInitialBalances ==
  [t \in MCTokens \cup {"address(0)"} |->
     [u \in Users |-> CASE t = "TKN contract" -> 1
                         [] t = "address(0)" -> 2
                         [] OTHER -> 0]]

MCCarefulTokens == {t \in MCContracts : \A u \in MCContracts : MCtoLower[MCsymbolOf[u]] = MCtoLower[MCsymbolOf[t]] => u = t}

MCTokenLists == {<<"TKN contract", "bridge contract">>}
=============================================================================
