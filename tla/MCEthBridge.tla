---------------------------- MODULE MCEthBridge ----------------------------
(* Small instances of the bridge module for TLC.                             *)
EXTENDS EthBridge, TLC

CONSTANTS v1, v2, alice, admin, mod

\* Two claims that contradict each other, and one that cannot be paid out.
MCContents ==
  { [receiver |-> alice, amount |-> 1, symbol |-> "eth", claimType |-> "lock"],
    [receiver |-> alice, amount |-> 2, symbol |-> "rowan", claimType |-> "burn"],
    [receiver |-> mod, amount |-> 1, symbol |-> "eth", claimType |-> "lock"] }

Symmetry == Permutations(Validators)

MCPeg == [s \in {"eth"} |-> "ceth"]

MCIds == {OracleID(c, n, s) : c \in ChainIds, n \in Nonces, s \in EthSenders}

MCInitialBalances ==
  [h \in Holders |-> [d \in Denoms |->
     IF h = alice THEN IF d = "ceth" THEN 3 ELSE 2 ELSE 0]]
=============================================================================
