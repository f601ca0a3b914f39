--------------------------- MODULE MCEthereumSub ----------------------------
(***************************************************************************)
(* Two validators, both needed to decide, one relayer followed step by     *)
(* step, two deposits that may share a block, one of which cannot be paid, *)
(* a crash and a reorganisation.                                           *)
(***************************************************************************)
EXTENDS EthereumSub

CONSTANTS v1, v2, d1, d2, c, no

MCValidators == {v1, v2}
MCRelayers == {v1}
MCIds == {d1, d2}
MCRefused == {d2}
MCContents == {c}
MCAccounts == {}
=============================================================================
