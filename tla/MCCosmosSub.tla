---------------------------- MODULE MCCosmosSub -----------------------------
(* One event, or a second one in the block before the subscription begins; a *)
(* dropped transaction and a crash.                                          *)
EXTENDS CosmosSub

CONSTANTS e1, e2

MCEvents == {e1, e2}
MCChains == {<<<<e2>>, <<e1>>>>, <<<<>>, <<e1>>>>}
MCKey == [e \in MCEvents |-> e]
=============================================================================
