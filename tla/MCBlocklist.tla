----------------------------- MODULE MCBlocklist -----------------------------
(***************************************************************************)
(* The blocklist with three addresses and every batch of up to MaxBatch.   *)
(***************************************************************************)
EXTENDS Blocklist

CONSTANT MaxBatch

MCBatches == UNION {[1 .. n -> Addresses] : n \in 0 .. MaxBatch}
=============================================================================
