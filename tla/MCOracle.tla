------------------------------ MODULE MCOracle ------------------------------
(* Small instances of the oracle for TLC.                                    *)
EXTENDS Oracle, TLC

CONSTANTS v1, v2, v3, c1, c2

\* The validators can be renamed, and so can the contents.
Symmetric == Permutations({v1, v2, v3}) \cup Permutations({c1, c2})
=============================================================================
