------------------------------- MODULE MCClp --------------------------------
(***************************************************************************)
(* Two users, one of them the admin, and two external assets, one with     *)
(* fewer decimals than the native asset.                                   *)
(***************************************************************************)
EXTENDS Clp, TLC

CONSTANTS u1, u2, ceth, cusdc, rowan

MCAccounts == {u1, u2}
MCAdmins == {u1}
MCExternals == {ceth, cusdc}
MCFactor == (ceth :> 1) @@ (cusdc :> 10)
MCAdjust == (ceth :> FALSE) @@ (cusdc :> TRUE)
MCBasisPoints == {2, 4}
MCAsymmetries == {-4, 0, 2}
MCAmounts == {1, 3}
MCMinReceived == {0}
=============================================================================
