--------------------------- MODULE MCDispensation ---------------------------
(***************************************************************************)
(* Distributions of one distributor with two runners in two blocks, over   *)
(* two recipients of which the bank refuses one.                           *)
(***************************************************************************)
EXTENDS Dispensation

CONSTANTS distributor, runner1, runner2, airdrop, mining, none

MCDistributors == {distributor}
MCRunners == {runner1, runner2}
MCRecipients == 1 .. 2
MCBlocked == {2}
MCTypes == {airdrop, mining}
MCClaimTypes == {mining}
MCAmounts == {0, 1}
=============================================================================
