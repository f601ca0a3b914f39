----------------------------- MODULE WireOracle -----------------------------
(* The messages of x/oracle/types. *)
EXTENDS Wire

----------------------------------------------------------------------------
(* types.pb.go *)

Size_GenesisState ==
  <<Strings(1, "AddressWhitelist"), Bytes(1, "AdminAddress"),
    Messages(1, "Prophecies", "oracle.DBProphecy")>>
Marshal_GenesisState ==
  <<Messages(<<26>>, "Prophecies", "oracle.DBProphecy"), Bytes(<<18>>, "AdminAddress"),
    Strings(<<10>>, "AddressWhitelist")>>
Unmarshal_GenesisState ==
  1 :> Strings(2, "AddressWhitelist") @@ 2 :> Bytes(2, "AdminAddress") @@
  3 :> Messages(2, "Prophecies", "oracle.DBProphecy")

Size_Claim == <<Bytes(1, "Id"), Bytes(1, "ValidatorAddress"), Bytes(1, "Content")>>
Marshal_Claim ==
  <<Bytes(<<26>>, "Content"), Bytes(<<18>>, "ValidatorAddress"), Bytes(<<10>>, "Id")>>
Unmarshal_Claim ==
  1 :> Bytes(2, "Id") @@ 2 :> Bytes(2, "ValidatorAddress") @@ 3 :> Bytes(2, "Content")

Size_DBProphecy ==
  <<Bytes(1, "Id"), Embedded(1, "Status", "oracle.Status"), Bytes(1, "ClaimValidators"),
    Bytes(1, "ValidatorClaims")>>
Marshal_DBProphecy ==
  <<Bytes(<<34>>, "ValidatorClaims"), Bytes(<<26>>, "ClaimValidators"),
    Embedded(<<18>>, "Status", "oracle.Status"), Bytes(<<10>>, "Id")>>
Unmarshal_DBProphecy ==
  1 :> Bytes(2, "Id") @@ 2 :> Embedded(2, "Status", "oracle.Status") @@
  3 :> Bytes(2, "ClaimValidators") @@ 4 :> Bytes(2, "ValidatorClaims")

Size_Status == <<Varint(1, "Text"), Bytes(1, "FinalClaim")>>
Marshal_Status == <<Bytes(<<18>>, "FinalClaim"), Varint(<<8>>, "Text")>>
Unmarshal_Status == 1 :> Varint(0, "Text") @@ 2 :> Bytes(2, "FinalClaim")

----------------------------------------------------------------------------

WireFormat ==
  "oracle.GenesisState" :> Methods(Size_GenesisState, Marshal_GenesisState, Unmarshal_GenesisState) @@
  "oracle.Claim" :> Methods(Size_Claim, Marshal_Claim, Unmarshal_Claim) @@
  "oracle.DBProphecy" :> Methods(Size_DBProphecy, Marshal_DBProphecy, Unmarshal_DBProphecy) @@
  "oracle.Status" :> Methods(Size_Status, Marshal_Status, Unmarshal_Status)
=============================================================================
