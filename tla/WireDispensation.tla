-------------------------- MODULE WireDispensation --------------------------
(* The messages of x/dispensation/types. *)
EXTENDS Wire

----------------------------------------------------------------------------
(* query.pb.go *)

Size_QueryAllDistributionsRequest == NoFields
Marshal_QueryAllDistributionsRequest == NoFields
Unmarshal_QueryAllDistributionsRequest == NoFields

Size_QueryAllDistributionsResponse ==
  <<Messages(1, "Distributions", "dispensation.Distribution"), Varint(1, "Height")>>
Marshal_QueryAllDistributionsResponse ==
  <<Varint(<<16>>, "Height"), Messages(<<10>>, "Distributions", "dispensation.Distribution")>>
Unmarshal_QueryAllDistributionsResponse ==
  1 :> Messages(2, "Distributions", "dispensation.Distribution") @@ 2 :> Varint(0, "Height")

Size_QueryRecordsByDistributionNameRequest == <<Bytes(1, "DistributionName"), Varint(1, "Status")>>
Marshal_QueryRecordsByDistributionNameRequest ==
  <<Varint(<<16>>, "Status"), Bytes(<<10>>, "DistributionName")>>
Unmarshal_QueryRecordsByDistributionNameRequest ==
  1 :> Bytes(2, "DistributionName") @@ 2 :> Varint(0, "Status")

Size_QueryRecordsByDistributionNameResponse ==
  <<Message(1, "DistributionRecords", "dispensation.DistributionRecords"), Varint(1, "Height")>>
Marshal_QueryRecordsByDistributionNameResponse ==
  <<Varint(<<16>>, "Height"),
    Message(<<10>>, "DistributionRecords", "dispensation.DistributionRecords")>>
Unmarshal_QueryRecordsByDistributionNameResponse ==
  1 :> Message(2, "DistributionRecords", "dispensation.DistributionRecords") @@
  2 :> Varint(0, "Height")

Size_QueryRecordsByRecipientAddrRequest == <<Bytes(1, "Address")>>
Marshal_QueryRecordsByRecipientAddrRequest == <<Bytes(<<10>>, "Address")>>
Unmarshal_QueryRecordsByRecipientAddrRequest == 1 :> Bytes(2, "Address")

Size_QueryRecordsByRecipientAddrResponse ==
  <<Message(1, "DistributionRecords", "dispensation.DistributionRecords"), Varint(1, "Height")>>
Marshal_QueryRecordsByRecipientAddrResponse ==
  <<Varint(<<16>>, "Height"),
    Message(<<10>>, "DistributionRecords", "dispensation.DistributionRecords")>>
Unmarshal_QueryRecordsByRecipientAddrResponse ==
  1 :> Message(2, "DistributionRecords", "dispensation.DistributionRecords") @@
  2 :> Varint(0, "Height")

Size_QueryClaimsByTypeRequest == <<Varint(1, "UserClaimType")>>
Marshal_QueryClaimsByTypeRequest == <<Varint(<<8>>, "UserClaimType")>>
Unmarshal_QueryClaimsByTypeRequest == 1 :> Varint(0, "UserClaimType")

Size_QueryClaimsResponse == <<Messages(1, "Claims", "dispensation.UserClaim"), Varint(1, "Height")>>
Marshal_QueryClaimsResponse ==
  <<Varint(<<16>>, "Height"), Messages(<<10>>, "Claims", "dispensation.UserClaim")>>
Unmarshal_QueryClaimsResponse ==
  1 :> Messages(2, "Claims", "dispensation.UserClaim") @@ 2 :> Varint(0, "Height")

----------------------------------------------------------------------------
(* tx.pb.go *)

Size_MsgCreateDistribution ==
  <<Bytes(1, "Distributor"), Bytes(1, "AuthorizedRunner"), Varint(1, "DistributionType"),
    Customs(1, "Output")>>
Marshal_MsgCreateDistribution ==
  <<Customs(<<34>>, "Output"), Varint(<<24>>, "DistributionType"),
    Bytes(<<18>>, "AuthorizedRunner"), Bytes(<<10>>, "Distributor")>>
Unmarshal_MsgCreateDistribution ==
  1 :> Bytes(2, "Distributor") @@ 2 :> Bytes(2, "AuthorizedRunner") @@
  3 :> Varint(0, "DistributionType") @@ 4 :> Customs(2, "Output")

Size_MsgCreateDistributionResponse == NoFields
Marshal_MsgCreateDistributionResponse == NoFields
Unmarshal_MsgCreateDistributionResponse == NoFields

Size_MsgCreateClaimResponse == NoFields
Marshal_MsgCreateClaimResponse == NoFields
Unmarshal_MsgCreateClaimResponse == NoFields

Size_MsgRunDistributionResponse == NoFields
Marshal_MsgRunDistributionResponse == NoFields
Unmarshal_MsgRunDistributionResponse == NoFields

Size_MsgCreateUserClaim == <<Bytes(1, "UserClaimAddress"), Varint(1, "UserClaimType")>>
Marshal_MsgCreateUserClaim == <<Varint(<<16>>, "UserClaimType"), Bytes(<<10>>, "UserClaimAddress")>>
Unmarshal_MsgCreateUserClaim == 1 :> Bytes(2, "UserClaimAddress") @@ 2 :> Varint(0, "UserClaimType")

Size_MsgRunDistribution ==
  <<Bytes(1, "AuthorizedRunner"), Bytes(1, "DistributionName"), Varint(1, "DistributionType")>>
Marshal_MsgRunDistribution ==
  <<Varint(<<24>>, "DistributionType"), Bytes(<<18>>, "DistributionName"),
    Bytes(<<10>>, "AuthorizedRunner")>>
Unmarshal_MsgRunDistribution ==
  1 :> Bytes(2, "AuthorizedRunner") @@ 2 :> Bytes(2, "DistributionName") @@
  3 :> Varint(0, "DistributionType")

----------------------------------------------------------------------------
(* types.pb.go *)

Size_GenesisState ==
  <<Message(1, "DistributionRecords", "dispensation.DistributionRecords"),
    Message(1, "Distributions", "dispensation.Distributions"),
    Message(1, "Claims", "dispensation.UserClaims")>>
Marshal_GenesisState ==
  <<Message(<<26>>, "Claims", "dispensation.UserClaims"),
    Message(<<18>>, "Distributions", "dispensation.Distributions"),
    Message(<<10>>, "DistributionRecords", "dispensation.DistributionRecords")>>
Unmarshal_GenesisState ==
  1 :> Message(2, "DistributionRecords", "dispensation.DistributionRecords") @@
  2 :> Message(2, "Distributions", "dispensation.Distributions") @@
  3 :> Message(2, "Claims", "dispensation.UserClaims")

Size_DistributionRecord ==
  <<Varint(1, "DistributionStatus"), Varint(1, "DistributionType"), Bytes(1, "DistributionName"),
    Bytes(1, "RecipientAddress"), Customs(1, "Coins"), Varint(1, "DistributionStartHeight"),
    Varint(1, "DistributionCompletedHeight"), Bytes(1, "AuthorizedRunner")>>
Marshal_DistributionRecord ==
  <<Bytes(<<66>>, "AuthorizedRunner"), Varint(<<56>>, "DistributionCompletedHeight"),
    Varint(<<48>>, "DistributionStartHeight"), Customs(<<42>>, "Coins"),
    Bytes(<<34>>, "RecipientAddress"), Bytes(<<26>>, "DistributionName"),
    Varint(<<16>>, "DistributionType"), Varint(<<8>>, "DistributionStatus")>>
Unmarshal_DistributionRecord ==
  1 :> Varint(0, "DistributionStatus") @@ 2 :> Varint(0, "DistributionType") @@
  3 :> Bytes(2, "DistributionName") @@ 4 :> Bytes(2, "RecipientAddress") @@
  5 :> Customs(2, "Coins") @@ 6 :> Varint(0, "DistributionStartHeight") @@
  7 :> Varint(0, "DistributionCompletedHeight") @@ 8 :> Bytes(2, "AuthorizedRunner")

Size_DistributionRecords ==
  <<Messages(1, "DistributionRecords", "dispensation.DistributionRecord")>>
Marshal_DistributionRecords ==
  <<Messages(<<10>>, "DistributionRecords", "dispensation.DistributionRecord")>>
Unmarshal_DistributionRecords ==
  1 :> Messages(2, "DistributionRecords", "dispensation.DistributionRecord")

Size_Distributions == <<Messages(1, "Distributions", "dispensation.Distribution")>>
Marshal_Distributions == <<Messages(<<10>>, "Distributions", "dispensation.Distribution")>>
Unmarshal_Distributions == 1 :> Messages(2, "Distributions", "dispensation.Distribution")

Size_Distribution ==
  <<Varint(1, "DistributionType"), Bytes(1, "DistributionName"), Bytes(1, "Runner")>>
Marshal_Distribution ==
  <<Bytes(<<26>>, "Runner"), Bytes(<<18>>, "DistributionName"),
    Varint(<<8>>, "DistributionType")>>
Unmarshal_Distribution ==
  1 :> Varint(0, "DistributionType") @@ 2 :> Bytes(2, "DistributionName") @@
  3 :> Bytes(2, "Runner")

Size_UserClaim ==
  <<Bytes(1, "UserAddress"), Varint(1, "UserClaimType"), OptCustom(1, "UserClaimTime")>>
Marshal_UserClaim ==
  <<OptCustom(<<26>>, "UserClaimTime"), Varint(<<16>>, "UserClaimType"),
    Bytes(<<10>>, "UserAddress")>>
Unmarshal_UserClaim ==
  1 :> Bytes(2, "UserAddress") @@ 2 :> Varint(0, "UserClaimType") @@
  3 :> OptCustom(2, "UserClaimTime")

Size_UserClaims == <<Messages(1, "UserClaims", "dispensation.UserClaim")>>
Marshal_UserClaims == <<Messages(<<10>>, "UserClaims", "dispensation.UserClaim")>>
Unmarshal_UserClaims == 1 :> Messages(2, "UserClaims", "dispensation.UserClaim")

----------------------------------------------------------------------------

WireFormat ==
  "dispensation.QueryAllDistributionsRequest" :> Methods(Size_QueryAllDistributionsRequest, Marshal_QueryAllDistributionsRequest, Unmarshal_QueryAllDistributionsRequest) @@
  "dispensation.QueryAllDistributionsResponse" :> Methods(Size_QueryAllDistributionsResponse, Marshal_QueryAllDistributionsResponse, Unmarshal_QueryAllDistributionsResponse) @@
  "dispensation.QueryRecordsByDistributionNameRequest" :> Methods(Size_QueryRecordsByDistributionNameRequest, Marshal_QueryRecordsByDistributionNameRequest, Unmarshal_QueryRecordsByDistributionNameRequest) @@
  "dispensation.QueryRecordsByDistributionNameResponse" :> Methods(Size_QueryRecordsByDistributionNameResponse, Marshal_QueryRecordsByDistributionNameResponse, Unmarshal_QueryRecordsByDistributionNameResponse) @@
  "dispensation.QueryRecordsByRecipientAddrRequest" :> Methods(Size_QueryRecordsByRecipientAddrRequest, Marshal_QueryRecordsByRecipientAddrRequest, Unmarshal_QueryRecordsByRecipientAddrRequest) @@
  "dispensation.QueryRecordsByRecipientAddrResponse" :> Methods(Size_QueryRecordsByRecipientAddrResponse, Marshal_QueryRecordsByRecipientAddrResponse, Unmarshal_QueryRecordsByRecipientAddrResponse) @@
  "dispensation.QueryClaimsByTypeRequest" :> Methods(Size_QueryClaimsByTypeRequest, Marshal_QueryClaimsByTypeRequest, Unmarshal_QueryClaimsByTypeRequest) @@
  "dispensation.QueryClaimsResponse" :> Methods(Size_QueryClaimsResponse, Marshal_QueryClaimsResponse, Unmarshal_QueryClaimsResponse) @@
  "dispensation.MsgCreateDistribution" :> Methods(Size_MsgCreateDistribution, Marshal_MsgCreateDistribution, Unmarshal_MsgCreateDistribution) @@
  "dispensation.MsgCreateDistributionResponse" :> Methods(Size_MsgCreateDistributionResponse, Marshal_MsgCreateDistributionResponse, Unmarshal_MsgCreateDistributionResponse) @@
  "dispensation.MsgCreateClaimResponse" :> Methods(Size_MsgCreateClaimResponse, Marshal_MsgCreateClaimResponse, Unmarshal_MsgCreateClaimResponse) @@
  "dispensation.MsgRunDistributionResponse" :> Methods(Size_MsgRunDistributionResponse, Marshal_MsgRunDistributionResponse, Unmarshal_MsgRunDistributionResponse) @@
  "dispensation.MsgCreateUserClaim" :> Methods(Size_MsgCreateUserClaim, Marshal_MsgCreateUserClaim, Unmarshal_MsgCreateUserClaim) @@
  "dispensation.MsgRunDistribution" :> Methods(Size_MsgRunDistribution, Marshal_MsgRunDistribution, Unmarshal_MsgRunDistribution) @@
  "dispensation.GenesisState" :> Methods(Size_GenesisState, Marshal_GenesisState, Unmarshal_GenesisState) @@
  "dispensation.DistributionRecord" :> Methods(Size_DistributionRecord, Marshal_DistributionRecord, Unmarshal_DistributionRecord) @@
  "dispensation.DistributionRecords" :> Methods(Size_DistributionRecords, Marshal_DistributionRecords, Unmarshal_DistributionRecords) @@
  "dispensation.Distributions" :> Methods(Size_Distributions, Marshal_Distributions, Unmarshal_Distributions) @@
  "dispensation.Distribution" :> Methods(Size_Distribution, Marshal_Distribution, Unmarshal_Distribution) @@
  "dispensation.UserClaim" :> Methods(Size_UserClaim, Marshal_UserClaim, Unmarshal_UserClaim) @@
  "dispensation.UserClaims" :> Methods(Size_UserClaims, Marshal_UserClaims, Unmarshal_UserClaims)
=============================================================================
