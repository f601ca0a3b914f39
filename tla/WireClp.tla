------------------------------ MODULE WireClp -------------------------------
(* The messages of x/clp/types. *)
EXTENDS Wire

----------------------------------------------------------------------------
(* genesis.pb.go *)

Size_GenesisState ==
  <<Embedded(1, "Params", "clp.Params"), Strings(1, "AddressWhitelist"),
    Messages(1, "PoolList", "clp.Pool"),
    Messages(1, "LiquidityProviders", "clp.LiquidityProvider")>>
Marshal_GenesisState ==
  <<Messages(<<34>>, "LiquidityProviders", "clp.LiquidityProvider"),
    Messages(<<26>>, "PoolList", "clp.Pool"), Strings(<<18>>, "AddressWhitelist"),
    Embedded(<<10>>, "Params", "clp.Params")>>
Unmarshal_GenesisState ==
  1 :> Embedded(2, "Params", "clp.Params") @@ 2 :> Strings(2, "AddressWhitelist") @@
  3 :> Messages(2, "PoolList", "clp.Pool") @@
  4 :> Messages(2, "LiquidityProviders", "clp.LiquidityProvider")

----------------------------------------------------------------------------
(* params.pb.go *)

Size_Params == <<Varint(1, "MinCreatePoolThreshold")>>
Marshal_Params == <<Varint(<<8>>, "MinCreatePoolThreshold")>>
Unmarshal_Params == 1 :> Varint(0, "MinCreatePoolThreshold")

----------------------------------------------------------------------------
(* querier.pb.go *)

Size_PoolReq == <<Bytes(1, "Symbol")>>
Marshal_PoolReq == <<Bytes(<<10>>, "Symbol")>>
Unmarshal_PoolReq == 1 :> Bytes(2, "Symbol")

Size_PoolRes ==
  <<Message(1, "Pool", "clp.Pool"), Bytes(1, "ClpModuleAddress"), Varint(1, "Height")>>
Marshal_PoolRes ==
  <<Varint(<<24>>, "Height"), Bytes(<<18>>, "ClpModuleAddress"),
    Message(<<10>>, "Pool", "clp.Pool")>>
Unmarshal_PoolRes ==
  1 :> Message(2, "Pool", "clp.Pool") @@ 2 :> Bytes(2, "ClpModuleAddress") @@
  3 :> Varint(0, "Height")

Size_PoolsReq == <<Message(1, "Pagination", "cosmos.PageRequest")>>
Marshal_PoolsReq == <<Message(<<10>>, "Pagination", "cosmos.PageRequest")>>
Unmarshal_PoolsReq == 1 :> Message(2, "Pagination", "cosmos.PageRequest")

Size_PoolsRes ==
  <<Messages(1, "Pools", "clp.Pool"), Bytes(1, "ClpModuleAddress"), Varint(1, "Height"),
    Message(1, "Pagination", "cosmos.PageResponse")>>
Marshal_PoolsRes ==
  <<Message(<<34>>, "Pagination", "cosmos.PageResponse"), Varint(<<24>>, "Height"),
    Bytes(<<18>>, "ClpModuleAddress"), Messages(<<10>>, "Pools", "clp.Pool")>>
Unmarshal_PoolsRes ==
  1 :> Messages(2, "Pools", "clp.Pool") @@ 2 :> Bytes(2, "ClpModuleAddress") @@
  3 :> Varint(0, "Height") @@ 4 :> Message(2, "Pagination", "cosmos.PageResponse")

Size_LiquidityProviderReq == <<Bytes(1, "Symbol"), Bytes(1, "LpAddress")>>
Marshal_LiquidityProviderReq == <<Bytes(<<18>>, "LpAddress"), Bytes(<<10>>, "Symbol")>>
Unmarshal_LiquidityProviderReq == 1 :> Bytes(2, "Symbol") @@ 2 :> Bytes(2, "LpAddress")

Size_LiquidityProviderRes ==
  <<Message(1, "LiquidityProvider", "clp.LiquidityProvider"), Bytes(1, "NativeAssetBalance"),
    Bytes(1, "ExternalAssetBalance"), Varint(1, "Height")>>
Marshal_LiquidityProviderRes ==
  <<Varint(<<32>>, "Height"), Bytes(<<26>>, "ExternalAssetBalance"),
    Bytes(<<18>>, "NativeAssetBalance"),
    Message(<<10>>, "LiquidityProvider", "clp.LiquidityProvider")>>
Unmarshal_LiquidityProviderRes ==
  1 :> Message(2, "LiquidityProvider", "clp.LiquidityProvider") @@
  2 :> Bytes(2, "NativeAssetBalance") @@ 3 :> Bytes(2, "ExternalAssetBalance") @@
  4 :> Varint(0, "Height")

Size_AssetListReq == <<Bytes(1, "LpAddress"), Message(1, "Pagination", "cosmos.PageRequest")>>
Marshal_AssetListReq ==
  <<Message(<<18>>, "Pagination", "cosmos.PageRequest"), Bytes(<<10>>, "LpAddress")>>
Unmarshal_AssetListReq ==
  1 :> Bytes(2, "LpAddress") @@ 2 :> Message(2, "Pagination", "cosmos.PageRequest")

Size_AssetListRes ==
  <<Messages(1, "Assets", "clp.Asset"), Varint(1, "Height"),
    Message(1, "Pagination", "cosmos.PageResponse")>>
Marshal_AssetListRes ==
  <<Message(<<26>>, "Pagination", "cosmos.PageResponse"), Varint(<<16>>, "Height"),
    Messages(<<10>>, "Assets", "clp.Asset")>>
Unmarshal_AssetListRes ==
  1 :> Messages(2, "Assets", "clp.Asset") @@ 2 :> Varint(0, "Height") @@
  3 :> Message(2, "Pagination", "cosmos.PageResponse")

Size_LiquidityProviderDataReq ==
  <<Bytes(1, "LpAddress"), Message(1, "Pagination", "cosmos.PageRequest")>>
Marshal_LiquidityProviderDataReq ==
  <<Message(<<18>>, "Pagination", "cosmos.PageRequest"), Bytes(<<10>>, "LpAddress")>>
Unmarshal_LiquidityProviderDataReq ==
  1 :> Bytes(2, "LpAddress") @@ 2 :> Message(2, "Pagination", "cosmos.PageRequest")

Size_LiquidityProviderDataRes ==
  <<Messages(1, "LiquidityProviderData", "clp.LiquidityProviderData"), Varint(1, "Height"),
    Message(1, "Pagination", "cosmos.PageRequest")>>
Marshal_LiquidityProviderDataRes ==
  <<Message(<<26>>, "Pagination", "cosmos.PageRequest"), Varint(<<16>>, "Height"),
    Messages(<<10>>, "LiquidityProviderData", "clp.LiquidityProviderData")>>
Unmarshal_LiquidityProviderDataRes ==
  1 :> Messages(2, "LiquidityProviderData", "clp.LiquidityProviderData") @@
  2 :> Varint(0, "Height") @@ 3 :> Message(2, "Pagination", "cosmos.PageRequest")

Size_LiquidityProviderListReq ==
  <<Bytes(1, "Symbol"), Message(1, "Pagination", "cosmos.PageRequest")>>
Marshal_LiquidityProviderListReq ==
  <<Message(<<18>>, "Pagination", "cosmos.PageRequest"), Bytes(<<10>>, "Symbol")>>
Unmarshal_LiquidityProviderListReq ==
  1 :> Bytes(2, "Symbol") @@ 2 :> Message(2, "Pagination", "cosmos.PageRequest")

Size_LiquidityProviderListRes ==
  <<Messages(1, "LiquidityProviders", "clp.LiquidityProvider"), Varint(1, "Height"),
    Message(1, "Pagination", "cosmos.PageResponse")>>
Marshal_LiquidityProviderListRes ==
  <<Message(<<26>>, "Pagination", "cosmos.PageResponse"), Varint(<<16>>, "Height"),
    Messages(<<10>>, "LiquidityProviders", "clp.LiquidityProvider")>>
Unmarshal_LiquidityProviderListRes ==
  1 :> Messages(2, "LiquidityProviders", "clp.LiquidityProvider") @@ 2 :> Varint(0, "Height") @@
  3 :> Message(2, "Pagination", "cosmos.PageResponse")

Size_LiquidityProvidersReq == <<Message(1, "Pagination", "cosmos.PageRequest")>>
Marshal_LiquidityProvidersReq == <<Message(<<18>>, "Pagination", "cosmos.PageRequest")>>
Unmarshal_LiquidityProvidersReq == 2 :> Message(2, "Pagination", "cosmos.PageRequest")

Size_LiquidityProvidersRes ==
  <<Messages(1, "LiquidityProviders", "clp.LiquidityProvider"), Varint(1, "Height"),
    Message(1, "Pagination", "cosmos.PageResponse")>>
Marshal_LiquidityProvidersRes ==
  <<Message(<<26>>, "Pagination", "cosmos.PageResponse"), Varint(<<16>>, "Height"),
    Messages(<<10>>, "LiquidityProviders", "clp.LiquidityProvider")>>
Unmarshal_LiquidityProvidersRes ==
  1 :> Messages(2, "LiquidityProviders", "clp.LiquidityProvider") @@ 2 :> Varint(0, "Height") @@
  3 :> Message(2, "Pagination", "cosmos.PageResponse")

----------------------------------------------------------------------------
(* tx.pb.go *)

Size_MsgRemoveLiquidity ==
  <<Bytes(1, "Signer"), Message(1, "ExternalAsset", "clp.Asset"), Custom(1, "WBasisPoints"),
    Custom(1, "Asymmetry")>>
Marshal_MsgRemoveLiquidity ==
  <<Custom(<<34>>, "Asymmetry"), Custom(<<26>>, "WBasisPoints"),
    Message(<<18>>, "ExternalAsset", "clp.Asset"), Bytes(<<10>>, "Signer")>>
Unmarshal_MsgRemoveLiquidity ==
  1 :> Bytes(2, "Signer") @@ 2 :> Message(2, "ExternalAsset", "clp.Asset") @@
  3 :> Custom(2, "WBasisPoints") @@ 4 :> Custom(2, "Asymmetry")

Size_MsgRemoveLiquidityResponse == NoFields
Marshal_MsgRemoveLiquidityResponse == NoFields
Unmarshal_MsgRemoveLiquidityResponse == NoFields

Size_MsgCreatePool ==
  <<Bytes(1, "Signer"), Message(1, "ExternalAsset", "clp.Asset"), Custom(1, "NativeAssetAmount"),
    Custom(1, "ExternalAssetAmount")>>
Marshal_MsgCreatePool ==
  <<Custom(<<34>>, "ExternalAssetAmount"), Custom(<<26>>, "NativeAssetAmount"),
    Message(<<18>>, "ExternalAsset", "clp.Asset"), Bytes(<<10>>, "Signer")>>
Unmarshal_MsgCreatePool ==
  1 :> Bytes(2, "Signer") @@ 2 :> Message(2, "ExternalAsset", "clp.Asset") @@
  3 :> Custom(2, "NativeAssetAmount") @@ 4 :> Custom(2, "ExternalAssetAmount")

Size_MsgCreatePoolResponse == NoFields
Marshal_MsgCreatePoolResponse == NoFields
Unmarshal_MsgCreatePoolResponse == NoFields

Size_MsgAddLiquidity ==
  <<Bytes(1, "Signer"), Message(1, "ExternalAsset", "clp.Asset"), Custom(1, "NativeAssetAmount"),
    Custom(1, "ExternalAssetAmount")>>
Marshal_MsgAddLiquidity ==
  <<Custom(<<34>>, "ExternalAssetAmount"), Custom(<<26>>, "NativeAssetAmount"),
    Message(<<18>>, "ExternalAsset", "clp.Asset"), Bytes(<<10>>, "Signer")>>
Unmarshal_MsgAddLiquidity ==
  1 :> Bytes(2, "Signer") @@ 2 :> Message(2, "ExternalAsset", "clp.Asset") @@
  3 :> Custom(2, "NativeAssetAmount") @@ 4 :> Custom(2, "ExternalAssetAmount")

Size_MsgAddLiquidityResponse == NoFields
Marshal_MsgAddLiquidityResponse == NoFields
Unmarshal_MsgAddLiquidityResponse == NoFields

Size_MsgSwap ==
  <<Bytes(1, "Signer"), Message(1, "SentAsset", "clp.Asset"),
    Message(1, "ReceivedAsset", "clp.Asset"), Custom(1, "SentAmount"),
    Custom(1, "MinReceivingAmount")>>
Marshal_MsgSwap ==
  <<Custom(<<42>>, "MinReceivingAmount"), Custom(<<34>>, "SentAmount"),
    Message(<<26>>, "ReceivedAsset", "clp.Asset"), Message(<<18>>, "SentAsset", "clp.Asset"),
    Bytes(<<10>>, "Signer")>>
Unmarshal_MsgSwap ==
  1 :> Bytes(2, "Signer") @@ 2 :> Message(2, "SentAsset", "clp.Asset") @@
  3 :> Message(2, "ReceivedAsset", "clp.Asset") @@ 4 :> Custom(2, "SentAmount") @@
  5 :> Custom(2, "MinReceivingAmount")

Size_MsgSwapResponse == NoFields
Marshal_MsgSwapResponse == NoFields
Unmarshal_MsgSwapResponse == NoFields

Size_MsgDecommissionPool == <<Bytes(1, "Signer"), Bytes(1, "Symbol")>>
Marshal_MsgDecommissionPool == <<Bytes(<<18>>, "Symbol"), Bytes(<<10>>, "Signer")>>
Unmarshal_MsgDecommissionPool == 1 :> Bytes(2, "Signer") @@ 2 :> Bytes(2, "Symbol")

Size_MsgDecommissionPoolResponse == NoFields
Marshal_MsgDecommissionPoolResponse == NoFields
Unmarshal_MsgDecommissionPoolResponse == NoFields

----------------------------------------------------------------------------
(* types.pb.go *)

Size_Asset == <<Bytes(1, "Symbol")>>
Marshal_Asset == <<Bytes(<<10>>, "Symbol")>>
Unmarshal_Asset == 1 :> Bytes(2, "Symbol")

Size_Pool ==
  <<Message(1, "ExternalAsset", "clp.Asset"), Custom(1, "NativeAssetBalance"),
    Custom(1, "ExternalAssetBalance"), Custom(1, "PoolUnits")>>
Marshal_Pool ==
  <<Custom(<<34>>, "PoolUnits"), Custom(<<26>>, "ExternalAssetBalance"),
    Custom(<<18>>, "NativeAssetBalance"), Message(<<10>>, "ExternalAsset", "clp.Asset")>>
Unmarshal_Pool ==
  1 :> Message(2, "ExternalAsset", "clp.Asset") @@ 2 :> Custom(2, "NativeAssetBalance") @@
  3 :> Custom(2, "ExternalAssetBalance") @@ 4 :> Custom(2, "PoolUnits")

Size_LiquidityProvider ==
  <<Message(1, "Asset", "clp.Asset"), Custom(1, "LiquidityProviderUnits"),
    Bytes(1, "LiquidityProviderAddress")>>
Marshal_LiquidityProvider ==
  <<Bytes(<<26>>, "LiquidityProviderAddress"), Custom(<<18>>, "LiquidityProviderUnits"),
    Message(<<10>>, "Asset", "clp.Asset")>>
Unmarshal_LiquidityProvider ==
  1 :> Message(2, "Asset", "clp.Asset") @@ 2 :> Custom(2, "LiquidityProviderUnits") @@
  3 :> Bytes(2, "LiquidityProviderAddress")

Size_WhiteList == <<Strings(1, "ValidatorList")>>
Marshal_WhiteList == <<Strings(<<10>>, "ValidatorList")>>
Unmarshal_WhiteList == 1 :> Strings(2, "ValidatorList")

Size_LiquidityProviderData ==
  <<Message(1, "LiquidityProvider", "clp.LiquidityProvider"), Bytes(1, "NativeAssetBalance"),
    Bytes(1, "ExternalAssetBalance")>>
Marshal_LiquidityProviderData ==
  <<Bytes(<<26>>, "ExternalAssetBalance"), Bytes(<<18>>, "NativeAssetBalance"),
    Message(<<10>>, "LiquidityProvider", "clp.LiquidityProvider")>>
Unmarshal_LiquidityProviderData ==
  1 :> Message(2, "LiquidityProvider", "clp.LiquidityProvider") @@
  2 :> Bytes(2, "NativeAssetBalance") @@ 3 :> Bytes(2, "ExternalAssetBalance")

----------------------------------------------------------------------------

WireFormat ==
  "clp.GenesisState" :> Methods(Size_GenesisState, Marshal_GenesisState, Unmarshal_GenesisState) @@
  "clp.Params" :> Methods(Size_Params, Marshal_Params, Unmarshal_Params) @@
  "clp.PoolReq" :> Methods(Size_PoolReq, Marshal_PoolReq, Unmarshal_PoolReq) @@
  "clp.PoolRes" :> Methods(Size_PoolRes, Marshal_PoolRes, Unmarshal_PoolRes) @@
  "clp.PoolsReq" :> Methods(Size_PoolsReq, Marshal_PoolsReq, Unmarshal_PoolsReq) @@
  "clp.PoolsRes" :> Methods(Size_PoolsRes, Marshal_PoolsRes, Unmarshal_PoolsRes) @@
  "clp.LiquidityProviderReq" :> Methods(Size_LiquidityProviderReq, Marshal_LiquidityProviderReq, Unmarshal_LiquidityProviderReq) @@
  "clp.LiquidityProviderRes" :> Methods(Size_LiquidityProviderRes, Marshal_LiquidityProviderRes, Unmarshal_LiquidityProviderRes) @@
  "clp.AssetListReq" :> Methods(Size_AssetListReq, Marshal_AssetListReq, Unmarshal_AssetListReq) @@
  "clp.AssetListRes" :> Methods(Size_AssetListRes, Marshal_AssetListRes, Unmarshal_AssetListRes) @@
  "clp.LiquidityProviderDataReq" :> Methods(Size_LiquidityProviderDataReq, Marshal_LiquidityProviderDataReq, Unmarshal_LiquidityProviderDataReq) @@
  "clp.LiquidityProviderDataRes" :> Methods(Size_LiquidityProviderDataRes, Marshal_LiquidityProviderDataRes, Unmarshal_LiquidityProviderDataRes) @@
  "clp.LiquidityProviderListReq" :> Methods(Size_LiquidityProviderListReq, Marshal_LiquidityProviderListReq, Unmarshal_LiquidityProviderListReq) @@
  "clp.LiquidityProviderListRes" :> Methods(Size_LiquidityProviderListRes, Marshal_LiquidityProviderListRes, Unmarshal_LiquidityProviderListRes) @@
  "clp.LiquidityProvidersReq" :> Methods(Size_LiquidityProvidersReq, Marshal_LiquidityProvidersReq, Unmarshal_LiquidityProvidersReq) @@
  "clp.LiquidityProvidersRes" :> Methods(Size_LiquidityProvidersRes, Marshal_LiquidityProvidersRes, Unmarshal_LiquidityProvidersRes) @@
  "clp.MsgRemoveLiquidity" :> Methods(Size_MsgRemoveLiquidity, Marshal_MsgRemoveLiquidity, Unmarshal_MsgRemoveLiquidity) @@
  "clp.MsgRemoveLiquidityResponse" :> Methods(Size_MsgRemoveLiquidityResponse, Marshal_MsgRemoveLiquidityResponse, Unmarshal_MsgRemoveLiquidityResponse) @@
  "clp.MsgCreatePool" :> Methods(Size_MsgCreatePool, Marshal_MsgCreatePool, Unmarshal_MsgCreatePool) @@
  "clp.MsgCreatePoolResponse" :> Methods(Size_MsgCreatePoolResponse, Marshal_MsgCreatePoolResponse, Unmarshal_MsgCreatePoolResponse) @@
  "clp.MsgAddLiquidity" :> Methods(Size_MsgAddLiquidity, Marshal_MsgAddLiquidity, Unmarshal_MsgAddLiquidity) @@
  "clp.MsgAddLiquidityResponse" :> Methods(Size_MsgAddLiquidityResponse, Marshal_MsgAddLiquidityResponse, Unmarshal_MsgAddLiquidityResponse) @@
  "clp.MsgSwap" :> Methods(Size_MsgSwap, Marshal_MsgSwap, Unmarshal_MsgSwap) @@
  "clp.MsgSwapResponse" :> Methods(Size_MsgSwapResponse, Marshal_MsgSwapResponse, Unmarshal_MsgSwapResponse) @@
  "clp.MsgDecommissionPool" :> Methods(Size_MsgDecommissionPool, Marshal_MsgDecommissionPool, Unmarshal_MsgDecommissionPool) @@
  "clp.MsgDecommissionPoolResponse" :> Methods(Size_MsgDecommissionPoolResponse, Marshal_MsgDecommissionPoolResponse, Unmarshal_MsgDecommissionPoolResponse) @@
  "clp.Asset" :> Methods(Size_Asset, Marshal_Asset, Unmarshal_Asset) @@
  "clp.Pool" :> Methods(Size_Pool, Marshal_Pool, Unmarshal_Pool) @@
  "clp.LiquidityProvider" :> Methods(Size_LiquidityProvider, Marshal_LiquidityProvider, Unmarshal_LiquidityProvider) @@
  "clp.WhiteList" :> Methods(Size_WhiteList, Marshal_WhiteList, Unmarshal_WhiteList) @@
  "clp.LiquidityProviderData" :> Methods(Size_LiquidityProviderData, Marshal_LiquidityProviderData, Unmarshal_LiquidityProviderData)
=============================================================================
