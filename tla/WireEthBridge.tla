--------------------------- MODULE WireEthBridge ----------------------------
(* The messages of x/ethbridge/types. *)
EXTENDS Wire

----------------------------------------------------------------------------
(* query.pb.go *)

Size_QueryEthProphecyRequest ==
  <<Varint(1, "EthereumChainId"), Bytes(1, "BridgeContractAddress"), Varint(1, "Nonce"),
    Bytes(1, "Symbol"), Bytes(1, "TokenContractAddress"), Bytes(1, "EthereumSender")>>
Marshal_QueryEthProphecyRequest ==
  <<Bytes(<<50>>, "EthereumSender"), Bytes(<<42>>, "TokenContractAddress"),
    Bytes(<<34>>, "Symbol"), Varint(<<24>>, "Nonce"), Bytes(<<18>>, "BridgeContractAddress"),
    Varint(<<8>>, "EthereumChainId")>>
Unmarshal_QueryEthProphecyRequest ==
  1 :> Varint(0, "EthereumChainId") @@ 2 :> Bytes(2, "BridgeContractAddress") @@
  3 :> Varint(0, "Nonce") @@ 4 :> Bytes(2, "Symbol") @@ 5 :> Bytes(2, "TokenContractAddress") @@
  6 :> Bytes(2, "EthereumSender")

Size_QueryEthProphecyResponse ==
  <<Bytes(1, "Id"), Message(1, "Status", "oracle.Status"),
    Messages(1, "Claims", "ethbridge.EthBridgeClaim")>>
Marshal_QueryEthProphecyResponse ==
  <<Messages(<<26>>, "Claims", "ethbridge.EthBridgeClaim"),
    Message(<<18>>, "Status", "oracle.Status"), Bytes(<<10>>, "Id")>>
Unmarshal_QueryEthProphecyResponse ==
  1 :> Bytes(2, "Id") @@ 2 :> Message(2, "Status", "oracle.Status") @@
  3 :> Messages(2, "Claims", "ethbridge.EthBridgeClaim")

Size_QueryBlacklistRequest == NoFields
Marshal_QueryBlacklistRequest == NoFields
Unmarshal_QueryBlacklistRequest == NoFields

Size_QueryBlacklistResponse == <<Strings(1, "Addresses")>>
Marshal_QueryBlacklistResponse == <<Strings(<<10>>, "Addresses")>>
Unmarshal_QueryBlacklistResponse == 1 :> Strings(2, "Addresses")

----------------------------------------------------------------------------
(* tx.pb.go *)

Size_MsgLock ==
  <<Bytes(1, "CosmosSender"), Custom(1, "Amount"), Bytes(1, "Symbol"),
    Varint(1, "EthereumChainId"), Bytes(1, "EthereumReceiver"), Custom(1, "CethAmount")>>
Marshal_MsgLock ==
  <<Custom(<<50>>, "CethAmount"), Bytes(<<42>>, "EthereumReceiver"),
    Varint(<<32>>, "EthereumChainId"), Bytes(<<26>>, "Symbol"), Custom(<<18>>, "Amount"),
    Bytes(<<10>>, "CosmosSender")>>
Unmarshal_MsgLock ==
  1 :> Bytes(2, "CosmosSender") @@ 2 :> Custom(2, "Amount") @@ 3 :> Bytes(2, "Symbol") @@
  4 :> Varint(0, "EthereumChainId") @@ 5 :> Bytes(2, "EthereumReceiver") @@
  6 :> Custom(2, "CethAmount")

Size_MsgLockResponse == NoFields
Marshal_MsgLockResponse == NoFields
Unmarshal_MsgLockResponse == NoFields

Size_MsgBurn ==
  <<Bytes(1, "CosmosSender"), Custom(1, "Amount"), Bytes(1, "Symbol"),
    Varint(1, "EthereumChainId"), Bytes(1, "EthereumReceiver"), Custom(1, "CethAmount")>>
Marshal_MsgBurn ==
  <<Custom(<<50>>, "CethAmount"), Bytes(<<42>>, "EthereumReceiver"),
    Varint(<<32>>, "EthereumChainId"), Bytes(<<26>>, "Symbol"), Custom(<<18>>, "Amount"),
    Bytes(<<10>>, "CosmosSender")>>
Unmarshal_MsgBurn ==
  1 :> Bytes(2, "CosmosSender") @@ 2 :> Custom(2, "Amount") @@ 3 :> Bytes(2, "Symbol") @@
  4 :> Varint(0, "EthereumChainId") @@ 5 :> Bytes(2, "EthereumReceiver") @@
  6 :> Custom(2, "CethAmount")

Size_MsgBurnResponse == NoFields
Marshal_MsgBurnResponse == NoFields
Unmarshal_MsgBurnResponse == NoFields

Size_MsgCreateEthBridgeClaim == <<Message(1, "EthBridgeClaim", "ethbridge.EthBridgeClaim")>>
Marshal_MsgCreateEthBridgeClaim == <<Message(<<10>>, "EthBridgeClaim", "ethbridge.EthBridgeClaim")>>
Unmarshal_MsgCreateEthBridgeClaim == 1 :> Message(2, "EthBridgeClaim", "ethbridge.EthBridgeClaim")

Size_MsgCreateEthBridgeClaimResponse == NoFields
Marshal_MsgCreateEthBridgeClaimResponse == NoFields
Unmarshal_MsgCreateEthBridgeClaimResponse == NoFields

Size_MsgUpdateWhiteListValidator ==
  <<Bytes(1, "CosmosSender"), Bytes(1, "Validator"), Bytes(1, "OperationType")>>
Marshal_MsgUpdateWhiteListValidator ==
  <<Bytes(<<26>>, "OperationType"), Bytes(<<18>>, "Validator"), Bytes(<<10>>, "CosmosSender")>>
Unmarshal_MsgUpdateWhiteListValidator ==
  1 :> Bytes(2, "CosmosSender") @@ 2 :> Bytes(2, "Validator") @@ 3 :> Bytes(2, "OperationType")

Size_MsgUpdateWhiteListValidatorResponse == NoFields
Marshal_MsgUpdateWhiteListValidatorResponse == NoFields
Unmarshal_MsgUpdateWhiteListValidatorResponse == NoFields

Size_MsgUpdateCethReceiverAccount == <<Bytes(1, "CosmosSender"), Bytes(1, "CethReceiverAccount")>>
Marshal_MsgUpdateCethReceiverAccount ==
  <<Bytes(<<18>>, "CethReceiverAccount"), Bytes(<<10>>, "CosmosSender")>>
Unmarshal_MsgUpdateCethReceiverAccount ==
  1 :> Bytes(2, "CosmosSender") @@ 2 :> Bytes(2, "CethReceiverAccount")

Size_MsgUpdateCethReceiverAccountResponse == NoFields
Marshal_MsgUpdateCethReceiverAccountResponse == NoFields
Unmarshal_MsgUpdateCethReceiverAccountResponse == NoFields

Size_MsgRescueCeth ==
  <<Bytes(1, "CosmosSender"), Bytes(1, "CosmosReceiver"), Custom(1, "CethAmount")>>
Marshal_MsgRescueCeth ==
  <<Custom(<<26>>, "CethAmount"), Bytes(<<18>>, "CosmosReceiver"),
    Bytes(<<10>>, "CosmosSender")>>
Unmarshal_MsgRescueCeth ==
  1 :> Bytes(2, "CosmosSender") @@ 2 :> Bytes(2, "CosmosReceiver") @@
  3 :> Custom(2, "CethAmount")

Size_MsgRescueCethResponse == NoFields
Marshal_MsgRescueCethResponse == NoFields
Unmarshal_MsgRescueCethResponse == NoFields

Size_MsgSetBlacklist == <<Bytes(1, "From"), Strings(1, "Addresses")>>
Marshal_MsgSetBlacklist == <<Strings(<<18>>, "Addresses"), Bytes(<<10>>, "From")>>
Unmarshal_MsgSetBlacklist == 1 :> Bytes(2, "From") @@ 2 :> Strings(2, "Addresses")

Size_MsgSetBlacklistResponse == NoFields
Marshal_MsgSetBlacklistResponse == NoFields
Unmarshal_MsgSetBlacklistResponse == NoFields

----------------------------------------------------------------------------
(* types.pb.go *)

Size_EthBridgeClaim ==
  <<Varint(1, "EthereumChainId"), Bytes(1, "BridgeContractAddress"), Varint(1, "Nonce"),
    Bytes(1, "Symbol"), Bytes(1, "TokenContractAddress"), Bytes(1, "EthereumSender"),
    Bytes(1, "CosmosReceiver"), Bytes(1, "ValidatorAddress"), Custom(1, "Amount"),
    Varint(1, "ClaimType")>>
Marshal_EthBridgeClaim ==
  <<Varint(<<80>>, "ClaimType"), Custom(<<74>>, "Amount"), Bytes(<<66>>, "ValidatorAddress"),
    Bytes(<<58>>, "CosmosReceiver"), Bytes(<<50>>, "EthereumSender"),
    Bytes(<<42>>, "TokenContractAddress"), Bytes(<<34>>, "Symbol"), Varint(<<24>>, "Nonce"),
    Bytes(<<18>>, "BridgeContractAddress"), Varint(<<8>>, "EthereumChainId")>>
Unmarshal_EthBridgeClaim ==
  1 :> Varint(0, "EthereumChainId") @@ 2 :> Bytes(2, "BridgeContractAddress") @@
  3 :> Varint(0, "Nonce") @@ 4 :> Bytes(2, "Symbol") @@ 5 :> Bytes(2, "TokenContractAddress") @@
  6 :> Bytes(2, "EthereumSender") @@ 7 :> Bytes(2, "CosmosReceiver") @@
  8 :> Bytes(2, "ValidatorAddress") @@ 9 :> Custom(2, "Amount") @@ 10 :> Varint(0, "ClaimType")

Size_PeggyTokens == <<Strings(1, "Tokens")>>
Marshal_PeggyTokens == <<Strings(<<10>>, "Tokens")>>
Unmarshal_PeggyTokens == 1 :> Strings(2, "Tokens")

Size_GenesisState == <<Bytes(1, "CethReceiveAccount"), Strings(1, "PeggyTokens")>>
Marshal_GenesisState == <<Strings(<<18>>, "PeggyTokens"), Bytes(<<10>>, "CethReceiveAccount")>>
Unmarshal_GenesisState == 1 :> Bytes(2, "CethReceiveAccount") @@ 2 :> Strings(2, "PeggyTokens")

----------------------------------------------------------------------------

WireFormat ==
  "ethbridge.QueryEthProphecyRequest" :> Methods(Size_QueryEthProphecyRequest, Marshal_QueryEthProphecyRequest, Unmarshal_QueryEthProphecyRequest) @@
  "ethbridge.QueryEthProphecyResponse" :> Methods(Size_QueryEthProphecyResponse, Marshal_QueryEthProphecyResponse, Unmarshal_QueryEthProphecyResponse) @@
  "ethbridge.QueryBlacklistRequest" :> Methods(Size_QueryBlacklistRequest, Marshal_QueryBlacklistRequest, Unmarshal_QueryBlacklistRequest) @@
  "ethbridge.QueryBlacklistResponse" :> Methods(Size_QueryBlacklistResponse, Marshal_QueryBlacklistResponse, Unmarshal_QueryBlacklistResponse) @@
  "ethbridge.MsgLock" :> Methods(Size_MsgLock, Marshal_MsgLock, Unmarshal_MsgLock) @@
  "ethbridge.MsgLockResponse" :> Methods(Size_MsgLockResponse, Marshal_MsgLockResponse, Unmarshal_MsgLockResponse) @@
  "ethbridge.MsgBurn" :> Methods(Size_MsgBurn, Marshal_MsgBurn, Unmarshal_MsgBurn) @@
  "ethbridge.MsgBurnResponse" :> Methods(Size_MsgBurnResponse, Marshal_MsgBurnResponse, Unmarshal_MsgBurnResponse) @@
  "ethbridge.MsgCreateEthBridgeClaim" :> Methods(Size_MsgCreateEthBridgeClaim, Marshal_MsgCreateEthBridgeClaim, Unmarshal_MsgCreateEthBridgeClaim) @@
  "ethbridge.MsgCreateEthBridgeClaimResponse" :> Methods(Size_MsgCreateEthBridgeClaimResponse, Marshal_MsgCreateEthBridgeClaimResponse, Unmarshal_MsgCreateEthBridgeClaimResponse) @@
  "ethbridge.MsgUpdateWhiteListValidator" :> Methods(Size_MsgUpdateWhiteListValidator, Marshal_MsgUpdateWhiteListValidator, Unmarshal_MsgUpdateWhiteListValidator) @@
  "ethbridge.MsgUpdateWhiteListValidatorResponse" :> Methods(Size_MsgUpdateWhiteListValidatorResponse, Marshal_MsgUpdateWhiteListValidatorResponse, Unmarshal_MsgUpdateWhiteListValidatorResponse) @@
  "ethbridge.MsgUpdateCethReceiverAccount" :> Methods(Size_MsgUpdateCethReceiverAccount, Marshal_MsgUpdateCethReceiverAccount, Unmarshal_MsgUpdateCethReceiverAccount) @@
  "ethbridge.MsgUpdateCethReceiverAccountResponse" :> Methods(Size_MsgUpdateCethReceiverAccountResponse, Marshal_MsgUpdateCethReceiverAccountResponse, Unmarshal_MsgUpdateCethReceiverAccountResponse) @@
  "ethbridge.MsgRescueCeth" :> Methods(Size_MsgRescueCeth, Marshal_MsgRescueCeth, Unmarshal_MsgRescueCeth) @@
  "ethbridge.MsgRescueCethResponse" :> Methods(Size_MsgRescueCethResponse, Marshal_MsgRescueCethResponse, Unmarshal_MsgRescueCethResponse) @@
  "ethbridge.MsgSetBlacklist" :> Methods(Size_MsgSetBlacklist, Marshal_MsgSetBlacklist, Unmarshal_MsgSetBlacklist) @@
  "ethbridge.MsgSetBlacklistResponse" :> Methods(Size_MsgSetBlacklistResponse, Marshal_MsgSetBlacklistResponse, Unmarshal_MsgSetBlacklistResponse) @@
  "ethbridge.EthBridgeClaim" :> Methods(Size_EthBridgeClaim, Marshal_EthBridgeClaim, Unmarshal_EthBridgeClaim) @@
  "ethbridge.PeggyTokens" :> Methods(Size_PeggyTokens, Marshal_PeggyTokens, Unmarshal_PeggyTokens) @@
  "ethbridge.GenesisState" :> Methods(Size_GenesisState, Marshal_GenesisState, Unmarshal_GenesisState)
=============================================================================
