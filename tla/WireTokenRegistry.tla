------------------------- MODULE WireTokenRegistry --------------------------
(* The messages of x/tokenregistry/types. *)
EXTENDS Wire

----------------------------------------------------------------------------
(* query.pb.go *)

Size_QueryEntriesResponse == <<Message(1, "Registry", "tokenregistry.Registry")>>
Marshal_QueryEntriesResponse == <<Message(<<10>>, "Registry", "tokenregistry.Registry")>>
Unmarshal_QueryEntriesResponse == 1 :> Message(2, "Registry", "tokenregistry.Registry")

Size_QueryEntriesRequest == NoFields
Marshal_QueryEntriesRequest == NoFields
Unmarshal_QueryEntriesRequest == NoFields

----------------------------------------------------------------------------
(* tx.pb.go *)

Size_MsgRegister == <<Bytes(1, "From"), Message(1, "Entry", "tokenregistry.RegistryEntry")>>
Marshal_MsgRegister ==
  <<Message(<<18>>, "Entry", "tokenregistry.RegistryEntry"), Bytes(<<10>>, "From")>>
Unmarshal_MsgRegister ==
  1 :> Bytes(2, "From") @@ 2 :> Message(2, "Entry", "tokenregistry.RegistryEntry")

Size_MsgRegisterResponse == NoFields
Marshal_MsgRegisterResponse == NoFields
Unmarshal_MsgRegisterResponse == NoFields

Size_MsgSetRegistry == <<Bytes(1, "From"), Message(1, "Registry", "tokenregistry.Registry")>>
Marshal_MsgSetRegistry ==
  <<Message(<<18>>, "Registry", "tokenregistry.Registry"), Bytes(<<10>>, "From")>>
Unmarshal_MsgSetRegistry ==
  1 :> Bytes(2, "From") @@ 2 :> Message(2, "Registry", "tokenregistry.Registry")

Size_MsgSetRegistryResponse == NoFields
Marshal_MsgSetRegistryResponse == NoFields
Unmarshal_MsgSetRegistryResponse == NoFields

Size_MsgDeregister == <<Bytes(1, "From"), Bytes(1, "Denom")>>
Marshal_MsgDeregister == <<Bytes(<<18>>, "Denom"), Bytes(<<10>>, "From")>>
Unmarshal_MsgDeregister == 1 :> Bytes(2, "From") @@ 2 :> Bytes(2, "Denom")

Size_MsgDeregisterResponse == NoFields
Marshal_MsgDeregisterResponse == NoFields
Unmarshal_MsgDeregisterResponse == NoFields

----------------------------------------------------------------------------
(* types.pb.go *)

Size_GenesisState == <<Bytes(1, "AdminAccount"), Message(1, "Registry", "tokenregistry.Registry")>>
Marshal_GenesisState ==
  <<Message(<<18>>, "Registry", "tokenregistry.Registry"), Bytes(<<10>>, "AdminAccount")>>
Unmarshal_GenesisState ==
  1 :> Bytes(2, "AdminAccount") @@ 2 :> Message(2, "Registry", "tokenregistry.Registry")

Size_Registry == <<Messages(1, "Entries", "tokenregistry.RegistryEntry")>>
Marshal_Registry == <<Messages(<<10>>, "Entries", "tokenregistry.RegistryEntry")>>
Unmarshal_Registry == 1 :> Messages(2, "Entries", "tokenregistry.RegistryEntry")

Size_RegistryEntry ==
  <<Varint(1, "Decimals"), Bytes(1, "Denom"), Bytes(1, "BaseDenom"), Bytes(1, "Path"),
    Bytes(1, "IbcChannelId"), Bytes(1, "IbcCounterpartyChannelId"), Bytes(1, "DisplayName"),
    Bytes(1, "DisplaySymbol"), Bytes(1, "Network"), Bytes(1, "Address"),
    Bytes(1, "ExternalSymbol"), Bytes(1, "TransferLimit"), Packed(1, "Permissions"),
    Bytes(2, "UnitDenom"), Bytes(2, "IbcCounterpartyDenom"), Bytes(2, "IbcCounterpartyChainId")>>
Marshal_RegistryEntry ==
  <<Bytes(<<146, 1>>, "IbcCounterpartyChainId"), Bytes(<<138, 1>>, "IbcCounterpartyDenom"),
    Bytes(<<130, 1>>, "UnitDenom"), Packed(<<122>>, "Permissions"),
    Bytes(<<106>>, "TransferLimit"), Bytes(<<98>>, "ExternalSymbol"), Bytes(<<90>>, "Address"),
    Bytes(<<82>>, "Network"), Bytes(<<74>>, "DisplaySymbol"), Bytes(<<66>>, "DisplayName"),
    Bytes(<<58>>, "IbcCounterpartyChannelId"), Bytes(<<50>>, "IbcChannelId"),
    Bytes(<<42>>, "Path"), Bytes(<<34>>, "BaseDenom"), Bytes(<<26>>, "Denom"),
    Varint(<<16>>, "Decimals")>>
Unmarshal_RegistryEntry ==
  2 :> Varint(0, "Decimals") @@ 3 :> Bytes(2, "Denom") @@ 4 :> Bytes(2, "BaseDenom") @@
  5 :> Bytes(2, "Path") @@ 6 :> Bytes(2, "IbcChannelId") @@
  7 :> Bytes(2, "IbcCounterpartyChannelId") @@ 8 :> Bytes(2, "DisplayName") @@
  9 :> Bytes(2, "DisplaySymbol") @@ 10 :> Bytes(2, "Network") @@ 11 :> Bytes(2, "Address") @@
  12 :> Bytes(2, "ExternalSymbol") @@ 13 :> Bytes(2, "TransferLimit") @@
  15 :> Packed(2, "Permissions") @@ 16 :> Bytes(2, "UnitDenom") @@
  17 :> Bytes(2, "IbcCounterpartyDenom") @@ 18 :> Bytes(2, "IbcCounterpartyChainId")

----------------------------------------------------------------------------

WireFormat ==
  "tokenregistry.QueryEntriesResponse" :> Methods(Size_QueryEntriesResponse, Marshal_QueryEntriesResponse, Unmarshal_QueryEntriesResponse) @@
  "tokenregistry.QueryEntriesRequest" :> Methods(Size_QueryEntriesRequest, Marshal_QueryEntriesRequest, Unmarshal_QueryEntriesRequest) @@
  "tokenregistry.MsgRegister" :> Methods(Size_MsgRegister, Marshal_MsgRegister, Unmarshal_MsgRegister) @@
  "tokenregistry.MsgRegisterResponse" :> Methods(Size_MsgRegisterResponse, Marshal_MsgRegisterResponse, Unmarshal_MsgRegisterResponse) @@
  "tokenregistry.MsgSetRegistry" :> Methods(Size_MsgSetRegistry, Marshal_MsgSetRegistry, Unmarshal_MsgSetRegistry) @@
  "tokenregistry.MsgSetRegistryResponse" :> Methods(Size_MsgSetRegistryResponse, Marshal_MsgSetRegistryResponse, Unmarshal_MsgSetRegistryResponse) @@
  "tokenregistry.MsgDeregister" :> Methods(Size_MsgDeregister, Marshal_MsgDeregister, Unmarshal_MsgDeregister) @@
  "tokenregistry.MsgDeregisterResponse" :> Methods(Size_MsgDeregisterResponse, Marshal_MsgDeregisterResponse, Unmarshal_MsgDeregisterResponse) @@
  "tokenregistry.GenesisState" :> Methods(Size_GenesisState, Marshal_GenesisState, Unmarshal_GenesisState) @@
  "tokenregistry.Registry" :> Methods(Size_Registry, Marshal_Registry, Unmarshal_Registry) @@
  "tokenregistry.RegistryEntry" :> Methods(Size_RegistryEntry, Marshal_RegistryEntry, Unmarshal_RegistryEntry)
=============================================================================
