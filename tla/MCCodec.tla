------------------------------- MODULE MCCodec ------------------------------
(* All messages of the five modules. *)
EXTENDS Codec

WOracle == INSTANCE WireOracle
WTokenRegistry == INSTANCE WireTokenRegistry
WClp == INSTANCE WireClp
WEthBridge == INSTANCE WireEthBridge
WDispensation == INSTANCE WireDispensation

\* Messages of the SDK that are fields of others.
Opaque == LET text == <<Bytes(1, "Text")>> IN Methods(text, <<Bytes(<<10>>, "Text")>>, 1 :> Bytes(2, "Text"))

MCSchema ==
  WOracle!WireFormat @@ WTokenRegistry!WireFormat @@ WClp!WireFormat @@ WEthBridge!WireFormat
    @@ WDispensation!WireFormat
    @@ [t \in {"cosmos.Coin", "cosmos.PageRequest", "cosmos.PageResponse"} |-> Opaque]
=============================================================================
