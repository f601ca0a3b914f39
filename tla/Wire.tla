-------------------------------- MODULE Wire --------------------------------
(***************************************************************************)
(* How the modules that follow describe the messages of the generated code *)
(* (the .pb.go files).  Each message has three methods that go through its *)
(* fields: Size, MarshalToSizedBuffer and Unmarshal.  A method is the list *)
(* of what it does with each field.  The first argument is the tag of the  *)
(* field: its length in Size, its bytes in Marshal, the wire type that is  *)
(* asked for in Unmarshal.  Marshal lists the fields as it writes them,    *)
(* from the end of the buffer to its beginning.                            *)
(***************************************************************************)
EXTENDS Integers, Sequences, TLC

\* when: which values are written, as: how.
Field(tag, name, when, as) == [tag |-> tag, name |-> name, when |-> when, as |-> as]

Bytes(tag, name)          == Field(tag, name, "nonempty", "bytes")
Strings(tag, name)        == Field(tag, name, "each", "bytes")
Varint(tag, name)         == Field(tag, name, "nonzero", "varint")
Packed(tag, name)         == Field(tag, name, "nonempty", "packed")

\* Types that bring methods of their own.
Custom(tag, name)         == Field(tag, name, "always", "bytes")
OptCustom(tag, name)      == Field(tag, name, "set", "bytes")
Customs(tag, name)        == Field(tag, name, "each", "bytes")

\* Other messages: part of the message, behind a pointer, any number of them.
Embedded(tag, name, type) == Field(tag, name, "always", type)
Message(tag, name, type)  == Field(tag, name, "set", type)
Messages(tag, name, type) == Field(tag, name, "each", type)

NoFields == <<>>

Methods(size, marshal, unmarshal) == [size |-> size, marshal |-> marshal, unmarshal |-> unmarshal]
=============================================================================
