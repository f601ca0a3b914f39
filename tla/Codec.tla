-------------------------------- MODULE Codec -------------------------------
(***************************************************************************)
(* A message is written, travels, and is read again.  The operators are    *)
(* the code that the generated methods repeat for every kind of field; the *)
(* fields of each message come from the Wire modules.                      *)
(*                                                                         *)
(* The buffer gets the length that Size computes and is filled from its    *)
(* end, one field in a step; writing beyond its beginning panics.  On its  *)
(* way the message may be cut off, or carry a field that the reader does   *)
(* not know, as a newer release would send.                                *)
(*                                                                         *)
(* A field that may be nil is a sequence of at most one value.             *)
(***************************************************************************)
EXTENDS Wire, SequencesExt

CONSTANTS
  Schema,      \* the methods of every message
  Long,        \* length of a long text; its own length takes two bytes
  MaxFaulty    \* longest message that faults happen to

ASSUME CodecAssumption == Long \in 128 .. 16383 /\ MaxFaulty \in Nat

VARIABLES
  type,     \* the message and
  value,    \* its fields
  stage,    \* what happens to it
  written,  \* fields written so far
  data,     \* bytes written so far, then the bytes that travel
  fault,    \* what happened to them
  index,    \* position up to which they are read
  message   \* what was read so far

codecVars == <<type, value, stage, written, data, fault, index, message>>

----------------------------------------------------------------------------
(* Numbers: 7 bits in a byte, the highest bit marks that more follow.       *)

\* Bits of a number, as math/bits counts them.
BitLen(n) == CHOOSE k \in 0 .. 30 : n < 2 ^ k /\ (k > 0 => n >= 2 ^ (k - 1))

\* Mutant: zero takes no byte.
sov_Zero(n) == (BitLen(n) + 6) \div 7

\* The bytes that a number takes.
sov(n) == (BitLen(IF n = 0 THEN 1 ELSE n) + 6) \div 7

RECURSIVE encodeVarint(_)
encodeVarint(n) == IF n < 128 THEN <<n>> ELSE <<128 + (n % 128)>> \o encodeVarint(n \div 128)

Failure == [ok |-> FALSE]

Position(i) == [ok |-> TRUE, next |-> i]

\* What comes of the result of a step, unless the step failed.
Then(step, Next(_)) == IF step.ok THEN Next(step) ELSE Failure

\* The number at position i of bytes and the position behind it.  Numbers have a few bytes,
\* so none of them overflows or makes a length negative.
RECURSIVE Number(_, _)
Number(bytes, i) ==
  IF i > Len(bytes) THEN Failure
  ELSE IF bytes[i] < 128 THEN [ok |-> TRUE, n |-> bytes[i], next |-> i + 1]
  ELSE Then(Number(bytes, i + 1), LAMBDA rest : [rest EXCEPT !.n = bytes[i] - 128 + 128 * @])

----------------------------------------------------------------------------
(* Writing.                                                                 *)

\* The values that are written for a field with value v.
Occurrences(f, v) ==
  CASE f.when = "nonzero"  -> IF v = 0 THEN <<>> ELSE <<v>>
    [] f.when = "nonempty" -> IF v = <<>> THEN <<>> ELSE <<v>>
    [] f.when = "always"   -> <<v>>
    [] OTHER               -> v

Map(Op(_), seq) == [i \in DOMAIN seq |-> Op(seq[i])] \o <<>>

Total(seq) == FoldLeft(LAMBDA a, b : a + b, 0, seq)

WithLength(n) == n + sov(n)

RECURSIVE Size(_, _)
Size(t, m) ==
  LET payload(f, e) ==
        CASE f.as = "varint" -> sov(e)
          [] f.as = "bytes"  -> WithLength(Len(e))
          [] f.as = "packed" -> WithLength(Total(Map(sov, e)))
          [] OTHER           -> WithLength(Size(f.as, e))
      field(f) == Total(Map(LAMBDA e : f.tag + payload(f, e), Occurrences(f, m[f.name])))
  IN  Total(Map(field, Schema[t].size))

Framed(bytes) == encodeVarint(Len(bytes)) \o bytes

\* What is written for each value of field f, in the order of the bytes.
RECURSIVE Pieces(_, _)
Pieces(f, v) ==
  LET all(t, m) == FlattenSeq(Map(LAMBDA g : Pieces(g, m[g.name]), Reverse(Schema[t].marshal)))
      payload(e) ==
        CASE f.as = "varint" -> encodeVarint(e)
          [] f.as = "bytes"  -> Framed(e)
          [] f.as = "packed" -> Framed(FlattenSeq(Map(encodeVarint, e)))
          [] OTHER           -> Framed(FlattenSeq(all(f.as, e)))
  IN  Map(LAMBDA e : f.tag \o payload(e), Occurrences(f, v))

----------------------------------------------------------------------------
(* Reading.                                                                 *)

\* A message before anything is read.
RECURSIVE Zero(_)
Zero(t) ==
  LET fields  == Range(Schema[t].unmarshal)
      zero(f) == CASE f.when = "nonzero" -> 0
                   [] f.when = "always" /\ f.as # "bytes" -> Zero(f.as)
                   [] OTHER -> <<>>
  IN  [name \in {f.name : f \in fields} |-> zero(CHOOSE f \in fields : f.name = name)]

\* Behind what follows a tag of an unknown field.
Past(bytes, tag) ==
  CASE tag.n % 8 = 0 -> Number(bytes, tag.next)
    [] tag.n % 8 = 1 -> Position(tag.next + 8)
    [] tag.n % 8 = 2 -> Then(Number(bytes, tag.next), LAMBDA length : Position(length.next + length.n))
    [] tag.n % 8 = 5 -> Position(tag.next + 4)
    [] tag.n % 8 \in {3, 4} -> Position(tag.next)
    [] OTHER -> Failure

\* Mutant: the end of a group is not looked for.
skip_Flat(bytes, i, depth) == Then(Number(bytes, i), LAMBDA tag : Past(bytes, tag))

\* The position behind the unknown field at position i, inside of depth groups.
RECURSIVE skip(_, _, _)
skip(bytes, i, depth) ==
  LET inside(tag) == depth + CASE tag.n % 8 = 3 -> 1 [] tag.n % 8 = 4 -> -1 [] OTHER -> 0
      after(past, groups) == IF groups = 0 THEN past ELSE skip(bytes, past.next, groups)
  IN  Then(Number(bytes, i),
        LAMBDA tag : IF inside(tag) < 0
                       THEN Failure
                       ELSE Then(Past(bytes, tag), LAMBDA past : after(past, inside(tag))))

\* The numbers that are packed into bytes from position i to before past, and the position
\* behind them.  The last one is read to the end of the data.
RECURSIVE Unpacked(_, _, _)
Unpacked(bytes, i, past) ==
  IF i >= past THEN [ok |-> TRUE, n |-> <<>>, next |-> i]
  ELSE Then(Number(bytes, i), LAMBDA number :
         Then(Unpacked(bytes, number.next, past), LAMBDA rest : [rest EXCEPT !.n = <<number.n>> \o @]))

Slice(bytes, i, past) == [ok |-> TRUE, bytes |-> SubSeq(bytes, i, past - 1), next |-> past]

\* Mutant: a length that goes beyond the end is taken for what is left.
Frame_Lenient(bytes, i) ==
  Then(Number(bytes, i),
    LAMBDA length : IF length.next + length.n <= Len(bytes) + 1
                      THEN Slice(bytes, length.next, length.next + length.n)
                      ELSE Slice(bytes, length.next, Len(bytes) + 1))

\* The bytes behind the length at position i.
Frame(bytes, i) ==
  Then(Number(bytes, i),
    LAMBDA length : IF length.next + length.n <= Len(bytes) + 1
                      THEN Slice(bytes, length.next, length.next + length.n)
                      ELSE Failure)

\* Message m with v read into field f.
Stored(m, f, v) ==
  [m EXCEPT ![f.name] = CASE f.when = "each" -> Append(@, v)
                          [] f.when = "set"  -> <<v>>
                          [] OTHER           -> v]

RECURSIVE Unmarshal(_, _, _, _)

\* Message m after the value of field f at position i of bytes, and the position behind it.
\* A message is read into the one that is there already.
ReadValue(f, wireType, bytes, i, m) ==
  LET there == CASE f.when = "always" -> m[f.name]
                 [] f.when = "set" /\ m[f.name] # <<>> -> m[f.name][1]
                 [] OTHER -> Zero(f.as)
      read(v, next) == [ok |-> TRUE, m |-> Stored(m, f, v), next |-> next]
      packed(frame) == Unpacked(bytes, frame.next - Len(frame.bytes), frame.next)
  IN  IF f.as = "packed" /\ wireType = 0
        THEN Then(Number(bytes, i), LAMBDA number : read(Append(m[f.name], number.n), number.next))
      ELSE IF wireType # f.tag THEN Failure
      ELSE IF f.as = "varint" THEN Then(Number(bytes, i), LAMBDA number : read(number.n, number.next))
      ELSE Then(Frame(bytes, i), LAMBDA frame :
             CASE f.as = "bytes"  -> read(frame.bytes, frame.next)
               [] f.as = "packed" -> Then(packed(frame), LAMBDA all : read(m[f.name] \o all.n, all.next))
               [] OTHER -> Then(Unmarshal(f.as, frame.bytes, 1, there), LAMBDA inner : read(inner.m, frame.next)))

\* Message m of type t after the field at position i of bytes, and the position behind it.
ReadField(t, bytes, i, m) ==
  LET known(fields, tag) ==
        IF tag.n \div 8 \in DOMAIN fields
          THEN ReadValue(fields[tag.n \div 8], tag.n % 8, bytes, tag.next, m)
          ELSE Then(skip(bytes, i, 0), LAMBDA past :
                 IF past.next > Len(bytes) + 1 THEN Failure ELSE [ok |-> TRUE, m |-> m, next |-> past.next])
  IN  Then(Number(bytes, i), LAMBDA tag :
        IF tag.n % 8 = 4 \/ tag.n \div 8 = 0 THEN Failure ELSE known(Schema[t].unmarshal, tag))

\* Message m after all fields from position i on.
Unmarshal(t, bytes, i, m) ==
  IF i > Len(bytes)
    THEN [ok |-> TRUE, m |-> m]
    ELSE Then(ReadField(t, bytes, i, m), LAMBDA field : Unmarshal(t, bytes, field.next, field.m))

----------------------------------------------------------------------------
(* Messages to try: a field is empty, short or long.                        *)

RECURSIVE Sample(_, _)
Sample(f, level) ==
  LET below == IF level = 0 THEN 0 ELSE level - 1
      parts == [name \in DOMAIN Zero(f.as) |->
                  Sample(CHOOSE g \in Range(Schema[f.as].unmarshal) : g.name = name, below)]
      least == IF f.when = "always" THEN 1 ELSE 0
      one   == CASE f.as = "varint" -> <<0, 1, 300>>[level + 1]
                 [] f.as = "packed" -> <<<<>>, <<1>>, <<2, 0, 300>>>>[level + 1]
                 [] f.as = "bytes"  -> [i \in 1 .. <<least, 2, Long>>[level + 1] |-> 8 + level]
                 [] OTHER           -> parts
  IN  CASE f.when \in {"set", "each"} /\ level = 0 -> <<>>
        [] f.when = "each" /\ level = 2 -> <<Sample([f EXCEPT !.when = "always"], 1), one>>
        [] f.when \notin {"set", "each"} -> one
        [] OTHER -> <<one>>

\* All fields alike, or one of them unlike the others.  Values that have methods of their
\* own are never empty.
Samples(t) ==
  LET names  == DOMAIN Zero(t)
      field(name) == CHOOSE f \in Range(Schema[t].unmarshal) : f.name = name
      alike  == {[n \in names |-> l] : l \in 0 .. 2}
      levels == alike \cup {[a EXCEPT ![n] = l] : a \in alike, n \in names, l \in 0 .. 2}
  IN  {[n \in names |-> Sample(field(n), l[n])] : l \in levels}

\* Fields with a number that no message has, of every wire type; the last two are groups.
Unknowns ==
  LET tag(wireType) == encodeVarint(31 * 8 + wireType)
  IN  {tag(0) \o <<172, 2>>, tag(1) \o <<1, 2, 3, 4, 5, 6, 7, 8>>, tag(2) \o <<2, 10, 10>>,
       tag(5) \o <<1, 2, 3, 4>>, tag(3) \o tag(4),
       tag(3) \o <<8, 1>> \o tag(3) \o tag(4) \o tag(4)}

----------------------------------------------------------------------------

\* The pieces of a message in the order of the bytes.
MessagePieces(t, m) ==
  FlattenSeq(Map(LAMBDA f : Pieces(f, m[f.name]), Reverse(Schema[t].marshal)))

\* Where fields end.
Boundaries(t, m) ==
  LET pieces == MessagePieces(t, m)
  IN  {Len(FlattenSeq(SubSeq(pieces, 1, k))) : k \in 0 .. Len(pieces)}

CodecInit ==
  /\ type \in DOMAIN Schema
  /\ value \in Samples(type)
  /\ stage = "marshal"
  /\ written = 0
  /\ data = <<>>
  /\ fault = "none"
  /\ index = 1
  /\ message = Zero(type)

\* Write the next field in front of the others.
MarshalField ==
  /\ stage = "marshal"
  /\ written < Len(Schema[type].marshal)
  /\ LET f == Schema[type].marshal[written + 1]
     IN  data' = FlattenSeq(Pieces(f, value[f.name])) \o data
  /\ stage' = IF Len(data') > Size(type, value) THEN "panic" ELSE stage
  /\ written' = written + 1
  /\ UNCHANGED <<type, value, fault, index, message>>

\* As many bytes as were written, from the beginning of the buffer.
Marshal ==
  /\ stage = "marshal"
  /\ written = Len(Schema[type].marshal)
  /\ LET unused == [i \in 1 .. Size(type, value) - Len(data) |-> 0]
     IN  data' = SubSeq(unused \o data, 1, Len(data))
  /\ stage' = "travel"
  /\ UNCHANGED <<type, value, written, fault, index, message>>

Arrive(bytes, how) ==
  /\ stage = "travel"
  /\ data' = bytes
  /\ fault' = how
  /\ stage' = "unmarshal"
  /\ UNCHANGED <<type, value, written, index, message>>

Deliver == Arrive(data, "none")

Cut ==
  /\ stage = "travel"
  /\ Len(data) <= MaxFaulty
  /\ \E n \in 0 .. Len(data) - 1 :
       Arrive(SubSeq(data, 1, n), IF n \in Boundaries(type, value) THEN "short" ELSE "broken")

Extend ==
  /\ stage = "travel"
  /\ Len(data) <= MaxFaulty
  /\ \E n \in Boundaries(type, value), u \in Unknowns :
       Arrive(SubSeq(data, 1, n) \o u \o SubSeq(data, n + 1, Len(data)), "extended")

UnmarshalField ==
  /\ stage = "unmarshal"
  /\ index <= Len(data)
  /\ LET step == ReadField(type, data, index, message)
     IN  IF step.ok
           THEN message' = step.m /\ index' = step.next /\ UNCHANGED stage
           ELSE stage' = "error" /\ UNCHANGED <<message, index>>
  /\ UNCHANGED <<type, value, written, data, fault>>

Unmarshalled ==
  /\ stage = "unmarshal"
  /\ index > Len(data)
  /\ stage' = "done"
  /\ UNCHANGED <<type, value, written, data, fault, index, message>>

CodecNext == MarshalField \/ Marshal \/ Deliver \/ Cut \/ Extend \/ UnmarshalField \/ Unmarshalled

CodecSpec == CodecInit /\ [][CodecNext]_codecVars

----------------------------------------------------------------------------
(* What the generated code guarantees.                                      *)

\* The buffer that Size reserves is filled exactly: MarshalToSizedBuffer never writes beyond
\* its beginning and leaves no byte of it, in any message and with messages inside.
SizeExact ==
  /\ stage # "panic"
  /\ stage = "travel" => Len(data) = Size(type, value)

\* What arrives whole is read as it was written, also with fields that the reader does not
\* know between the others (the tags of MarshalToSizedBuffer against the cases of Unmarshal,
\* and skip).
RoundTrip ==
  /\ stage = "error" => fault \in {"short", "broken"}
  /\ stage = "done" /\ fault \in {"none", "extended"} => message = value

\* A message that was cut off inside of a field is refused, and one that ends between two
\* fields is read as far as it goes (the checks against the end of the data).
CutsNoticed ==
  /\ fault = "broken" => stage # "done"
  /\ fault = "short" => stage # "error"
=============================================================================
