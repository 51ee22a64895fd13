---------------------------------- MODULE Codec ----------------------------------
(***************************************************************************)
(* The codec of core/codec.  A descriptor says how a value is written, how *)
(* it is read and how its bytes are skipped; a view of an object or of a   *)
(* sequence skips the fields before the one that is asked for, remembers   *)
(* where each began, and reads a field only when it is needed.             *)
(* Bytes have ByteBits bits, so that all of the variable-length naturals   *)
(* can be enumerated.  A read past the end gives zeros: the offset shows   *)
(* that it throws.                                                         *)
(***************************************************************************)
EXTENDS Descriptors

CONSTANTS
    ByteBits,   \* 8
    Subjects    \* descriptors, each with one of its values

VARIABLES
    subject,    \* what a view is of: the descriptor and the value
    offset,     \* bytesRead() of the decoder of the view
    cache       \* cache[i]: where the decoder of the field stands

codecVars == <<subject, offset, cache>>

Base == 2 ^ ByteBits
LittleEndian(num, n) == [i \in 1..n |-> (num \div Base ^ (i - 1)) % Base]
Byte(source, at) == IF at \in DOMAIN source THEN source[at] ELSE 0
Number(source, at, n) == FoldLeft(LAMBDA sum, i : sum + Byte(source, at + i) * Base ^ i, 0, [i \in 1..n |-> i - 1])

\* Naturals: the ones that lead the first byte count the bytes after it.
EncodeVarU64(num) ==
    IF num = 0 THEN <<0>>
    ELSE IF num >= 2 ^ ((ByteBits - 1) * ByteBits) THEN <<Base - 1>> \o LittleEndian(num, ByteBits)
    ELSE LET l == CHOOSE l \in 0..(ByteBits - 1) :
                      num >= 2 ^ ((ByteBits - 1) * l) /\ num < 2 ^ ((ByteBits - 1) * (l + 1))
         IN  <<Base - 2 ^ (ByteBits - l) + num \div Base ^ l>> \o LittleEndian(num % (Base ^ l), l)
ExtraBytes(first) ==
    LET fits == {l \in 1..ByteBits : first >= Base - 2 ^ (ByteBits - l)} IN
    IF fits = {} THEN 0 ELSE CHOOSE l \in fits : \A m \in fits : m <= l
ReadVarU64(source, at) ==
    LET first == Byte(source, at)
        l == ExtraBytes(first)
        high == IF l = ByteBits THEN 0 ELSE (first + 2 ^ (ByteBits - l) - Base) * Base ^ l
    IN  [value |-> high + Number(source, at + 1, l), next |-> at + 1 + l]

BytesFor(bits) == (bits + ByteBits - 1) \div ByteBits
PackBits(bits) == [b \in 1..BytesFor(Len(bits)) |->
    FoldLeft(LAMBDA sum, i : LET at == (b - 1) * ByteBits + i IN
                 IF at \in DOMAIN bits /\ bits[at] THEN sum + 2 ^ (i - 1) ELSE sum,
             0, [i \in 1..ByteBits |-> i])]
Bits(source, at, n) ==
    [i \in 1..n |-> (Byte(source, at + (i - 1) \div ByteBits) \div 2 ^ ((i - 1) % ByteBits)) % 2 = 1]

KeysInOrder(dictionary) == SortSeq(SetToSeq(DOMAIN dictionary), <)

RECURSIVE Encode(_, _), Decode(_, _, _), DecodeMany(_, _, _, _), Skip(_, _, _), Hint(_)

EncodeAll(parts, values) == FlattenSeq([i \in DOMAIN values |-> Encode(parts[i], values[i])])
Repeat(d, n) == [i \in 1..n |-> d]
Encode(d, value) ==
    CASE d.kind = "natural" -> EncodeVarU64(value)
      [] d.kind = "number" -> LittleEndian(value, d.size)
      [] d.kind = "bool" -> <<IF value THEN 1 ELSE 0>>
      [] d.kind = "blob" -> EncodeVarU64(Len(value)) \o value
      [] d.kind = "bits" -> PackBits(value)
      [] d.kind = "optional" -> IF value = <<>> THEN <<0>> ELSE <<1>> \o Encode(d.parts[1], value[1])
      [] d.kind = "sequence" -> EncodeVarU64(Len(value)) \o EncodeAll(Repeat(d.parts[1], Len(value)), value)
      [] d.kind = "object" -> EncodeAll(d.parts, value)
      [] d.kind = "union" -> EncodeVarU64(value[1] - 1) \o Encode(d.parts[value[1]], value[2])
      [] d.kind = "dictionary" ->
            LET keys == KeysInOrder(value) IN
            EncodeVarU64(Len(keys)) \o FlattenSeq([i \in DOMAIN keys |->
                Encode(d.parts[1], keys[i]) \o Encode(d.parts[2], value[keys[i]])])

\* Reads parts in a row; the value is the sequence of theirs.
DecodeMany(parts, source, at, read) ==
    IF parts = <<>> THEN [value |-> read, next |-> at]
    ELSE LET one == Decode(Head(parts), source, at) IN
         DecodeMany(Tail(parts), source, one.next, Append(read, one.value))
Decode(d, source, at) ==
    LET length == ReadVarU64(source, at)
        many(parts, from) == DecodeMany(parts, source, from, <<>>)
    IN
    CASE d.kind = "natural" -> length
      [] d.kind = "number" -> [value |-> Number(source, at, d.size), next |-> at + d.size]
      [] d.kind = "bool" -> [value |-> Byte(source, at) = 1, next |-> at + 1]
      [] d.kind = "blob" -> [value |-> [i \in 1..length.value |-> Byte(source, length.next + i - 1)],
                             next |-> length.next + length.value]
      [] d.kind = "bits" -> [value |-> Bits(source, at, d.size), next |-> at + BytesFor(d.size)]
      [] d.kind = "optional" -> many(IF Byte(source, at) = 1 THEN d.parts ELSE <<>>, at + 1)
      [] d.kind = "sequence" -> many(Repeat(d.parts[1], length.value), length.next)
      [] d.kind = "object" -> many(d.parts, at)
      [] d.kind = "union" ->
            LET one == Decode(d.parts[length.value + 1], source, length.next) IN
            [value |-> <<length.value + 1, one.value>>, next |-> one.next]
      [] d.kind = "dictionary" ->
            LET entries == many(FlattenSeq(Repeat(d.parts, length.value)), length.next) IN
            [value |-> [k \in {entries.value[2 * i - 1] : i \in 1..length.value} |->
                           entries.value[2 * (CHOOSE i \in 1..length.value : entries.value[2 * i - 1] = k)]],
             next |-> entries.next]

\* An exact hint is the size of every encoding: an object of such parts is
\* skipped at once.
Hint(d) ==
    CASE d.kind = "number" -> [bytes |-> d.size, isExact |-> TRUE]
      [] d.kind = "bool" -> [bytes |-> 1, isExact |-> TRUE]
      [] d.kind = "bits" -> [bytes |-> d.size \div ByteBits, isExact |-> TRUE]
      [] d.kind = "object" ->
            [bytes |-> FoldLeft(LAMBDA sum, p : sum + Hint(p).bytes, 0, d.parts),
             isExact |-> \A i \in DOMAIN d.parts : Hint(d.parts[i]).isExact]
      [] OTHER -> [bytes |-> 0, isExact |-> FALSE]

SkipMany(parts, source, at) == FoldLeft(LAMBDA next, part : Skip(part, source, next), at, parts)
\* Of a dictionary: all keys, and then all values.
Skip(d, source, at) ==
    LET length == ReadVarU64(source, at) IN
    CASE d.kind = "natural" -> length.next
      [] d.kind = "number" -> at + d.size
      [] d.kind = "bool" -> at + 1
      [] d.kind = "blob" -> length.next + length.value
      [] d.kind = "bits" -> at + BytesFor(d.size)
      [] d.kind = "optional" -> SkipMany(IF Byte(source, at) = 1 THEN d.parts ELSE <<>>, source, at + 1)
      [] d.kind = "sequence" -> SkipMany(Repeat(d.parts[1], length.value), source, length.next)
      [] d.kind = "object" -> IF Hint(d).isExact THEN at + Hint(d).bytes ELSE SkipMany(d.parts, source, at)
      [] d.kind = "union" -> Skip(d.parts[length.value + 1], source, length.next)
      [] d.kind = "dictionary" ->
            SkipMany(Repeat(d.parts[2], length.value), source,
                     SkipMany(Repeat(d.parts[1], length.value), source, length.next))

\* A view begins behind another value in the same source.
Source == <<1>> \o Encode(subject.descriptor, subject.value)
Start == 2
IsSequence == subject.descriptor.kind = "sequence"
HasView == subject.descriptor.kind \in {"object", "sequence"}
Length == ReadVarU64(Source, Start)
Fields == IF IsSequence THEN Repeat(subject.descriptor.parts[1], Length.value) ELSE subject.descriptor.parts

Init ==
    /\ subject \in Subjects
    /\ cache = <<>>
    /\ offset = IF IsSequence THEN Length.next ELSE Start

OffsetsFromStart(last) == FoldLeft(LAMBDA at, i : Append(at, Skip(Fields[i], Source, Last(at))), <<offset>>,
                          [i \in 1..(last - Len(cache)) |-> i])
\* decodeUpTo: the fields from the first that is not in the cache.
Offsets(last) == FoldLeft(LAMBDA at, i : Append(at, Skip(Fields[i], Source, Last(at))), <<offset>>,
                          [i \in 1..(last - Len(cache)) |-> Len(cache) + i])
DecodeUpTo(index) ==
    LET at == Offsets(index) IN
    /\ cache' = cache \o Front(at) /\ offset' = Last(at)
    /\ UNCHANGED subject
Get(index) == HasView /\ index > Len(cache) /\ DecodeUpTo(index)

CodecNext == HasView /\ \E index \in DOMAIN Fields : Get(index)

BytesAt(at, n) == [i \in 1..n |-> Byte(Source, at + i - 1)]
\* encoded(), which decodes up to the last field.
ViewEncoded == IF Fields = <<>> THEN <<>> ELSE BytesAt(Start, Last(Offsets(Len(Fields))) - Start)

RECURSIVE HasLooseDictionary(_)
HasLooseDictionary(d) ==
    (d.kind = "dictionary" /\ ~Hint(d.parts[2]).isExact) \/ \E i \in DOMAIN d.parts : HasLooseDictionary(d.parts[i])

SkipsWhatItReads == Skip(subject.descriptor, Source, Start) = Decode(subject.descriptor, Source, Start).next
\* What is written is read back, all of it, and skipped as it is read; a field
\* of a view is the field of the value, in whatever order they are asked for;
\* and a view gives back the bytes it was made from.  Dictionaries with values
\* of any length are only read: their skipper does not end where they do.
CodecIsExact ==
    /\ LET decoded == Decode(subject.descriptor, Source, Start) IN
       decoded.value = subject.value /\ decoded.next = Len(Source) + 1
    /\ ~HasLooseDictionary(subject.descriptor) =>
        /\ SkipsWhatItReads
        /\ HasView =>
            /\ \A i \in DOMAIN cache :
                  /\ LET written == Encode(Fields[i], subject.value[i]) IN written = BytesAt(cache[i], Len(written))
                  /\ Decode(Fields[i], Source, cache[i]).value = subject.value[i]
            /\ Fields # <<>> => ViewEncoded = Tail(Source)
=============================================================================
