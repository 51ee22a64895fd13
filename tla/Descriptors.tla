------------------------------ MODULE Descriptors ------------------------------
(***************************************************************************)
(* The descriptors of core/codec (descriptors.ts): what is written and     *)
(* read, with the number of bytes they promise.  An object is a tuple of   *)
(* its fields, an optional value a tuple of none or one, a member of a     *)
(* union a pair of its number and its value, a dictionary a function.      *)
(***************************************************************************)
EXTENDS Integers, SequencesExt

Descriptor(kind, parts, size) == [kind |-> kind, parts |-> parts, size |-> size]

VarU64 == Descriptor("natural", <<>>, 0)
Fixed(bytes) == Descriptor("number", <<>>, bytes)
Bool == Descriptor("bool", <<>>, 0)
Blob == Descriptor("blob", <<>>, 0)
BitVecFixLen(bits) == Descriptor("bits", <<>>, bits)
Optional(type) == Descriptor("optional", <<type>>, 0)
SequenceVarLen(type) == Descriptor("sequence", <<type>>, 0)
Dictionary(keys, values) == Descriptor("dictionary", <<keys, values>>, 0)
Union(types) == Descriptor("union", types, 0)
Class(fields) == Descriptor("object", fields, 0)
=============================================================================
