---------------------------- MODULE BlobDictionary ----------------------------
(***************************************************************************)
(* The dictionary of byte blobs of core/collections, which HashDictionary  *)
(* and TruncatedHashDictionary wrap: a tree over the chunks of a key whose *)
(* nodes are short lists of leaves until they grow into maps of nodes, and *)
(* beside it a plain map of the leaves, used to iterate and to count.      *)
(* A chunk is a letter, and all keys have the same number of them, as      *)
(* hashes do.                                                              *)
(***************************************************************************)
EXTENDS Integers, SequencesExt

CONSTANTS
    Keys,
    MapNodeThreshold,
    ByteSize        \* 256

VARIABLES
    nodes,      \* nodes[path]: "map", or the keys of the leaves listed there
    keyvals     \* the keys of the leaves; a leaf, with its value, is shared with the tree

dictionaryVars == <<nodes, keyvals>>

Init == nodes = [path \in {<<>>} |-> <<>>] /\ keyvals = {}

\* What a map has a node under: the first four bytes of a chunk are shifted
\* into 32 bits with a sign, the others multiplied in, the length is added.
ChunkSize == 6
BytesAsU48(bytes) ==
    LET byte(i) == IF i <= Len(bytes) THEN bytes[i] ELSE 0
        shifted == FoldLeft(LAMBDA n, i : (n * ByteSize) + byte(i), 0, <<1, 2, 3, 4>>)
        signed == IF 2 * shifted >= ByteSize ^ 4 THEN shifted - (ByteSize ^ 4) ELSE shifted
    IN  8 * FoldLeft(LAMBDA n, b : (n * ByteSize) + b, signed, SubSeq(bytes, 5, Len(bytes))) + Len(bytes)
Chunks == UNION {[1..n -> 0..(ByteSize - 1)] : n \in 1..ChunkSize}

\* Where a walk through the maps ends: at a list, or where a node is missing.
IsMap(path) == path \in DOMAIN nodes /\ nodes[path] = "map"
Home(key) == CHOOSE path \in Prefixes(key) :
    ~IsMap(path) /\ \A p \in Prefixes(key) : Len(p) < Len(path) => IsMap(p)
ListAt(path) == IF path \in DOMAIN nodes THEN nodes[path] ELSE <<>>

Find(key) == key \in ToSet(ListAt(Home(key)))

\* The new nodes are lists, however long.
FirstOfEach(list, depth) ==
    LET child(key) == SubSeq(key, 1, depth) IN
    [path \in {child(key) : key \in ToSet(list)} |->
        SubSeq(SelectSeq(list, LAMBDA key : child(key) = path), 1, 1)]
FromListNode(list, depth) ==
    LET child(key) == SubSeq(key, 1, depth) IN
    [path \in {child(key) : key \in ToSet(list)} |-> SelectSeq(list, LAMBDA key : child(key) = path)]

\* A call that changed nothing may convert too.
InternalSet(key, list) ==
    LET path == Home(key)
        tooLong == Len(key) - Len(path) > 1 /\ Len(list) > MapNodeThreshold
        changed == IF tooLong THEN [p \in {path} |-> "map"] @@ FromListNode(list, Len(path) + 1)
                   ELSE [p \in {path} |-> list]
    IN  nodes' = changed @@ nodes

Set(key) ==
    /\ InternalSet(key, IF Find(key) THEN ListAt(Home(key)) ELSE Append(ListAt(Home(key)), key))
    /\ keyvals' = keyvals \cup {key}

\* Nothing is made where the walk ends at a missing node.
Delete(key) ==
    /\ IF Home(key) \in DOMAIN nodes THEN InternalSet(key, Remove(ListAt(Home(key)), key)) ELSE UNCHANGED nodes
    /\ keyvals' = IF Find(key) THEN keyvals \ {key} ELSE keyvals

\* keys, values, entries and toSortedArray go over the plain map.
Entries == keyvals
Size == Cardinality(Entries)

DictionaryNext == \E key \in Keys : Set(key) \/ Delete(key)

\* Different chunks have different nodes.
ChunksHaveNodes == Cardinality({BytesAsU48(chunk) : chunk \in Chunks}) = Cardinality(Chunks)

\* The tree finds exactly the keys the iteration yields; every leaf is below
\* the node of its prefix, once; and no node of the last chunk is a map.
TreeFindsWhatIsListed ==
    /\ \A key \in Keys : Find(key) <=> key \in Entries
    /\ Size = FoldFunction(LAMBDA list, n : n + (IF list = "map" THEN 0 ELSE Len(list)), 0, nodes)
    /\ \A path \in DOMAIN nodes :
        IF IsMap(path) THEN \A key \in Keys : Len(path) + 1 < Len(key)
        ELSE IsInjective(nodes[path]) /\ \A key \in ToSet(nodes[path]) : path \in Prefixes(key)
=============================================================================
