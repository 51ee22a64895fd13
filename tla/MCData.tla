-------------------------------- MODULE MCData --------------------------------
(***************************************************************************)
(* The states database and the data structures below it, side by side: an  *)
(* initial state chooses one of them, and only that one runs.              *)
(***************************************************************************)
EXTENDS HybridStates, Descriptors, TLC

\* A header is the number of its import (as in MCParts); keys and values are
\* interchangeable.
InOrder == \A h \in Header : import'.header = h => \A g \in Header : g < h => parent[g] # NotImported
Symmetry == Permutations(Key) \cup Permutations(Value)

VARIABLES
    part,       \* the one that runs
    nodes, keyvals,
    unique, items, held,
    root, stored, leaves,
    peaks, appended,
    subject, offset, cache,
    blob, shards, restored,
    objects, tallies, lastCounted, recounted, tries, valuesDb, inUse, dataCache, viewCache, view

Hashes == INSTANCE BlobDictionary WITH
    Keys <- {<<0, 0, 0>>, <<0, 0, 1>>, <<0, 1, 0>>, <<1, 0, 0>>, <<0, 1, 1>>, <<1, 0, 1>>}, MapNodeThreshold <- 1, ByteSize <- 2
Collections == INSTANCE SortedCollections WITH Element <- (1..3) \X {1, 2}, MaxLength <- 3
Merkle == INSTANCE Trie WITH
    Bits <- 3, TrieValue <- {<<1, 1>>, <<1, 2>>},
    TrieKey <- {<<0, 0, 0>>, <<0, 0, 1>>, <<0, 1, 0>>, <<1, 0, 0>>, <<1, 1, 0>>, <<1, 1, 1>>}
Mountains == INSTANCE MountainRange WITH None <- Empty, MaxHashes <- 17

Values(descriptor, values) == {[descriptor |-> descriptor, value |-> v] : v \in values}
Two == <<TRUE, FALSE>>
MCSubjects ==
    Values(VarU64, 0..511)
    \cup Values(SequenceVarLen(VarU64), {<<>>, <<0>>, <<0, 9>>, <<300, 8, 1>>})
    \cup Values(Class(<<VarU64, Optional(Blob), Fixed(2), SequenceVarLen(VarU64), BitVecFixLen(4)>>),
            {<<n, o, 37, s, b>> : n \in {0, 5, 70}, o \in {<<>>, << <<>> >>, << <<7, 0>> >>},
                                  s \in {<<>>, <<64, 1>>}, b \in {Two \o Two, <<FALSE>> \o Two \o <<TRUE>>}})
    \cup Values(Class(<<VarU64, Class(<<Fixed(1), Bool, BitVecFixLen(6)>>), VarU64>>),
            {<<n, <<6, b, Two \o Two \o Two>>, 3>> : n \in {0, 5, 70}, b \in BOOLEAN})
    \cup Values(Class(<<Union(<<Fixed(1), Blob>>), SequenceVarLen(Class(<<VarU64, Bool>>))>>),
            {<<u, s>> : u \in {<<1, 4>>, <<2, <<1, 2, 3>> >>}, s \in {<<>>, << <<9, TRUE>>, <<200, FALSE>> >>}})
    \cup Values(Class(<<Dictionary(Fixed(1), Fixed(2)), Bool>>), {<<m, TRUE>> : m \in {<<>>, (3 :> 9 @@ 5 :> 8)}})
    \cup Values(Class(<<Dictionary(Fixed(1), VarU64), Bool>>), {<<m, TRUE>> : m \in {<<>>, (3 :> 9 @@ 5 :> 100)}})
Coding == INSTANCE Codec WITH ByteBits <- 3, Subjects <- MCSubjects

\* Eleven chunks of which two suffice; one to three pieces.
MCBlobs == {[x \in 1..n |-> (3 * x * x + x) % 11] : n \in {1, 3, 4, 7, 12}}
Coded == INSTANCE Erasure WITH
    Blobs <- MCBlobs, ValidatorCounts <- {2, 3, 4, 5, 6, 11}, FieldSize <- 11, ChunksRequired <- 2, ChunksTotal <- 11,
    PointLength <- 2, PointAlignment <- 4, HalfPointSize <- 2

\* Two services, one preimage of length 2, one storage key.
Stores == INSTANCE StateStores WITH
    StateHeader <- 0..2, GenesisState <- 0, ServiceId <- {1, 2}, Preimage <- {"p"}, Size <- [p \in {"p"} |-> 2],
    StorageKey <- {"k"}, Basic <- {"timeslot"}, SmallValue <- {<<"small", 1>>, <<"small", 2>>},
    LargeValue <- {<<"large", 1>>}, Absent <- Empty, EpochStart <- {2}, MaxDecoded <- 1

storesVars == <<objects, tallies, lastCounted, recounted, tries, valuesDb, inUse, dataCache, viewCache, view>>
\* A header of the states is the slot of its block.
SlotsGrow == objects' # objects => inUse'.header > inUse.header
structureVars == <<nodes, keyvals, unique, items, held, root, stored, leaves, peaks, appended, subject, offset, cache,
                    blob, shards, restored>>

DatabaseInit ==
    /\ (part # "database" => leafs = [b \in Block |-> IF b = Genesis THEN [k \in Key |-> Empty] ELSE NoState])
    /\ Init
CodingInit ==
    IF part = "codec" THEN Coding!Init
    ELSE subject = [descriptor |-> Bool, value |-> TRUE] /\ cache = <<>> /\ offset = Coding!Start
DataInit ==
    /\ part \in {"database", "dictionary", "sorted", "trie", "mountains", "codec", "erasure", "states"}
    /\ DatabaseInit
    /\ Hashes!Init
    /\ (part # "sorted" => unique = TRUE) /\ Collections!Init
    /\ Merkle!Init /\ Mountains!Init /\ CodingInit /\ Stores!Init
    /\ (part # "erasure" => blob = <<4>>) /\ Coded!ErasureInit

DataNext ==
    /\ UNCHANGED part
    /\ IF part = "database" THEN Next /\ InOrder ELSE UNCHANGED vars
    /\ IF part = "dictionary" THEN Hashes!DictionaryNext ELSE UNCHANGED <<nodes, keyvals>>
    /\ IF part = "sorted" THEN Collections!SortedNext ELSE UNCHANGED <<unique, items, held>>
    /\ IF part = "trie" THEN Merkle!TrieNext ELSE UNCHANGED <<root, stored, leaves>>
    /\ IF part = "mountains" THEN Mountains!AppendHash ELSE UNCHANGED <<peaks, appended>>
    /\ IF part = "erasure" THEN Coded!ErasureNext ELSE UNCHANGED <<blob, shards, restored>>
    /\ IF part = "states" THEN Stores!StoresNext /\ SlotsGrow ELSE UNCHANGED storesVars
    /\ IF part = "codec" THEN Coding!CodecNext ELSE UNCHANGED <<subject, offset, cache>>
DataSpec == DataInit /\ [][DataNext]_<<part, vars, structureVars, storesVars>>
DatabaseSpec == DataSpec /\ part = "database"

\* The collections, the trie, the mountain range and the erasure code do what
\* their definitions say, whatever was done to them before.
StructuresAreExact ==
    /\ part = "dictionary" => Hashes!TreeFindsWhatIsListed /\ Hashes!ChunksHaveNodes
    /\ part = "sorted" => Collections!SortedHoldsItsElements
    /\ part = "mountains" => Mountains!PeaksAreDigits
    /\ part = "trie" => Merkle!TrieIsExact /\ Merkle!StateRootIsUsuallyExact
    /\ part = "erasure" => Coded!DataIsRestored
\* Every value is decoded, skipped and viewed as it was encoded.
CodecIsExact == part = "codec" => Coding!CodecIsExact
\* Objects, entries, caches and views of the state agree after any updates.
StoresAgree == part = "states" => Stores!StoresAgree

\* "Given a collection of leaves, compute the state root." (trie.ts 29)
StateRootIsTrieRoot == part = "trie" => Merkle!StateRootIsTrieRoot
=============================================================================
