-------------------------------- MODULE Erasure --------------------------------
(***************************************************************************)
(* Erasure coding of data for the validators (core/erasure-coding): data   *)
(* is padded and cut into pieces, every piece becomes ChunksTotal points   *)
(* of which any ChunksRequired give it back, the points of all pieces with *)
(* the same index are a chunk, and the chunks are dealt to the validators, *)
(* the first ones again where there are not enough.                        *)
(*                                                                         *)
(* A byte is a member of a prime field, and the Reed-Solomon library takes *)
(* the values of a polynomial on each byte of a shard.  The chunk with     *)
(* index i is at i + 1 of a sequence.                                      *)
(***************************************************************************)
EXTENDS Integers, SequencesExt

CONSTANTS
    Blobs,             \* data to encode, not empty
    ValidatorCounts,   \* chainSpec.validatorsCount
    FieldSize,
    ChunksRequired, ChunksTotal,
    PointLength,       \* bytes of a point
    PointAlignment,    \* bytes of a shard of the library
    HalfPointSize      \* from the first byte of a point to the next there

VARIABLES
    blob,       \* the data
    shards,     \* what the validators got
    restored    \* what was made of some of it

PieceSize == ChunksRequired * PointLength
CeilDiv(a, b) == (a + b - 1) \div b

------------------------------------------------------------------------------
(* The library.                                                            *)

Reciprocal(a) == CHOOSE b \in 1..(FieldSize - 1) : (a * b) % FieldSize = 1

\* The value at x of the polynomial that is ys[i] at xs[i].
Interpolated(xs, ys, x) ==
    LET factor(i, j) == IF i = j THEN 1 ELSE ((x - xs[j]) * Reciprocal((xs[i] - xs[j]) % FieldSize)) % FieldSize
        weight(i) == FoldFunction(LAMBDA f, product : (f * product) % FieldSize, 1, [j \in DOMAIN xs |-> factor(i, j)])
    IN  FoldFunction(LAMBDA t, sum : (t + sum) % FieldSize, 0, [i \in DOMAIN xs |-> ys[i] * weight(i)])

Column(collection, b) == [i \in DOMAIN collection |-> collection[i][b]]
ShardAt(indices, collection, x) == [b \in 1..PointAlignment |-> Interpolated(indices, Column(collection, b), x)]

\* reedSolomon.encode: the redundancy; reedSolomon.decode: the missing ones of
\* the first ChunksRequired, by their indices.
RedundancyOf(collection) ==
    [i \in 1..(ChunksTotal - ChunksRequired) |->
        ShardAt([o \in 1..ChunksRequired |-> o - 1], collection, ChunksRequired + i - 1)]
Reconstructed(indices, collection) ==
    [o \in (0..(ChunksRequired - 1)) \ ToSet(indices) |-> ShardAt(indices, collection, o)]

------------------------------------------------------------------------------
(* From data to chunks and back.                                           *)

Split(input, n, k) == [i \in 1..k |-> SubSeq(input, (i - 1) * n + 1, i * n)]
Join(parts) == FlattenSeq(parts)
Unzip(input, n, k) == [i \in 1..k |-> [j \in 1..n |-> input[(j - 1) * k + i]]]
Lace(parts) ==
    LET k == Len(parts) IN
    IF k = 0 THEN <<>> ELSE [x \in 1..(k * Len(parts[1])) |-> parts[((x - 1) % k) + 1][(x - 1) \div k + 1]]
Transpose(rows, k) == [c \in 1..k |-> [r \in DOMAIN rows |-> rows[r][c]]]

\* The bytes of a point stand HalfPointSize apart in a shard of the library.
Shard(point) ==
    [b \in 1..PointAlignment |-> IF (b - 1) % HalfPointSize = 0 THEN point[(b - 1) \div HalfPointSize + 1] ELSE 0]
Point(shard) == [j \in 1..PointLength |-> shard[(j - 1) * HalfPointSize + 1]]

EncodePoints(piece) ==
    LET points == Split(piece, PointLength, ChunksRequired)
        redundancy == RedundancyOf([i \in DOMAIN points |-> Shard(points[i])])
    IN  points \o [i \in DOMAIN redundancy |-> Point(redundancy[i])]

\* A chunk comes with its index.
DecodePiece(chunks) ==
    LET indices == [i \in DOMAIN chunks |-> chunks[i][1]]
        rest == Reconstructed(indices, [i \in DOMAIN chunks |-> Shard(chunks[i][2])])
        pointAt(o) == IF o \in DOMAIN rest THEN Point(rest[o]) ELSE chunks[CHOOSE i \in DOMAIN chunks : indices[i] = o][2]
    IN  Join([o \in 1..ChunksRequired |-> pointAt(o - 1)])

DecodeData(chunks) ==
    LET points == Len(chunks[1][2]) \div PointLength
        pieceAt(i) == DecodePiece([c \in DOMAIN chunks |->
                          <<chunks[c][1], SubSeq(chunks[c][2], (i - 1) * PointLength + 1, i * PointLength)>>])
    IN  Lace([i \in 1..points |-> pieceAt(i)])
DecodeDataAndTrim(chunks, expectedLength) == SubSeq(DecodeData(chunks), 1, expectedLength)

ChunkingFunction(input) ==
    LET k == Len(input) \div PieceSize
        pieces == Unzip(input, PieceSize, k)
        points == [i \in DOMAIN pieces |-> EncodePoints(pieces[i])]
    IN  [c \in 1..ChunksTotal |-> Join(Transpose(points, ChunksTotal)[c])]

PadAndEncodeData(input) ==
    LET paddedLength == CeilDiv(Len(input), PieceSize) * PieceSize
    IN  ChunkingFunction([x \in 1..paddedLength |-> IF x <= Len(input) THEN input[x] ELSE 0])

------------------------------------------------------------------------------
(* From chunks to what a validator holds and back.                         *)

ChunksToShards(chunks, validatorsCount) ==
    LET allChunks == Join(chunks)
        chunkSize == Len(allChunks) \div ChunksTotal
        aligned == CeilDiv(CeilDiv(Len(allChunks), validatorsCount), chunkSize) * chunkSize
    IN  Split(allChunks \o allChunks, aligned, validatorsCount)

\* The size of a chunk is computed from all there is, the repeated chunks
\* included.
ShardsToChunks(all) ==
    LET shardSize == Len(all[1])
        chunkSize == (Len(all) * shardSize) \div ChunksTotal
        perShard == shardSize \div chunkSize
    IN  [v \in DOMAIN all |-> [i \in 1..perShard |->
            <<((v - 1) * perShard + i - 1) % ChunksTotal, Split(all[v], chunkSize, perShard)[i]>>]]

------------------------------------------------------------------------------
ErasureInit == blob \in Blobs /\ shards = <<>> /\ restored = <<>>

Distribute(validatorsCount) ==
    /\ shards = <<>>
    /\ shards' = ChunksToShards(PadAndEncodeData(blob), validatorsCount)
    /\ UNCHANGED <<blob, restored>>

\* How many bytes too much there are must not make up for a chunk.
ChunkSize == CeilDiv(Len(blob), PieceSize) * PointLength
IsDivided == shards # <<>> /\ Len(shards) * Len(shards[1]) < ChunksTotal * (ChunkSize + 1)

\* Any chunks of any validators, in any order.
Restore ==
    /\ IsDivided /\ restored = <<>>
    /\ LET numbered == UNION {ToSet(ShardsToChunks(shards)[v]) : v \in DOMAIN shards} IN
       \E chunks \in [1..ChunksRequired -> numbered] :
        /\ \A i, j \in DOMAIN chunks : chunks[i][1] = chunks[j][1] => i = j
        /\ restored' = DecodeDataAndTrim(chunks, Len(blob))
    /\ UNCHANGED <<blob, shards>>

ErasureNext == (\E n \in ValidatorCounts : Distribute(n)) \/ Restore

------------------------------------------------------------------------------
(* Properties.                                                             *)

\* Any ChunksRequired of the chunks the validators hold, in any order, give the
\* data back; the validators hold all of the chunks, each under its index,
\* unless what is dealt twice makes the chunks look longer (erasure-coding.ts
\* 374).
DataIsRestored ==
    /\ restored # <<>> => restored = blob
    /\ IsDivided =>
        LET chunks == PadAndEncodeData(blob)
            held == UNION {ToSet(ShardsToChunks(shards)[v]) : v \in DOMAIN shards}
        IN  held = {<<i, chunks[i + 1]>> : i \in 0..(ChunksTotal - 1)}
=============================================================================
