--------------------------- MODULE DummyFinalizer ---------------------------
(***************************************************************************)
(* The depth based finalizer of the importer                               *)
(* (workers/importer/finality.ts) together with the two things the         *)
(* importer does around it: the block it announces is in the database      *)
(* (importer.ts 215-230), and the states the finalizer reports as prunable *)
(* are given up (importer.ts 232-247).  A node that restarts rebuilds the  *)
(* finalizer from the best block only.                                     *)
(*                                                                         *)
(* `unfinalized` is an array of arrays in the code.  The order of the      *)
(* chains has no influence on the result, because chains that hold the     *)
(* same block have the same prefix up to it (ChainsAreBranches), so the    *)
(* model keeps a set of chains.                                            *)
(***************************************************************************)
EXTENDS Naturals, Sequences, FiniteSets, SequencesExt

CONSTANTS
    Header,       \* hashes of the blocks that may be imported
    Genesis,      \* the block the database starts with
    NotImported,  \* value of parent[h] for a block that is not in the database
    NoFinality,   \* the `null` a call returns when nothing was finalized
    Depth,        \* the finalizer's `depth`
    MaxRestarts   \* bound: how many times the node may restart

ASSUME GenesisAssumption == Genesis \notin Header /\ NotImported \notin Header \cup {Genesis}
ASSUME DepthAssumption == Depth \in Nat \ {0}

VARIABLES
    parent,         \* header -> parent header, the block tree in BlocksDb
    best,           \* BlocksDb.getBestHeaderHash()
    lastFinalized,  \* lastFinalizedHash
    unfinalized,    \* chains of not yet finalized blocks
    finality,       \* what the last onBlockImported returned
    pruned,         \* blocks whose states the importer marked unused
    restarts        \* bound on Restart

dbVars == <<parent, best, pruned>>
finalityVars == <<lastFinalized, unfinalized, finality>>
finalizerVars == <<parent, best, lastFinalized, unfinalized, finality, pruned, restarts>>

Block == Header \cup {Genesis}
Imported == {Genesis} \cup {h \in Header : parent[h] # NotImported}
Surviving == Imported \ pruned

-----------------------------------------------------------------------------
FinalizerInit ==
    /\ parent = [h \in Header |-> NotImported]
    /\ best = Genesis
    /\ lastFinalized = best
    /\ unfinalized = {}
    /\ finality = NoFinality
    /\ pruned = {}
    /\ restarts = 0

TipIs(chain, b) == Last(chain) = b
Position(chain, b) == CHOOSE i \in DOMAIN chain : chain[i] = b

\* The chain that the new block h extends, with the set of chains that
\* results: attach at a tip, start at the finalized block, or copy the prefix
\* of the chain that has the parent in its middle.
AttachAtTip(h, p) ==
    {[chains |-> (unfinalized \ {c}) \cup {Append(c, h)}, extended |-> Append(c, h)] :
        c \in {x \in unfinalized : TipIs(x, p)}}

AttachAtFinalized(h, p) ==
    IF p = lastFinalized
    THEN {[chains |-> unfinalized \cup {<<h>>}, extended |-> <<h>>]}
    ELSE {}

ForkWithoutPrefix(h, p) ==
    {[chains |-> unfinalized \cup {<<h>>}, extended |-> <<h>>] :
        c \in {x \in unfinalized : Contains(x, p)}}

AttachByForking(h, p) ==
    {LET fork == Append(SubSeq(c, 1, Position(c, p)), h)
     IN  [chains |-> unfinalized \cup {fork}, extended |-> fork] :
        c \in {x \in unfinalized : Contains(x, p)}}

\* The three places are tried in this order; an orphan finds none.
Attachments(h, p) ==
    IF AttachAtTip(h, p) # {} THEN AttachAtTip(h, p)
    ELSE IF AttachAtFinalized(h, p) # {} THEN AttachAtFinalized(h, p)
    ELSE AttachByForking(h, p)

\* A plausible bug: the comment's `2 * depth` taken for the first length that
\* is long enough.
IsTwiceAsDeep(chain) == Len(chain) >= 2 * Depth

\* The chain is long enough to finalize its block at depth `Depth`.
IsDeepEnough(chain) == Len(chain) > 2 * Depth

\* The block that becomes finalized.
NewlyFinalized(chain) == chain[Len(chain) - Depth]

Prefix(chain, b) == SubSeq(chain, 1, Position(chain, b))
Rest(chain, b) == SubSeq(chain, Position(chain, b) + 1, Len(chain))

\* A plausible bug: the forks that died are forgotten.
PrunableBranchOnly(chains, f) ==
    {lastFinalized}
        \cup (UNION {ToSet(Prefix(c, f)) \ {f} : c \in {x \in chains : Contains(x, f)}})

\* What is given up when f is finalized: the old finalized block, what is
\* before f in the chains through f, and the chains that do not hold f.
Prunable(chains, f) ==
    {lastFinalized}
        \cup (UNION {ToSet(Prefix(c, f)) \ {f} : c \in {x \in chains : Contains(x, f)}})
        \cup (UNION {ToSet(c) : c \in {x \in chains : ~Contains(x, f)}})

\* The chains through f that go on above it, and the blocks up to f.
Remaining(alive, f) == {Rest(c, f) : c \in alive} \ {<<>>}
Committed(alive, f) == Prefix(CHOOSE c \in alive : TRUE, f)

\* finality.ts 94-149 for the chain that was just extended.
Settle(chains, extended) ==
    \/ /\ ~IsDeepEnough(extended)
       /\ unfinalized' = chains
       /\ finality' = NoFinality
       /\ UNCHANGED <<lastFinalized, pruned>>
    \/ /\ IsDeepEnough(extended)
       /\ LET f == NewlyFinalized(extended)
              alive == {c \in chains : Contains(c, f)}
          IN  /\ lastFinalized' = f
              /\ unfinalized' = Remaining(alive, f)
              /\ finality' = [finalizedHash |-> f,
                              finalizedChain |-> Prefix(extended, f),
                              newlyFinalizedHeaders |-> Committed(alive, f),
                              prunableStateHashes |-> Prunable(chains, f)]
              /\ pruned' = pruned \cup Prunable(chains, f)

\* A block whose parent state is available is imported and becomes the best
\* one, the finalizer is told, and the importer prunes what it returns.
OnBlockImported(h) ==
    /\ parent[h] = NotImported
    /\ \E p \in Surviving :
        /\ parent' = [parent EXCEPT ![h] = p]
        /\ best' = h
        /\ \/ \E a \in Attachments(h, p) : Settle(a.chains, a.extended)
           \/ /\ Attachments(h, p) = {}
              /\ finality' = NoFinality
              /\ UNCHANGED <<lastFinalized, unfinalized, pruned>>
    /\ UNCHANGED restarts

\* The process ends and starts again: the chains are lost and the finalizer
\* takes the best block for the finalized one.
Restart ==
    /\ restarts < MaxRestarts
    /\ restarts' = restarts + 1
    /\ lastFinalized' = best
    /\ unfinalized' = {}
    /\ finality' = NoFinality
    /\ UNCHANGED dbVars

FinalizerNext == Restart \/ \E h \in Header : OnBlockImported(h)

FinalizerSpec == FinalizerInit /\ [][FinalizerNext]_finalizerVars

-----------------------------------------------------------------------------
(* Properties *)

\* Lineage[b]: b and all its ancestors.
Lineage ==
    LET lineage[b \in Block \cup {NotImported}] ==
            IF b \in {Genesis, NotImported} THEN {b} ELSE {b} \cup lineage[parent[b]]
    IN  lineage

Tracked == {lastFinalized} \cup UNION {ToSet(c) : c \in unfinalized}

\* The state of DummyFinalizer has the shape finality.ts gives it.
FinalizerTypeOK ==
    /\ parent \in [Header -> Block \cup {NotImported}]
    /\ best \in Block /\ lastFinalized \in Block
    /\ unfinalized \subseteq (Seq(Header \ {lastFinalized}) \ {<<>>})
    /\ pruned \subseteq Block
    /\ restarts \in Nat
    /\ finality # NoFinality => finality.finalizedHash = lastFinalized

\* The chains are the branches of the block tree above the finalized block:
\* each one is a path that starts at a child of it, and no branch is listed
\* twice or is the beginning of another (finality.ts 65-88 attach in place).
ChainsAreBranches ==
    /\ \A c \in unfinalized :
        /\ parent[c[1]] = lastFinalized
        /\ \A i \in 2 .. Len(c) : parent[c[i]] = c[i - 1]
    /\ \A c, d \in unfinalized : IsPrefix(c, d) => c = d

\* Without a restart the finalizer follows every state that is still stored,
\* so no dead fork is left behind forever (finality.ts 133-139).
NothingForgotten == restarts = 0 => Surviving = Tracked

\* Pruning never reaches a block that a later import can need: the finalized
\* block and everything that descends from it keep their states, also when
\* two forks share a prefix (finality.ts 125-139).
DescendantsSurvive ==
    \A b \in Imported : lastFinalized \in Lineage[b] => b \in Surviving

\* A restarted node can load its best state (importer.ts 78-85 throws when it
\* is gone).
BestSurvives == best \in Surviving

\* No chain waits longer than the hysteresis of `depth` says, so no state is
\* kept longer than it must (finality.ts 94-101).
ChainsAreShort == \A c \in unfinalized : Len(c) <= 2 * Depth

\* What is kept and what is given up, both at once.
PruningIsExact == ChainsAreBranches /\ ChainsAreShort /\ NothingForgotten /\ BestSurvives /\ DescendantsSurvive

\* What is handed to commitFinalized is the path of blocks above the previous
\* finalized block, ancestor first and without a gap, and each of them is
\* reported once: ValueRefs replays exactly these deltas.  They are no fewer
\* and no more than the hysteresis says, whatever forks there are.
CommittingStep ==
    finality' # NoFinality =>
        LET new == finality'.newlyFinalizedHeaders
        IN  /\ new = finality'.finalizedChain
            /\ Len(new) = Depth + 1
            /\ Last(new) = lastFinalized'
            /\ parent'[new[1]] = lastFinalized
            /\ \A i \in 2 .. Len(new) : parent'[new[i]] = new[i - 1]
            /\ ToSet(new) \cap pruned = {}

\* Finality moves only forward along one branch and never to a block that has
\* fewer than Depth blocks on top of it.
AdvancingStep ==
    lastFinalized' # lastFinalized =>
        \/ restarts' # restarts
        \/ /\ lastFinalized \in Lineage'[lastFinalized']
           /\ Cardinality(Lineage'[best'] \ Lineage'[lastFinalized']) = Depth

\* The importer commits what becomes final block by block, and only forward.
CommitsThePath == [][CommittingStep /\ AdvancingStep]_finalizerVars

\* The abstract promise of a Finalizer (finality.ts 9-23) is kept: what it
\* finalizes and prunes is what Finality.tla says, until a restart makes it
\* forget which block was finalized.
Abstract == INSTANCE Finality WITH finalized <- lastFinalized
FinalityStep == restarts' = 0 => UNCHANGED <<parent, lastFinalized, pruned>> \/ Abstract!Next
ImplementsFinality == Abstract!Init /\ [][FinalityStep]_finalizerVars
=============================================================================
