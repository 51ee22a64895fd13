---------------------------- MODULE HybridStates ----------------------------
(***************************************************************************)
(* States in memory, large values on disk                                  *)
(* (jam/database-fjall/hybrid-states.ts), driven by the importer           *)
(* (workers/importer/importer.ts) and its finalizer (DummyFinalizer.tla).  *)
(*                                                                         *)
(* A state is its leaf set: every key holds a large value, or Empty (no    *)
(* leaf, or a value embedded in the leaf).  The values partition is a set  *)
(* of value hashes.  Writes and removals are asynchronous, and removals    *)
(* run in the background while the importer goes on.                       *)
(*                                                                         *)
(* The db cannot be reopened (its leaf sets are in memory), and the fuzz   *)
(* target that uses it imports one block at a time.                        *)
(***************************************************************************)
EXTENDS DummyFinalizer

CONSTANTS
    Key,               \* state keys
    Value,             \* large values, named by their hash
    Empty,             \* a key without a large value
    NoState,           \* value of leafs[b] for a block without a state
    NoDelta,           \* see ValueRefs
    MaxWrites,         \* bound: entries of one state update
    MaxWriteFailures,  \* bound: failing value writes
    MaxRemovalFailures \* bound: failing value removals

VARIABLES
    leafs,      \* inMemStates: block -> key -> value
    refs,       \* refsStore
    disk,       \* keys of the fjall values partition
    cleanup,    \* pendingCleanup: batches of values still to be removed, in order
    stray,      \* removals that were issued but that nobody awaits any more
    pc,         \* where the import stands
    import,     \* the block being imported with its new leaf set and delta
    failures    \* [writes, removals]: failures so far (bounds)

statesVars == <<leafs, refs>>
diskVars == <<disk, cleanup, stray>>
vars == <<finalizerVars, leafs, refs, disk, cleanup, stray, pc, import, failures>>

R == INSTANCE ValueRefs

Leafs == [Key -> Value \cup {Empty}]
Bag == [Value -> Nat]
Delta == [inserted : Bag, removed : Bag]

ASSUME BoundAssumption == MaxWrites \in Nat
ASSUME ValueAssumption == IsFiniteSet(Key) /\ Empty \notin Value
\* What onBlockImported returns when finality moves.
Result == [finalizedHash : Block, finalizedChain : Seq(Header),
           newlyFinalizedHeaders : Seq(Header), prunableStateHashes : SUBSET Block]

\* Nothing that is absent can be mistaken for something that is there.
ASSUME AbsenceAssumption == NoState \notin Leafs /\ NoDelta \notin Delta /\ NoFinality \notin Result

NoImport == [header |-> NotImported, parent |-> NotImported, leafs |-> NoState, delta |-> NoDelta]

\* References(l)[v]: how many leaves of l hold the value v.
References(l) == [v \in Value |-> Cardinality({k \in Key : l[k] = v})]

-----------------------------------------------------------------------------
(* updateLeafs, database/leaf-db-update.ts *)

AddOne(bag, v) == IF v = Empty THEN bag ELSE [bag EXCEPT ![v] = @ + 1]

\* One entry: writing the value that is there already is a no-op for the db.
UpdateLeaf(acc, write) ==
    LET old == acc.leafs[write.key]
    IN  IF write.value = old
        THEN acc
        ELSE [leafs |-> [acc.leafs EXCEPT ![write.key] = write.value],
              inserted |-> AddOne(acc.inserted, write.value),
              removed |-> AddOne(acc.removed, old)]

UpdateLeafs(l, writes) ==
    LET done[n \in 0..Len(writes)] ==
            IF n = 0
            THEN [leafs |-> l, inserted |-> R!NoValues, removed |-> R!NoValues]
            ELSE UpdateLeaf(done[n - 1], writes[n])
    IN  done[Len(writes)]

\* The updates a block may make; a key may be written more than once.
Writes == BoundedSeq([key : Key, value : Value \cup {Empty}], MaxWrites)

-----------------------------------------------------------------------------
(* insertInitialState *)
Init ==
    /\ FinalizerInit
    /\ \E initial \in Leafs :
        /\ leafs = [b \in Block |-> IF b = Genesis THEN initial ELSE NoState]
        /\ refs = R!OnInitial(R!EmptyRefs, References(initial)).refs
        /\ disk = R!Members(References(initial))
    /\ cleanup = <<>>
    /\ stray = {}
    /\ pc = "idle"
    /\ import = NoImport
    /\ failures = [writes |-> 0, removals |-> 0]

\* The importer has executed block h on the state of p and calls
\* updateAndSetState.  Without large values there is nothing to write.
StartImport(h, p) ==
    /\ pc = "idle"
    /\ parent[h] = NotImported
    /\ leafs[p] # NoState
    /\ \E writes \in Writes :
        LET u == UpdateLeafs(leafs[p], writes)
        IN  /\ import' = [header |-> h, parent |-> p, leafs |-> u.leafs,
                          delta |-> [inserted |-> u.inserted, removed |-> u.removed]]
            /\ pc' = IF R!Members(u.inserted) = {} THEN "written" ELSE "flush"
    /\ UNCHANGED <<finalizerVars, statesVars, diskVars, failures>>

\* writeValues, first half: the queued removals are done, insertBatch runs.
InsertBatchWithoutWaiting ==
    /\ pc = "flush"
    /\ disk' = disk \cup R!Members(import.delta.inserted)
    /\ pc' = "persist"
    /\ UNCHANGED <<finalizerVars, statesVars, cleanup, stray, import, failures>>

InsertBatch ==
    /\ pc = "flush"
    /\ cleanup = <<>>
    /\ disk' = disk \cup R!Members(import.delta.inserted)
    /\ pc' = "persist"
    /\ UNCHANGED <<finalizerVars, statesVars, cleanup, stray, import, failures>>

\* writeValues, second half: the journal is flushed.
Persist ==
    /\ pc = "persist"
    /\ pc' = "written"
    /\ UNCHANGED <<finalizerVars, statesVars, diskVars, import, failures>>

\* insertBatch or persist throws: the import is given up with an error and
\* no state changes.
FailWrite ==
    /\ \/ pc = "flush" /\ cleanup = <<>>
       \/ pc = "persist"
    /\ failures.writes < MaxWriteFailures
    /\ failures' = [failures EXCEPT !.writes = @ + 1]
    /\ pc' = "idle"
    /\ import' = NoImport
    /\ UNCHANGED <<finalizerVars, statesVars, diskVars>>

\* The values are on disk: the state becomes available, the block is counted.
SetState ==
    /\ pc = "written"
    /\ leafs' = [leafs EXCEPT ![import.header] = import.leafs]
    /\ refs' = R!OnImport(refs, import.header, import.delta).refs
    /\ pc' = "stored"
    /\ UNCHANGED <<finalizerVars, diskVars, import, failures>>

\* applyRefs: a batch of removals is queued unless it is empty.
EnqueueAlways(queue, values) == Append(queue, values)
Enqueue(queue, values) == IF values = {} THEN queue ELSE Append(queue, values)

\* markUnused of one header, on the counts and the queue left by the previous one.
MarkUnused(acc, h) ==
    LET u == R!ReleaseUnfinalized(acc.refs, h)
    IN  [refs |-> u.refs, cleanup |-> Enqueue(acc.cleanup, R!RemoveValues(u))]
MarkAllUnused(acc, headers) ==
    LET done[n \in 0..Len(headers)] == IF n = 0 THEN acc ELSE MarkUnused(done[n - 1], headers[n])
    IN  done[Len(headers)]

\* commitFinalized before markUnused, as the importer does (importer.ts 238-246).
\* The order in which the finalizer lists the prunable blocks is left open.
Prune(result) ==
    LET u == R!CommitFinalized(refs, result.newlyFinalizedHeaders)
        committed == [refs |-> u.refs, cleanup |-> Enqueue(cleanup, R!RemoveValues(u))]
    IN  /\ \E order \in SetToSeqs(result.prunableStateHashes \ {Genesis}) :
            LET done == MarkAllUnused(committed, order)
            IN  refs' = done.refs /\ cleanup' = done.cleanup
        /\ leafs' = [b \in Block |->
                        IF b \in result.prunableStateHashes THEN NoState ELSE leafs[b]]

\* The block and its state root are stored, the block is the best one, the
\* finalizer is asked, and what it returns is committed and pruned.
FinishImport ==
    /\ pc = "stored"
    /\ OnBlockImported(import.header)
    /\ parent'[import.header] = import.parent
    /\ IF finality' = NoFinality
       THEN UNCHANGED <<statesVars, cleanup>>
       ELSE Prune(finality')
    /\ pc' = "idle"
    /\ import' = NoImport
    /\ UNCHANGED <<disk, stray, failures>>

-----------------------------------------------------------------------------
(* The background removals: a batch starts when the previous one is over. *)

FinishRemovalWithoutResolving(v) == cleanup' = <<Head(cleanup) \ {v}>> \o Tail(cleanup)
FinishRemoval(v) ==
    LET rest == Head(cleanup) \ {v}
    IN  cleanup' = IF rest = {} THEN Tail(cleanup) ELSE <<rest>> \o Tail(cleanup)

RemoveValue(v) ==
    /\ cleanup # <<>> /\ v \in Head(cleanup)
    /\ disk' = disk \ {v}
    /\ FinishRemoval(v)
    /\ UNCHANGED <<finalizerVars, statesVars, stray, pc, import, failures>>

\* Promise.all rejects with the first failing removal and the error is
\* swallowed.  The other removals of the batch were issued and go on.
FailRemovalWithoutCatch(v) ==
    /\ cleanup # <<>> /\ v \in Head(cleanup)
    /\ failures.removals < MaxRemovalFailures
    /\ failures' = [failures EXCEPT !.removals = @ + 1]
    /\ stray' = stray \cup (Head(cleanup) \ {v})
    /\ cleanup' = <<{}>> \o Tail(cleanup)
    /\ UNCHANGED <<finalizerVars, statesVars, disk, pc, import>>

FailRemoval(v) ==
    /\ cleanup # <<>> /\ v \in Head(cleanup)
    /\ failures.removals < MaxRemovalFailures
    /\ failures' = [failures EXCEPT !.removals = @ + 1]
    /\ stray' = stray \cup (Head(cleanup) \ {v})
    /\ cleanup' = Tail(cleanup)
    /\ UNCHANGED <<finalizerVars, statesVars, disk, pc, import>>

StrayRemoval(v) ==
    /\ v \in stray
    /\ disk' = disk \ {v}
    /\ stray' = stray \ {v}
    /\ UNCHANGED <<finalizerVars, statesVars, cleanup, pc, import, failures>>

ImportStep == InsertBatch \/ Persist \/ SetState \/ FinishImport
CleanupStep == \E v \in Value : RemoveValue(v) \/ FailRemoval(v) \/ StrayRemoval(v)

Next ==
    \/ \E h \in Header, p \in Block : StartImport(h, p)
    \/ ImportStep
    \/ FailWrite
    \/ CleanupStep

Spec == Init /\ [][Next]_vars

\* Promises are settled: an import that does not wait for removals goes on or
\* fails, and so do the removals.
ImportGoesOn ==
    /\ pc # "idle"
    /\ pc = "flush" => cleanup = <<>>
    /\ pc' \in {"idle", "persist", "written", "stored"} \ {pc}

FairSpec == Spec /\ WF_pc(ImportGoesOn) /\ WF_vars(CleanupStep)

-----------------------------------------------------------------------------
(* Properties *)

Loadable == {b \in Block : leafs[b] # NoState}
HasDelta == {h \in Header : refs.deltas[h] # NoDelta}
\* The insertions of v that are not final yet.
Insertions(v) == UNION {{h} \X (1 .. refs.deltas[h].inserted[v]) : h \in HasDelta}
Referenced(v) == \E b \in Loadable, k \in Key : leafs[b][k] = v

\* The shape of the maps of HybridSerializedStates.
StatesTypeOK ==
    /\ leafs \in [Block -> Leafs \cup {NoState}]
    /\ refs.finalized \in [Value -> Nat] /\ refs.pending \in [Value -> Nat]
    /\ disk \subseteq Value /\ stray \subseteq Value
    /\ cleanup \in Seq((SUBSET Value) \ {{}})
    /\ pc \in {"idle", "flush", "persist", "written", "stored"}

\* Every value of every state that can still be loaded is on disk, so
\* readValue (hybrid-states.ts 279-285) never throws "Missing value".
ValuesAvailable == \A v \in Value : Referenced(v) => v \in disk

\* The clamped counters never hide a mistake: `finalized` counts the leaves of
\* the finalized state, `pending` the insertions of the blocks above it.  A
\* delta exists exactly as long as its block waits for finality: each block is
\* either committed or released, once, whatever fork it is on.
CountsAreExact ==
    /\ \A v \in Value :
        /\ refs.finalized[v] = References(leafs[lastFinalized])[v]
        /\ refs.pending[v] = Cardinality(Insertions(v))
    /\ HasDelta = Loadable \ {lastFinalized, Genesis}

\* Without failures no value is left on disk for good: when all removals are
\* done, the disk holds what the counters hold and nothing else.
NothingLeaks ==
    pc \notin {"persist", "written"} /\ cleanup = <<>> /\ failures = [writes |-> 0, removals |-> 0]
        => disk = {v \in Value : refs.finalized[v] + refs.pending[v] > 0}

\* An import never waits forever for the removals queued before it, and they
\* are all done in the end (writeValues and close await pendingCleanup).
ImportsEnd == (pc # "idle") ~> (pc = "idle")
RemovalsEnd == (cleanup # <<>>) ~> (cleanup = <<>>)

\* The comment of applyRefs: a failed removal only leaks a value
\* (hybrid-states.ts 237), so reading a surviving state still succeeds.
FailedRemovalOnlyLeaks == failures.removals > 0 => ValuesAvailable
=============================================================================
