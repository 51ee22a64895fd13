------------------------------ MODULE Importer ------------------------------
(***************************************************************************)
(* Block import (workers/importer/importer.ts) with the block verifier     *)
(* (jam/transition/block-verifier.ts) and the persistent databases         *)
(* (jam/database-fjall/blocks.ts and states.ts), up to and including a     *)
(* crash of the process and its restart.                                   *)
(*                                                                         *)
(* The importer keeps ONE state object for all imports.  `importBlock` is  *)
(* an async function that nothing serialises, so each import is a task,    *)
(* and a step of a task is what runs between two awaits.                   *)
(*                                                                         *)
(* A state is abstract: Update(s, h) is what executing block h computes    *)
(* when it reads the state s, and Write(s, u) is the leaf set s with the   *)
(* update u.  Execution reads the decoded entries that SerializedState     *)
(* caches, and changes one of them, the statistics, in place: a state      *)
(* object that read as s reads as Counts(s, h) once block h was executed.  *)
(* (The root of the parent, which execution also fills into the last       *)
(* cached recent block, is the same for every block executed on that       *)
(* parent and is filled in again before it is read: it is left out.)       *)
(* A state root stands for its state.  The finalizer is any one            *)
(* that does what Finality.tla says (a node without --dev has none, which  *)
(* is a finalizer that never finalizes); blocks are kept when their states *)
(* are pruned, as node/main.ts 87 configures it.                           *)
(***************************************************************************)
EXTENDS Naturals, FiniteSets

CONSTANTS
    Header,       \* hashes of the blocks that may be imported
    Genesis,      \* the block the database is initialised with
    Parent,       \* Parent[h]: the parent named in header h
    State,        \* the possible serialized states
    Posterior,    \* Posterior[b]: the state after block b, as the protocol defines it
    Update(_, _), \* the update a block makes, from the state it reads
    Write(_, _),  \* the state that results from writing an update
    Counts(_, _), \* how a state reads after a block was executed on it in memory
    None,         \* no state, no root, no block
    Task,         \* imports that may be in flight at the same time
    MaxFailures,  \* bound: failing database writes
    MaxCrashes    \* bound: crashes

Block == Header \cup {Genesis}

ASSUME BlockAssumption ==
    /\ Genesis \notin Header /\ None \notin Block \cup State
    /\ Parent \in [Header -> Block]
    /\ Posterior \in [Block -> State]

\* Execution is deterministic, and Posterior is what it computes.
ASSUME PosteriorAssumption ==
    \A h \in Header :
        Posterior[h] = Write(Posterior[Parent[h]], Update(Posterior[Parent[h]], h))

\* Writing an update always gives a state, whichever state it was computed from,
\* and the cached entries of a state object are those of some state.
ASSUME WriteAssumption ==
    /\ \A s, r \in State, h \in Header : Write(s, Update(r, h)) \in State
    /\ \A s \in State, h \in Header : Counts(s, h) \in State

VARIABLES
    backend,      \* this.state.backend: the leafs of the one state object
    view,         \* what execution reads from this.state, through its dataCache
    currentHash,  \* this.currentHash
    db,           \* what reads of the database return: headers, roots, states, best
    writes,       \* started writes: <<b, None>> of the header of b, <<b, r>> of its root
    durable,      \* what the database held when it was last persisted
    pc,           \* where each import stands
    block,        \* the block it imports
    held,         \* the state its locals stand for: the one the transition reads,
                  \* then the one to store, then the one whose root is stored
    finalizer,    \* the last finalized block and the blocks tracked above it
    prune,        \* pendingPrune of FjallStates: states still to be removed
    givenUp,      \* history: every block whose state was reported prunable
    unwritten,    \* history: a state could not be written since backend was replaced
    misread,      \* history: blocks executed then, or on the state of such a block
    failures, crashes  \* bounds

importerVars == <<backend, view, currentHash>>
taskVars == <<pc, block, held>>
finalityVars == <<finalizer, prune, givenUp>>
failureVars == <<unwritten, misread>>
vars == <<backend, view, currentHash, db, durable, writes, pc, block, held,
          finalizer, prune, givenUp, unwritten, misread, failures, crashes>>

Goto(t, label) == pc' = [pc EXCEPT ![t] = label] /\ UNCHANGED block
Hold(t, state) == held' = [held EXCEPT ![t] = state]

\* importBlockInternal returns or rejects.
Return(t) ==
    /\ pc' = [pc EXCEPT ![t] = "idle"]
    /\ block' = [block EXCEPT ![t] = None]
    /\ held' = [held EXCEPT ![t] = None]

-----------------------------------------------------------------------------
InitialDb ==
    [headers |-> {Genesis},
     roots |-> [b \in Block |-> IF b = Genesis THEN Posterior[Genesis] ELSE None],
     states |-> [b \in Block |-> IF b = Genesis THEN Posterior[Genesis] ELSE None],
     best |-> Genesis]

\* initializeDatabase stored the genesis block; Importer.open loads the best state.
Init ==
    /\ db = InitialDb
    /\ durable = InitialDb
    /\ writes = {}
    /\ backend = Posterior[Genesis]
    /\ view = Posterior[Genesis]
    /\ currentHash = Genesis
    /\ pc = [t \in Task |-> "idle"]
    /\ block = [t \in Task |-> None]
    /\ held = [t \in Task |-> None]
    /\ finalizer = [last |-> Genesis, tracked |-> {}]
    /\ prune = {}
    /\ givenUp = {}
    /\ unwritten = FALSE
    /\ misread = {}
    /\ failures = 0
    /\ crashes = 0

\* BlockVerifier.verifyBlock: the block is unknown, its parent and the
\* parent's state root are known, and the root is the one the header names.
\* (Time slots grow along Parent and extrinsics hash to the header.)
Accepts(h) ==
    /\ h \notin db.headers
    /\ Parent[h] \in db.headers
    /\ db.roots[Parent[h]] = Posterior[Parent[h]]

\* importBlock is called; a block the verifier rejects changes nothing.
Verify(t, h) ==
    /\ pc[t] = "idle"
    /\ Accepts(h)
    /\ pc' = [pc EXCEPT ![t] = "verified"]
    /\ block' = [block EXCEPT ![t] = h]
    /\ UNCHANGED <<held, importerVars, db, durable, writes, finalityVars, failureVars,
                   failures, crashes>>

\* getState(parent) is not null.
AssumeState(parent) == TRUE
HasState(parent) == db.states[parent] # None

\* SerializedState.updateBackend: other leafs, and nothing is cached of them.
KeepCache(state) == backend' = state /\ UNCHANGED view /\ unwritten' = FALSE
UpdateBackend(state) == backend' = state /\ view' = state /\ unwritten' = FALSE

\* state.updateBackend and currentHash = parentHash.
LoadHashOnly(parent) == currentHash' = parent /\ UNCHANGED <<backend, view, unwritten>>
LoadParent(parent) == UpdateBackend(db.states[parent]) /\ currentHash' = parent

\* The state object is switched to the parent's state unless it is that state
\* already (importer.ts 175-191), and the transition starts to read it.
SwitchToParent(t) ==
    LET parent == Parent[block[t]]
    IN  /\ pc[t] = "verified"
        /\ \/ /\ currentHash = parent
              /\ UNCHANGED <<importerVars, unwritten>>
              /\ Goto(t, "transition") /\ Hold(t, view)
           \/ /\ currentHash # parent /\ HasState(parent)
              /\ LoadParent(parent)
              /\ Goto(t, "transition") /\ Hold(t, view')
           \/ /\ currentHash # parent /\ ~HasState(parent)
              /\ UNCHANGED <<importerVars, unwritten>>
              /\ Return(t)
        /\ UNCHANGED <<db, durable, writes, finalityVars, misread, failures, crashes>>

\* The transition fails: the importer keeps the parent's state.  (What may
\* fail comes before the statistics are counted, chain-stf.ts 367.)
FailTransition(t) ==
    /\ pc[t] = "transition"
    /\ Return(t)
    /\ UNCHANGED <<importerVars, db, durable, writes, finalityVars, failureVars,
                   failures, crashes>>

\* The transition ends: the block is counted in the cached statistics, and
\* updateAndSetState clones the leafs of the state object and applies the
\* update to the clone.  The transition reads the state lazily, so it saw the
\* state it began with or the one it ends with.
FinishTransition(t) ==
    /\ pc[t] = "transition"
    /\ \E read \in {held[t], view} : Hold(t, Write(backend, Update(read, block[t])))
    /\ view' = Counts(view, block[t])
    /\ misread' = IF unwritten \/ Parent[block[t]] \in misread
                  THEN misread \cup {block[t]}
                  ELSE misread
    /\ Goto(t, "storing")
    /\ UNCHANGED <<backend, currentHash, db, durable, writes, finalityVars, unwritten,
                   failures, crashes>>

\* root.persist(): everything written so far becomes durable.
ForgetPersist(d) == UNCHANGED durable
Persist(d) == durable' = d

\* FjallStates.updateAndCommit: values, then leafs, then persist, which makes
\* everything written so far durable.  Then the state object is replaced.
StoreState(t) ==
    LET stored == [db EXCEPT !.states[block[t]] = held[t]]
    IN  /\ pc[t] = "storing"
        /\ db' = stored
        /\ Persist(stored)
        /\ UpdateBackend(held[t])
        /\ Goto(t, "stored")
        /\ UNCHANGED <<held, currentHash, writes, finalityVars, misread, failures, crashes>>

\* A write or the persist throws: the leafs may have been written or not.  On an
\* error the leafs of the caller's state object are left alone (states.ts 60-62,
\* hybrid-states.ts 190-194), and so is its cache: it goes on reading as if the
\* block had been executed, and currentHash still names the parent.
FailStoreState(t) ==
    /\ pc[t] = "storing"
    /\ failures < MaxFailures
    /\ failures' = failures + 1
    /\ \/ UNCHANGED db
       \/ db' = [db EXCEPT !.states[block[t]] = held[t]]
    /\ unwritten' = TRUE
    /\ Return(t)
    /\ UNCHANGED <<importerVars, durable, writes, finalityVars, misread, crashes>>

HeaderOf(t) == <<block[t], None>>
RootOf(t) == <<block[t], held[t]>>
InsertAwaited(t) == {HeaderOf(t), RootOf(t)} \cap writes = {}

\* Back in the importer: currentHash follows the state object, and the writes of
\* the block and of the root of the state object start (importer.ts 213-225).
AdoptBlock(t) ==
    /\ pc[t] = "stored"
    /\ currentHash' = block[t]
    /\ writes' = writes \cup {<<block[t], None>>, <<block[t], backend>>}
    /\ Goto(t, "inserting") /\ Hold(t, backend)
    /\ UNCHANGED <<backend, view, db, durable, finalityVars, failureVars, failures, crashes>>

\* The writes complete in any order, also when their import was rejected.
InsertBlock(w) ==
    /\ w[2] = None
    /\ writes' = writes \ {w}
    /\ db' = [db EXCEPT !.headers = @ \cup {w[1]}]
    /\ UNCHANGED <<importerVars, durable, taskVars, finalityVars, failureVars,
                   failures, crashes>>

SetPostStateRoot(w) ==
    /\ w[2] # None
    /\ writes' = writes \ {w}
    /\ db' = [db EXCEPT !.roots[w[1]] = w[2]]
    /\ UNCHANGED <<importerVars, durable, taskVars, finalityVars, failureVars,
                   failures, crashes>>

\* One of the two writes throws, and Promise.all rejects while the other one is
\* still under way; or setBestHeaderHash throws.  importBlock rejects.
FailInsert(t) ==
    /\ failures < MaxFailures
    /\ failures' = failures + 1
    /\ \/ /\ pc[t] = "inserting"
          /\ \E w \in {HeaderOf(t), RootOf(t)} \cap writes : writes' = writes \ {w}
       \/ /\ pc[t] = "best" \/ (pc[t] = "inserting" /\ InsertAwaited(t))
          /\ UNCHANGED writes
    /\ Return(t)
    /\ UNCHANGED <<importerVars, db, durable, finalityVars, failureVars, crashes>>

\* Promise.all resolves, and setBestHeaderHash writes the hash ...
SetBest(t) ==
    /\ pc[t] = "inserting"
    /\ InsertAwaited(t)
    /\ db' = [db EXCEPT !.best = block[t]]
    /\ Goto(t, "best")
    /\ UNCHANGED <<held, importerVars, durable, writes, finalityVars, failureVars,
                   failures, crashes>>

\* Lineage[b]: b and its ancestors.
Lineage ==
    LET lineage[b \in Block] == IF b = Genesis THEN {b} ELSE {b} \cup lineage[Parent[b]]
    IN  lineage

\* The states that finalizing f makes prunable.
DeadWithFinalized(seen, f) == {finalizer.last, f} \cup {b \in seen : f \notin Lineage[b]}
Dead(seen, f) == {finalizer.last} \cup {b \in seen : f \notin Lineage[b]}

\* The finalizer is told of block h.  Blocks that are not above the finalized
\* one are ignored; otherwise finality may move to an ancestor f of h, and the
\* states below and beside f are queued for removal.
OnBlockImported(h) ==
    LET seen == finalizer.tracked \cup {h}
    IN  \/ /\ Parent[h] \notin finalizer.tracked \cup {finalizer.last}
           /\ UNCHANGED finalityVars
        \/ /\ Parent[h] \in finalizer.tracked \cup {finalizer.last}
           /\ finalizer' = [finalizer EXCEPT !.tracked = seen]
           /\ UNCHANGED <<prune, givenUp>>
        \/ /\ Parent[h] \in finalizer.tracked \cup {finalizer.last}
           /\ \E f \in Lineage[h] \cap seen :
               /\ finalizer' = [last |-> f,
                                tracked |-> {b \in seen \ {f} : f \in Lineage[b]}]
               /\ prune' = prune \cup Dead(seen, f)
               /\ givenUp' = givenUp \cup Dead(seen, f)

\* ... and persists, the finalizer is asked, and the import returns.
PersistBest(t) ==
    /\ pc[t] = "best"
    /\ Persist(db)
    /\ OnBlockImported(block[t])
    /\ Return(t)
    /\ UNCHANGED <<importerVars, db, writes, failureVars, failures, crashes>>

\* FjallStates.markUnused in the background; nothing persists the removal.
PruneState(b) ==
    /\ b \in prune
    /\ db' = [db EXCEPT !.states[b] = None]
    /\ prune' = prune \ {b}
    /\ UNCHANGED <<importerVars, durable, writes, taskVars, finalizer, givenUp, failureVars,
                   failures, crashes>>

\* A removal fails with a warning: the state stays.
FailPrune(b) ==
    /\ b \in prune
    /\ failures < MaxFailures
    /\ failures' = failures + 1
    /\ prune' = prune \ {b}
    /\ UNCHANGED <<importerVars, db, durable, writes, taskVars, finalizer, givenUp,
                   failureVars, crashes>>

\* What a crash may leave of the writes and removals since the last persist:
\* any of them, but the best hash is written to the journal after the header
\* and the root of its block.  (An entry written twice since then is taken as
\* it was written last.)
Crashed(new, old, keep) == [b \in Block |-> IF b \in keep THEN new[b] ELSE old[b]]

Leftovers ==
    {[headers |-> durable.headers \cup headers,
      roots |-> Crashed(db.roots, durable.roots, roots),
      states |-> Crashed(db.states, durable.states, states),
      best |-> best] :
        headers \in SUBSET (db.headers \ durable.headers),
        roots \in SUBSET {b \in Block : db.roots[b] # durable.roots[b]},
        states \in SUBSET {b \in Block : db.states[b] # durable.states[b]},
        best \in {durable.best, db.best}}

IsOrdered(left) ==
    left.best # durable.best =>
        /\ left.best \in left.headers
        /\ left.roots[left.best] = db.roots[left.best]

\* The process dies and is started again: Importer.open reads the best state
\* (and throws when there is none) and the finalizer starts from the best block.
CrashAndRestart ==
    /\ crashes < MaxCrashes
    /\ crashes' = crashes + 1
    /\ \E left \in Leftovers :
        /\ IsOrdered(left)
        /\ left.states[left.best] # None
        /\ db' = left
        /\ durable' = left
        /\ UpdateBackend(left.states[left.best])
        /\ currentHash' = left.best
        /\ finalizer' = [last |-> left.best, tracked |-> {}]
    /\ prune' = {}
    /\ writes' = {}
    /\ pc' = [t \in Task |-> "idle"]
    /\ block' = [t \in Task |-> None]
    /\ held' = [t \in Task |-> None]
    /\ UNCHANGED <<givenUp, misread, failures>>

Step(t) ==
    \/ SwitchToParent(t)
    \/ FailTransition(t)
    \/ FinishTransition(t)
    \/ StoreState(t)
    \/ FailStoreState(t)
    \/ AdoptBlock(t)
    \/ FailInsert(t)
    \/ SetBest(t)
    \/ PersistBest(t)

Next ==
    \/ \E t \in Task : Step(t) \/ \E h \in Header : Verify(t, h)
    \/ \E w \in writes : InsertBlock(w) \/ SetPostStateRoot(w)
    \/ \E b \in Block : PruneState(b) \/ FailPrune(b)
    \/ CrashAndRestart

Spec == Init /\ [][Next]_vars

-----------------------------------------------------------------------------
(* Properties *)

DbType ==
    [headers : SUBSET Block, roots : [Block -> State \cup {None}],
     states : [Block -> State \cup {None}], best : Block]

\* The shape of the importer and its databases.
TypeOK ==
    /\ backend \in State /\ view \in State
    /\ currentHash \in Block
    /\ writes \subseteq Header \X (State \cup {None})
    /\ db \in DbType
    /\ durable \in DbType
    /\ pc \in [Task -> {"idle", "verified", "transition", "storing", "stored",
                         "inserting", "best"}]
    /\ block \in [Task -> Header \cup {None}]
    /\ held \in [Task -> State \cup {None}]
    /\ \A t \in Task :
        /\ pc[t] # "idle" => block[t] \in Header
        /\ pc[t] \notin {"idle", "verified"} => held[t] \in State
    /\ finalizer \in [last : Block, tracked : SUBSET Block]
    /\ prune \subseteq Block /\ givenUp \subseteq Block
    /\ unwritten \in BOOLEAN /\ misread \subseteq Header
    /\ failures \in Nat /\ crashes \in Nat

\* `currentHash` is the hash of the block that we have the posterior state
\* for in `state` (importer.ts 61-62), except between the two assignments
\* that move both to the imported block: its leafs are that state, and so is
\* what the next block reads from it, until a state cannot be written.  From
\* then on the object reads as if that block had been executed, until another
\* state is loaded into it.
StateOfCurrentHash ==
    currentHash \notin misread =>
        /\ (\A t \in Task : pc[t] # "stored") => backend = Posterior[currentHash]
        /\ ~unwritten /\ (\A t \in Task : pc[t] \notin {"storing", "stored"}) =>
            view = Posterior[currentHash]

\* Every state in the database, now and after a crash, is the posterior state
\* of its block, whatever forks were imported, failed or interrupted before,
\* and the root the verifier compares headers with, once it is there, is the
\* root of that state: for every block but those that were executed on a state
\* object whose last state could not be written, and their descendants.
PosteriorsAreStored ==
    \A b \in Block \ misread :
        /\ db.states[b] \in {Posterior[b], None}
        /\ durable.states[b] \in {Posterior[b], None}
        /\ db.roots[b] \in {Posterior[b], None}

\* getState retrieves the posterior state of the given header
\* (jam/database/states.ts 39).
RetrievesPosteriors ==
    \A b \in Block : db.states[b] \in {Posterior[b], None}

\* A header in the database has its state there too, also right after a
\* crash, unless finality gave it up: an AlreadyImported block never lacks the
\* state its children need (importer.ts 207-219 stores the state first).
HeadersHaveStates ==
    \A b \in Block :
        /\ b \in db.headers => db.states[b] # None \/ b \in givenUp
        /\ b \in durable.headers => durable.states[b] # None \/ b \in givenUp

\* Whenever the process dies and whatever of the last writes is lost,
\* Importer.open finds the best state and children of the best block can be
\* verified; pruning never runs ahead of the best hash (importer.ts 229-247).
\* What is stored is connected: the parent of a stored block is stored.
BestIsComplete ==
    /\ \A left \in Leftovers :
        IsOrdered(left) => /\ left.best \in left.headers
                           /\ left.states[left.best] # None
                           /\ left.roots[left.best] # None
    /\ \A h \in Header :
        /\ h \in db.headers => Parent[h] \in db.headers
        /\ h \in durable.headers => Parent[h] \in durable.headers
=============================================================================
