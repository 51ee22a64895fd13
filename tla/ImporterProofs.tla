--------------------------- MODULE ImporterProofs ---------------------------
(***************************************************************************)
(* Proofs about Importer for any set of blocks, any block tree, any state  *)
(* transition, and any number of failures and crashes.                     *)
(***************************************************************************)
EXTENDS Importer, TLAPS

USE DEF importerVars, taskVars, finalityVars, failureVars, HasState, UpdateBackend, LoadParent,
        Persist, Dead, HeaderOf, RootOf, InsertAwaited

(* Type correctness *)

LEMMA InitTypeOK == Init => TypeOK
<1> SUFFICES ASSUME Init PROVE TypeOK
  OBVIOUS
<1>1. Genesis \in Block /\ Posterior[Genesis] \in State /\ InitialDb \in DbType
  BY BlockAssumption DEF Block, InitialDb, DbType
<1>2. /\ backend \in State /\ view \in State /\ currentHash \in Block
      /\ db \in DbType /\ durable \in DbType
      /\ finalizer \in [last : Block, tracked : SUBSET Block]
  BY <1>1 DEF Init
<1>3. writes = {} /\ prune = {} /\ givenUp = {} /\ unwritten = FALSE /\ misread = {}
  BY DEF Init
<1>4. /\ pc = [t \in Task |-> "idle"] /\ block = [t \in Task |-> None]
      /\ held = [t \in Task |-> None] /\ failures = 0 /\ crashes = 0
  BY DEF Init
<1> QED
  BY <1>2, <1>3, <1>4 DEF TypeOK

LEMMA VerifyTypeOK ==
  ASSUME TypeOK, NEW t \in Task, NEW h \in Header, Verify(t, h)
  PROVE  TypeOK'
  BY DEF Verify, TypeOK

\* A database record with one entry changed is a database record.
LEMMA DbUpdateType ==
  ASSUME NEW d \in DbType, NEW b \in Block, NEW s \in State \cup {None}
  PROVE  /\ [d EXCEPT !.states[b] = s] \in DbType
         /\ [d EXCEPT !.roots[b] = s] \in DbType
         /\ [d EXCEPT !.headers = @ \cup {b}] \in DbType
         /\ [d EXCEPT !.best = b] \in DbType
  BY DEF DbType

LEMMA OnBlockImportedType ==
  ASSUME TypeOK, NEW h \in Header, OnBlockImported(h)
  PROVE  /\ finalizer' \in [last : Block, tracked : SUBSET Block]
         /\ prune' \subseteq Block /\ givenUp' \subseteq Block
  BY DEF OnBlockImported, TypeOK, Block

LEMMA StepTypeOK ==
  ASSUME TypeOK, NEW t \in Task, Step(t)
  PROVE  TypeOK'
<1> USE DEF Goto, Hold, Return
<1>1. CASE SwitchToParent(t)
  <2>1. Parent[block[t]] \in Block
    BY <1>1, BlockAssumption DEF SwitchToParent, TypeOK
  <2>2. db.states[Parent[block[t]]] \in State \cup {None}
    BY <2>1 DEF TypeOK, DbType
  <2>3. /\ pc[t] = "verified"
        /\ UNCHANGED <<db, durable, writes, finalizer, prune, givenUp, misread, failures, crashes>>
    BY <1>1 DEF SwitchToParent
  <2>4. CASE UNCHANGED <<backend, view, currentHash, unwritten>>
    BY <1>1, <2>3, <2>4 DEF SwitchToParent, TypeOK
  <2>5. CASE /\ HasState(Parent[block[t]]) /\ LoadParent(Parent[block[t]])
             /\ Goto(t, "transition") /\ Hold(t, view')
    <3>1. backend' \in State /\ view' \in State /\ unwritten' = FALSE /\ currentHash' \in Block
      BY <2>1, <2>2, <2>5
    <3> QED
      BY <2>3, <2>5, <3>1 DEF TypeOK
  <2> QED
    BY <1>1, <2>4, <2>5 DEF SwitchToParent
<1>2. CASE FailTransition(t)
  BY <1>2 DEF FailTransition, TypeOK
<1>3. CASE FinishTransition(t)
  <2>1. PICK read \in {held[t], view} : Hold(t, Write(backend, Update(read, block[t])))
    BY <1>3 DEF FinishTransition
  <2>2. read \in State /\ backend \in State /\ view \in State /\ block[t] \in Header
    BY <1>3, <2>1 DEF FinishTransition, TypeOK
  <2>3. Write(backend, Update(read, block[t])) \in State /\ Counts(view, block[t]) \in State
    BY <2>2, WriteAssumption
  <2>4. misread' \subseteq Header
    BY <1>3, <2>2 DEF FinishTransition, TypeOK
  <2> QED
    BY <1>3, <2>1, <2>3, <2>4 DEF FinishTransition, TypeOK
<1>4. CASE StoreState(t)
  <2>1. block[t] \in Block /\ held[t] \in State
    BY <1>4 DEF StoreState, TypeOK, Block
  <2>2. db' \in DbType /\ durable' \in DbType
    BY <1>4, <2>1, DbUpdateType DEF StoreState, TypeOK
  <2> QED
    BY <1>4, <2>1, <2>2 DEF StoreState, TypeOK
<1>5. CASE FailStoreState(t)
  <2>1. block[t] \in Block /\ held[t] \in State
    BY <1>5 DEF FailStoreState, TypeOK, Block
  <2>2. db' \in DbType
    <3>1. db \in DbType
      BY DEF TypeOK
    <3>2. [db EXCEPT !.states[block[t]] = held[t]] \in DbType
      BY <2>1, <3>1, DbUpdateType
    <3> QED
      BY <1>5, <3>1, <3>2 DEF FailStoreState
  <2> QED
    BY <1>5, <2>2 DEF FailStoreState, TypeOK
<1>6. CASE AdoptBlock(t)
  <2>1. block[t] \in Header /\ backend \in State
    BY <1>6 DEF AdoptBlock, TypeOK
  <2>2. writes' \subseteq Header \X (State \cup {None})
    BY <1>6, <2>1 DEF AdoptBlock, TypeOK
  <2> QED
    BY <1>6, <2>1, <2>2 DEF AdoptBlock, TypeOK, Block
<1>7. CASE FailInsert(t)
  BY <1>7 DEF FailInsert, TypeOK
<1>8. CASE SetBest(t)
  <2>1. block[t] \in Block
    BY <1>8 DEF SetBest, TypeOK, Block
  <2>2. db' \in DbType
    BY <1>8, <2>1, DbUpdateType DEF SetBest, TypeOK
  <2> QED
    BY <1>8, <2>2 DEF SetBest, TypeOK
<1>9. CASE PersistBest(t)
  <2>1. block[t] \in Header /\ OnBlockImported(block[t])
    BY <1>9 DEF PersistBest, TypeOK
  <2> QED
    BY <1>9, <2>1, OnBlockImportedType DEF PersistBest, TypeOK
<1> QED
  BY <1>1, <1>2, <1>3, <1>4, <1>5, <1>6, <1>7, <1>8, <1>9 DEF Step

LEMMA WriteTypeOK ==
  ASSUME TypeOK, NEW w \in writes, InsertBlock(w) \/ SetPostStateRoot(w)
  PROVE  TypeOK'
<1>1. w[1] \in Block /\ w[2] \in State \cup {None} /\ db \in DbType
  BY DEF TypeOK, Block
<1>2. db' \in DbType
  <2>1. CASE InsertBlock(w)
    BY <1>1, <2>1, DbUpdateType DEF InsertBlock
  <2>2. CASE SetPostStateRoot(w)
    BY <1>1, <2>2, DbUpdateType DEF SetPostStateRoot
  <2> QED
    BY <2>1, <2>2
<1> QED
  BY <1>2 DEF InsertBlock, SetPostStateRoot, TypeOK

LEMMA PruneTypeOK ==
  ASSUME TypeOK, NEW b \in Block, PruneState(b) \/ FailPrune(b)
  PROVE  TypeOK'
<1>1. CASE PruneState(b)
  <2>1. db' \in DbType
    BY <1>1, DbUpdateType DEF PruneState, TypeOK
  <2> QED
    BY <1>1, <2>1 DEF PruneState, TypeOK
<1>2. CASE FailPrune(b)
  BY <1>2 DEF FailPrune, TypeOK
<1> QED
  BY <1>1, <1>2

\* Whatever a crash leaves is a database again, and each of its entries is
\* the current or the last persisted one.
LEMMA LeftoverEntries ==
  ASSUME TypeOK, NEW left \in Leftovers
  PROVE  /\ left \in DbType
         /\ durable.headers \subseteq left.headers
         /\ left.headers \subseteq durable.headers \cup db.headers
         /\ \A b \in Block : /\ left.states[b] \in {db.states[b], durable.states[b]}
                             /\ left.roots[b] \in {db.roots[b], durable.roots[b]}
         /\ left.best \in {db.best, durable.best}
<1>1. PICK headers \in SUBSET (db.headers \ durable.headers),
           roots \in SUBSET {b \in Block : db.roots[b] # durable.roots[b]},
           states \in SUBSET {b \in Block : db.states[b] # durable.states[b]},
           best \in {durable.best, db.best} :
        left = [headers |-> durable.headers \cup headers,
                roots |-> Crashed(db.roots, durable.roots, roots),
                states |-> Crashed(db.states, durable.states, states),
                best |-> best]
  BY DEF Leftovers
<1>2. db \in DbType /\ durable \in DbType
  BY DEF TypeOK
<1> QED
  BY <1>1, <1>2 DEF DbType, Crashed

LEMMA CrashTypeOK ==
  ASSUME TypeOK, CrashAndRestart
  PROVE  TypeOK'
<1>1. PICK left \in Leftovers :
        /\ left.states[left.best] # None
        /\ db' = left /\ durable' = left
        /\ UpdateBackend(left.states[left.best])
        /\ currentHash' = left.best
        /\ finalizer' = [last |-> left.best, tracked |-> {}]
  BY DEF CrashAndRestart
<1>2. left \in DbType
  BY LeftoverEntries
<1>3. left.best \in Block /\ left.states[left.best] \in State
  BY <1>1, <1>2 DEF DbType
<1>4. /\ backend' \in State /\ view' \in State /\ unwritten' = FALSE
      /\ currentHash' \in Block
      /\ db' \in DbType /\ durable' \in DbType
      /\ finalizer' \in [last : Block, tracked : SUBSET Block]
  BY <1>1, <1>2, <1>3
<1>5. /\ prune' = {} /\ writes' = {}
      /\ pc' = [t \in Task |-> "idle"] /\ block' = [t \in Task |-> None]
      /\ held' = [t \in Task |-> None]
      /\ crashes' = crashes + 1 /\ UNCHANGED <<givenUp, misread, failures>>
  BY DEF CrashAndRestart
<1>6. /\ prune' \subseteq Block /\ writes' \subseteq Header \X (State \cup {None})
      /\ unwritten' \in BOOLEAN
  BY <1>4, <1>5
<1>7. /\ givenUp' \subseteq Block /\ misread' \subseteq Header
      /\ failures' \in Nat /\ crashes' \in Nat
  BY <1>5 DEF TypeOK
<1> QED
  BY <1>4, <1>5, <1>6, <1>7 DEF TypeOK
\* The shape of the importer and its databases never changes, however many
\* imports are in flight (importer.ts 129-250).
THEOREM TypeCorrect == Spec => []TypeOK
<1>1. Init => TypeOK
  BY InitTypeOK
<1>2. TypeOK /\ [Next]_vars => TypeOK'
  <2> SUFFICES ASSUME TypeOK, [Next]_vars PROVE TypeOK'
    OBVIOUS
  <2>1. CASE \E t \in Task : Step(t) \/ \E h \in Header : Verify(t, h)
    BY <2>1, StepTypeOK, VerifyTypeOK
  <2>2. CASE \E w \in writes : InsertBlock(w) \/ SetPostStateRoot(w)
    BY <2>2, WriteTypeOK
  <2>3. CASE \E b \in Block : PruneState(b) \/ FailPrune(b)
    BY <2>3, PruneTypeOK
  <2>4. CASE CrashAndRestart
    BY <2>4, CrashTypeOK
  <2>5. CASE UNCHANGED vars
    BY <2>5 DEF vars, TypeOK
  <2> QED
    BY <2>1, <2>2, <2>3, <2>4, <2>5 DEF Next
<1> QED
  BY <1>1, <1>2, PTL DEF Spec
-----------------------------------------------------------------------------
(* One import at a time *)

\* The callers of importBlock never overlap.
OneImportAtATime == \A s, t \in Task : s = t

\* Every entry of the databases belongs to the block it is stored under, and
\* so do the roots that are being written.
EntriesArePosterior ==
    /\ \A b \in Block \ misread :
        /\ db.states[b] \in {Posterior[b], None} /\ durable.states[b] \in {Posterior[b], None}
        /\ db.roots[b] \in {Posterior[b], None} /\ durable.roots[b] \in {Posterior[b], None}
    /\ \A w \in writes : w[1] \notin misread => w[2] \in {Posterior[w[1]], None}

\* The leafs of the state object, and what is read through its cache: only a
\* block that was executed and not yet written makes a difference.
BackendIsPosterior ==
    currentHash \notin misread /\ (\A t \in Task : pc[t] # "stored") => backend = Posterior[currentHash]
ViewIsBackend ==
    ~unwritten /\ (\A t \in Task : pc[t] # "storing") => view = backend

\* What an import holds between two awaits.
HoldsPosterior(t) ==
    /\ pc[t] = "transition" => currentHash = Parent[block[t]] /\ held[t] = view
    /\ pc[t] \in {"storing", "inserting", "best"} /\ block[t] \notin misread =>
        held[t] = Posterior[block[t]]
    /\ pc[t] = "stored" => held[t] = backend
    /\ pc[t] = "stored" /\ block[t] \notin misread => backend = Posterior[block[t]]

\* The inductive invariant of a sequential importer.
SequentialInv ==
    /\ TypeOK
    /\ BackendIsPosterior
    /\ ViewIsBackend
    /\ EntriesArePosterior
    /\ \A t \in Task : HoldsPosterior(t)

LEMMA InitSequential == Init => SequentialInv
<1>1. Init => TypeOK
  BY InitTypeOK
<1> QED
  BY <1>1 DEF Init, InitialDb, SequentialInv, BackendIsPosterior, ViewIsBackend, EntriesArePosterior,
              HoldsPosterior

LEMMA VerifySequential ==
  ASSUME OneImportAtATime, SequentialInv, NEW t \in Task, NEW h \in Header, Verify(t, h)
  PROVE  SequentialInv'
<1>1. TypeOK /\ TypeOK'
  BY VerifyTypeOK DEF SequentialInv
<1>2. /\ pc[t] = "idle" /\ pc' = [pc EXCEPT ![t] = "verified"]
      /\ UNCHANGED <<backend, view, currentHash, db, durable, writes, unwritten, misread>>
  BY DEF Verify
<1>3. \A s \in Task : s = t
  BY DEF OneImportAtATime
<1>4. BackendIsPosterior' /\ ViewIsBackend'
  BY <1>1, <1>2, <1>3 DEF SequentialInv, BackendIsPosterior, ViewIsBackend, TypeOK
<1>5. EntriesArePosterior'
  BY <1>2 DEF SequentialInv, EntriesArePosterior
<1>6. \A s \in Task : HoldsPosterior(s)'
  BY <1>1, <1>2, <1>3 DEF HoldsPosterior, TypeOK
<1> QED
  BY <1>1, <1>4, <1>5, <1>6 DEF SequentialInv

\* What is written to the database under a block that is not misread.
LEMMA EntryWritten ==
  ASSUME TypeOK, EntriesArePosterior, NEW b \in Block, NEW s \in State \cup {None},
         b \notin misread => s \in {Posterior[b], None}
  PROVE  \A c \in Block \ misread :
            /\ [db EXCEPT !.states[b] = s].states[c] \in {Posterior[c], None}
            /\ [db EXCEPT !.roots[b] = s].roots[c] \in {Posterior[c], None}
            /\ [db EXCEPT !.states[b] = s].roots[c] \in {Posterior[c], None}
            /\ [db EXCEPT !.roots[b] = s].states[c] \in {Posterior[c], None}
  BY DEF TypeOK, DbType, EntriesArePosterior

LEMMA StepSequential ==
  ASSUME OneImportAtATime, SequentialInv, NEW t \in Task, Step(t)
  PROVE  SequentialInv'
<1> USE DEF Goto, Hold, Return
<1>a. /\ TypeOK /\ TypeOK' /\ BackendIsPosterior /\ ViewIsBackend /\ EntriesArePosterior
      /\ HoldsPosterior(t)
  BY StepTypeOK DEF SequentialInv
<1>b. \A s \in Task : s = t
  BY DEF OneImportAtATime
<1>c. pc[t] # "idle" => /\ block[t] \in Header /\ block[t] \in Block
                        /\ Parent[block[t]] \in Block
                        /\ Posterior[block[t]] \in State
  BY <1>a, BlockAssumption DEF TypeOK, Block
<1>d. None \notin State /\ \A b \in Block : Posterior[b] \in State
  BY BlockAssumption
<1>e. /\ pc \in [Task -> {"idle", "verified", "transition", "storing", "stored",
                           "inserting", "best"}]
      /\ block \in [Task -> Header \cup {None}] /\ held \in [Task -> State \cup {None}]
  BY <1>a DEF TypeOK
<1>1. CASE SwitchToParent(t)
  <2>1. UNCHANGED <<db, durable, writes, misread>> /\ pc[t] = "verified"
    BY <1>1 DEF SwitchToParent
  <2>2. EntriesArePosterior'
    BY <1>a, <2>1 DEF EntriesArePosterior
  <2>3. CASE /\ UNCHANGED <<backend, view, currentHash, unwritten>>
             /\ \/ /\ currentHash = Parent[block[t]]
                   /\ pc' = [pc EXCEPT ![t] = "transition"] /\ block' = block
                   /\ held' = [held EXCEPT ![t] = view]
                \/ pc' = [pc EXCEPT ![t] = "idle"]
    <3>1. BackendIsPosterior' /\ ViewIsBackend'
      BY <1>a, <1>b, <1>e, <2>1, <2>3 DEF BackendIsPosterior, ViewIsBackend
    <3>2. HoldsPosterior(t)'
      BY <1>e, <2>3 DEF HoldsPosterior
    <3> QED
      BY <1>a, <1>b, <2>2, <3>1, <3>2 DEF SequentialInv
  <2>4. CASE /\ HasState(Parent[block[t]]) /\ LoadParent(Parent[block[t]])
             /\ pc' = [pc EXCEPT ![t] = "transition"] /\ block' = block
             /\ held' = [held EXCEPT ![t] = view']
    <3>1. BackendIsPosterior'
      BY <1>a, <1>c, <2>1, <2>4 DEF BackendIsPosterior, EntriesArePosterior
    <3>2. ViewIsBackend'
      BY <2>4 DEF ViewIsBackend
    <3>3. HoldsPosterior(t)'
      BY <1>e, <2>4 DEF HoldsPosterior
    <3> QED
      BY <1>a, <1>b, <2>2, <3>1, <3>2, <3>3 DEF SequentialInv
  <2> QED
    BY <1>1, <2>3, <2>4 DEF SwitchToParent
<1>2. CASE FailTransition(t)
  <2>1. /\ pc[t] = "transition" /\ pc' = [pc EXCEPT ![t] = "idle"]
        /\ UNCHANGED <<backend, view, currentHash, db, durable, writes, unwritten, misread>>
    BY <1>2 DEF FailTransition
  <2>2. BackendIsPosterior' /\ ViewIsBackend' /\ HoldsPosterior(t)'
    BY <1>a, <1>b, <1>e, <2>1 DEF BackendIsPosterior, ViewIsBackend, HoldsPosterior
  <2>3. EntriesArePosterior'
    BY <1>a, <2>1 DEF EntriesArePosterior
  <2> QED
    BY <1>a, <1>b, <2>2, <2>3 DEF SequentialInv
<1>3. CASE FinishTransition(t)
  <2>1. /\ pc[t] = "transition" /\ pc' = [pc EXCEPT ![t] = "storing"] /\ block' = block
        /\ UNCHANGED <<backend, currentHash, db, durable, writes, unwritten>>
        /\ misread \subseteq misread'
        /\ unwritten \/ Parent[block[t]] \in misread => block[t] \in misread'
    BY <1>3 DEF FinishTransition
  <2>2. held[t] = view /\ currentHash = Parent[block[t]]
    BY <1>a, <2>1 DEF HoldsPosterior
  <2>3. held' = [held EXCEPT ![t] = Write(backend, Update(view, block[t]))]
    BY <1>3, <2>2 DEF FinishTransition
  <2>4. block[t] \notin misread' => backend = Posterior[Parent[block[t]]] /\ view = backend
    BY <1>a, <1>b, <2>1, <2>2 DEF BackendIsPosterior, ViewIsBackend
  <2>5. block[t] \notin misread' => held'[t] = Posterior[block[t]]
    BY <1>c, <1>e, <2>1, <2>3, <2>4, PosteriorAssumption
  <2>6. BackendIsPosterior' /\ ViewIsBackend'
    BY <1>a, <1>b, <1>e, <2>1 DEF BackendIsPosterior, ViewIsBackend
  <2>7. EntriesArePosterior'
    BY <1>a, <2>1 DEF EntriesArePosterior
  <2>8. HoldsPosterior(t)'
    BY <1>e, <2>1, <2>5 DEF HoldsPosterior
  <2> QED
    BY <1>a, <1>b, <2>6, <2>7, <2>8 DEF SequentialInv
<1>4. CASE StoreState(t)
  <2>1. /\ pc[t] = "storing" /\ pc' = [pc EXCEPT ![t] = "stored"]
        /\ db' = [db EXCEPT !.states[block[t]] = held[t]] /\ durable' = db'
        /\ backend' = held[t] /\ view' = held[t]
        /\ UNCHANGED <<block, held, currentHash, writes, misread>>
    BY <1>4 DEF StoreState
  <2>2. block[t] \notin misread => held[t] = Posterior[block[t]]
    BY <1>a, <2>1 DEF HoldsPosterior
  <2>3. EntriesArePosterior'
    <3>1. held[t] \in State \cup {None}
      BY <1>e
    <3>2. \A c \in Block \ misread : /\ db'.states[c] \in {Posterior[c], None}
                                     /\ db'.roots[c] \in {Posterior[c], None}
      BY <1>a, <1>c, <2>1, <2>2, <3>1, EntryWritten
    <3> QED
      BY <1>a, <2>1, <3>2 DEF EntriesArePosterior
  <2>4. BackendIsPosterior' /\ ViewIsBackend' /\ HoldsPosterior(t)'
    BY <1>b, <1>e, <2>1, <2>2 DEF BackendIsPosterior, ViewIsBackend, HoldsPosterior
  <2> QED
    BY <1>a, <1>b, <2>3, <2>4 DEF SequentialInv
<1>5. CASE FailStoreState(t)
  <2>1. /\ pc[t] = "storing" /\ pc' = [pc EXCEPT ![t] = "idle"]
        /\ db' = db \/ db' = [db EXCEPT !.states[block[t]] = held[t]]
        /\ unwritten' = TRUE
        /\ UNCHANGED <<backend, view, currentHash, durable, writes, misread>>
    BY <1>5 DEF FailStoreState
  <2>2. block[t] \notin misread => held[t] = Posterior[block[t]]
    BY <1>a, <2>1 DEF HoldsPosterior
  <2>3. EntriesArePosterior'
    <3>1. held[t] \in State \cup {None}
      BY <1>e
    <3>2. \A c \in Block \ misread : /\ db'.states[c] \in {Posterior[c], None}
                                     /\ db'.roots[c] \in {Posterior[c], None}
      BY <1>a, <1>c, <2>1, <2>2, <3>1, EntryWritten DEF EntriesArePosterior
    <3> QED
      BY <1>a, <2>1, <3>2 DEF EntriesArePosterior
  <2>4. BackendIsPosterior' /\ ViewIsBackend' /\ HoldsPosterior(t)'
    BY <1>a, <1>b, <1>e, <2>1 DEF BackendIsPosterior, ViewIsBackend, HoldsPosterior
  <2> QED
    BY <1>a, <1>b, <2>3, <2>4 DEF SequentialInv
<1>6. CASE AdoptBlock(t)
  <2>1. /\ pc[t] = "stored" /\ pc' = [pc EXCEPT ![t] = "inserting"] /\ block' = block
        /\ currentHash' = block[t] /\ held' = [held EXCEPT ![t] = backend]
        /\ writes' = writes \cup {<<block[t], None>>, <<block[t], backend>>}
        /\ UNCHANGED <<backend, view, db, durable, unwritten, misread>>
    BY <1>6 DEF AdoptBlock
  <2>2. block[t] \notin misread => backend = Posterior[block[t]]
    BY <1>a, <2>1 DEF HoldsPosterior
  <2>3. EntriesArePosterior'
    BY <1>a, <2>1, <2>2 DEF EntriesArePosterior
  <2>4. BackendIsPosterior' /\ ViewIsBackend' /\ HoldsPosterior(t)'
    BY <1>a, <1>b, <1>e, <2>1, <2>2 DEF BackendIsPosterior, ViewIsBackend, HoldsPosterior
  <2> QED
    BY <1>a, <1>b, <2>3, <2>4 DEF SequentialInv
<1>7. CASE FailInsert(t) \/ SetBest(t) \/ PersistBest(t)
  <2>1. /\ pc[t] \in {"inserting", "best"}
        /\ \/ pc' = [pc EXCEPT ![t] = "idle"]
           \/ pc' = [pc EXCEPT ![t] = "best"] /\ pc[t] = "inserting" /\ UNCHANGED <<block, held>>
        /\ UNCHANGED <<backend, view, currentHash, unwritten, misread>>
        /\ writes' \subseteq writes
    BY <1>7 DEF FailInsert, SetBest, PersistBest
  <2>2. db'.states = db.states /\ db'.roots = db.roots /\ (durable' = durable \/ durable' = db)
    BY <1>7, <1>a DEF FailInsert, SetBest, PersistBest, TypeOK, DbType
  <2>3. EntriesArePosterior'
    BY <1>a, <2>1, <2>2 DEF EntriesArePosterior
  <2>4. BackendIsPosterior' /\ ViewIsBackend' /\ HoldsPosterior(t)'
    BY <1>a, <1>b, <1>e, <2>1 DEF BackendIsPosterior, ViewIsBackend, HoldsPosterior
  <2> QED
    BY <1>a, <1>b, <2>3, <2>4 DEF SequentialInv
<1> QED
  BY <1>1, <1>2, <1>3, <1>4, <1>5, <1>6, <1>7 DEF Step

LEMMA WriteSequential ==
  ASSUME SequentialInv, NEW w \in writes, InsertBlock(w) \/ SetPostStateRoot(w)
  PROVE  SequentialInv'
<1>1. TypeOK /\ TypeOK' /\ EntriesArePosterior
  BY WriteTypeOK DEF SequentialInv
<1>2. w[1] \in Block /\ w[2] \in State \cup {None} /\ (w[1] \notin misread => w[2] \in {Posterior[w[1]], None})
  BY <1>1 DEF TypeOK, Block, EntriesArePosterior
<1>3. /\ writes' \subseteq writes
      /\ UNCHANGED <<backend, view, currentHash, durable, pc, block, held, unwritten, misread>>
  BY DEF InsertBlock, SetPostStateRoot
<1>4. \A c \in Block \ misread : /\ db'.states[c] \in {Posterior[c], None}
                                 /\ db'.roots[c] \in {Posterior[c], None}
  <2>1. CASE InsertBlock(w)
    BY <1>1, <2>1 DEF InsertBlock, TypeOK, DbType, EntriesArePosterior
  <2>2. CASE SetPostStateRoot(w)
    BY <1>1, <1>2, <2>2, EntryWritten DEF SetPostStateRoot
  <2> QED
    BY <2>1, <2>2
<1>5. EntriesArePosterior'
  BY <1>1, <1>3, <1>4 DEF EntriesArePosterior
<1> QED
  BY <1>1, <1>3, <1>5 DEF SequentialInv, BackendIsPosterior, ViewIsBackend, HoldsPosterior

LEMMA PruneSequential ==
  ASSUME SequentialInv, NEW b \in Block, PruneState(b) \/ FailPrune(b)
  PROVE  SequentialInv'
<1>1. TypeOK /\ TypeOK' /\ EntriesArePosterior
  BY PruneTypeOK DEF SequentialInv
<1>2. UNCHANGED <<backend, view, currentHash, durable, writes, pc, block, held, unwritten, misread>>
  BY DEF PruneState, FailPrune
<1>3. EntriesArePosterior'
  BY <1>1, <1>2 DEF PruneState, FailPrune, EntriesArePosterior, TypeOK, DbType
<1> QED
  BY <1>1, <1>2, <1>3 DEF SequentialInv, BackendIsPosterior, ViewIsBackend, HoldsPosterior

LEMMA CrashSequential ==
  ASSUME SequentialInv, CrashAndRestart
  PROVE  SequentialInv'
<1>1. TypeOK /\ TypeOK'
  BY CrashTypeOK DEF SequentialInv
<1>2. PICK left \in Leftovers :
        /\ left.states[left.best] # None
        /\ db' = left /\ durable' = left
        /\ UpdateBackend(left.states[left.best])
        /\ currentHash' = left.best
  BY DEF CrashAndRestart
<1>3. writes' = {} /\ misread' = misread /\ pc' = [t \in Task |-> "idle"]
  BY DEF CrashAndRestart
<1>4. EntriesArePosterior'
  BY <1>1, <1>2, <1>3, LeftoverEntries DEF SequentialInv, EntriesArePosterior
<1>5. left.best \in Block
  BY <1>1, LeftoverEntries DEF DbType
<1>6. BackendIsPosterior' /\ ViewIsBackend'
  BY <1>2, <1>3, <1>4, <1>5 DEF EntriesArePosterior, BackendIsPosterior, ViewIsBackend
<1>7. \A t \in Task : HoldsPosterior(t)'
  BY <1>3 DEF HoldsPosterior
<1> QED
  BY <1>1, <1>4, <1>6, <1>7 DEF SequentialInv

LEMMA SequentialInvariant ==
  ASSUME OneImportAtATime
  PROVE  Spec => []SequentialInv
<1>1. Init => SequentialInv
  BY InitSequential
<1>2. SequentialInv /\ [Next]_vars => SequentialInv'
  <2> SUFFICES ASSUME SequentialInv, [Next]_vars PROVE SequentialInv'
    OBVIOUS
  <2>1. CASE \E t \in Task : Step(t) \/ \E h \in Header : Verify(t, h)
    BY <2>1, StepSequential, VerifySequential
  <2>2. CASE \E w \in writes : InsertBlock(w) \/ SetPostStateRoot(w)
    BY <2>2, WriteSequential
  <2>3. CASE \E b \in Block : PruneState(b) \/ FailPrune(b)
    BY <2>3, PruneSequential
  <2>4. CASE CrashAndRestart
    BY <2>4, CrashSequential
  <2>5. CASE UNCHANGED vars
    BY <2>5 DEF vars, SequentialInv, TypeOK, BackendIsPosterior, ViewIsBackend, EntriesArePosterior,
                HoldsPosterior
  <2> QED
    BY <2>1, <2>2, <2>3, <2>4, <2>5 DEF Next
<1> QED
  BY <1>1, <1>2, PTL DEF Spec

\* As long as imports do not overlap, the leafs of the state object are the
\* posterior state of currentHash, on every fork and after every failure and
\* crash, and so is what execution reads through its cache until a write fails;
\* only blocks executed after that, before another state is loaded, and their
\* descendants are excepted.
THEOREM SequentialImport ==
  ASSUME OneImportAtATime
  PROVE  Spec => []StateOfCurrentHash
<1>1. SequentialInv => StateOfCurrentHash
  BY DEF SequentialInv, BackendIsPosterior, ViewIsBackend, StateOfCurrentHash
<1> QED
  BY <1>1, SequentialInvariant, PTL

\* ... and, but for the same blocks, every state and root in the database
\* belongs to the block it is stored under, now and after any crash: one failed
\* write never reaches a block of another fork, nor a block that is imported
\* after another state was loaded.
THEOREM SequentialPosteriors ==
  ASSUME OneImportAtATime
  PROVE  Spec => []PosteriorsAreStored
<1>1. SequentialInv => PosteriorsAreStored
  BY DEF SequentialInv, EntriesArePosterior, PosteriorsAreStored
<1> QED
  BY <1>1, SequentialInvariant, PTL
-----------------------------------------------------------------------------
(* Any number of imports *)

\* The state of b survives a crash at this point, or nobody may ask for it.
StoredSafely(b) == (db.states[b] # None /\ durable.states[b] # None) \/ b \in givenUp

\* The inductive invariant behind HeadersHaveStates: a state is persisted
\* before the header of its block is written.
StateFirstInv ==
    /\ TypeOK
    /\ prune \subseteq givenUp
    /\ \A b \in db.headers \cup durable.headers : StoredSafely(b)
    /\ \A t \in Task : pc[t] = "stored" => StoredSafely(block[t])
    /\ \A w \in writes : StoredSafely(w[1])

LEMMA InitStateFirst == Init => StateFirstInv
  BY InitTypeOK, BlockAssumption DEF Init, InitialDb, StateFirstInv, StoredSafely, Block

LEMMA VerifyStateFirst ==
  ASSUME StateFirstInv, NEW t \in Task, NEW h \in Header, Verify(t, h)
  PROVE  StateFirstInv'
  BY VerifyTypeOK DEF Verify, StateFirstInv, StoredSafely, TypeOK

LEMMA StepStateFirst ==
  ASSUME StateFirstInv, NEW t \in Task, Step(t)
  PROVE  StateFirstInv'
<1> USE DEF Goto, Hold, Return
<1>a. TypeOK /\ TypeOK'
  BY StepTypeOK DEF StateFirstInv
<1>b. pc[t] # "idle" => block[t] \in Header /\ block[t] \in Block
  BY <1>a DEF TypeOK, Block
<1>c. pc[t] = "storing" => held[t] # None
  BY <1>a, BlockAssumption DEF TypeOK
<1>1. CASE SwitchToParent(t) \/ FailTransition(t) \/ FinishTransition(t) \/ FailInsert(t)
  BY <1>1, <1>a
     DEF SwitchToParent, FailTransition, FinishTransition, FailInsert, StateFirstInv, StoredSafely, TypeOK
<1>2. CASE StoreState(t)
  <2>1. /\ \A b \in Block : StoredSafely(b) => StoredSafely(b)'
        /\ StoredSafely(block[t])'
    BY <1>2, <1>a, <1>b, <1>c DEF StoreState, StoredSafely, TypeOK, DbType
  <2>2. db'.headers = db.headers /\ durable'.headers = db.headers
    BY <1>2, <1>a DEF StoreState, TypeOK, DbType
  <2>3. /\ db.headers \subseteq Block /\ \A s \in Task : pc[s] # "idle" => block[s] \in Block
        /\ \A w \in writes : w[1] \in Block
    BY <1>a DEF TypeOK, DbType, Block
  <2>4. pc' = [pc EXCEPT ![t] = "stored"] /\ UNCHANGED <<block, writes, prune, givenUp>>
    BY <1>2 DEF StoreState
  <2> QED
    BY <1>a, <2>1, <2>2, <2>3, <2>4 DEF StateFirstInv, TypeOK
<1>3. CASE FailStoreState(t)
  <2>1. \A b \in Block : StoredSafely(b) => StoredSafely(b)'
    BY <1>3, <1>a, <1>b, <1>c DEF FailStoreState, StoredSafely, TypeOK, DbType
  <2>2. db'.headers = db.headers /\ durable' = durable
    BY <1>3, <1>a DEF FailStoreState, TypeOK, DbType
  <2>3. /\ db.headers \subseteq Block /\ durable.headers \subseteq Block
        /\ \A s \in Task : pc[s] # "idle" => block[s] \in Block
        /\ \A w \in writes : w[1] \in Block
    BY <1>a DEF TypeOK, DbType, Block
  <2>4. /\ pc' = [pc EXCEPT ![t] = "idle"] /\ block' = [block EXCEPT ![t] = None]
        /\ UNCHANGED <<writes, prune, givenUp>>
    BY <1>3 DEF FailStoreState
  <2> QED
    BY <1>a, <2>1, <2>2, <2>3, <2>4 DEF StateFirstInv, TypeOK
<1>4. CASE AdoptBlock(t)
  BY <1>4, <1>a DEF AdoptBlock, StateFirstInv, StoredSafely, TypeOK
<1>5. CASE SetBest(t)
  BY <1>5, <1>a DEF SetBest, StateFirstInv, StoredSafely, TypeOK, DbType
<1>6. CASE PersistBest(t)
  <2>1. prune' \subseteq givenUp' /\ givenUp \subseteq givenUp'
    BY <1>6 DEF PersistBest, OnBlockImported, StateFirstInv
  <2>2. \A b \in Block : StoredSafely(b) => StoredSafely(b)'
    BY <1>6, <2>1 DEF PersistBest, StoredSafely
  <2>3. db' = db /\ durable' = db /\ db.headers \subseteq Block
    BY <1>6, <1>a DEF PersistBest, TypeOK, DbType
  <2>4. /\ pc' = [pc EXCEPT ![t] = "idle"] /\ block' = [block EXCEPT ![t] = None] /\ writes' = writes
        /\ \A s \in Task : pc[s] # "idle" => block[s] \in Block
        /\ \A w \in writes : w[1] \in Block
    BY <1>6, <1>a DEF PersistBest, TypeOK, Block
  <2> QED
    BY <1>a, <2>1, <2>2, <2>3, <2>4 DEF StateFirstInv, TypeOK
<1> QED
  BY <1>1, <1>2, <1>3, <1>4, <1>5, <1>6 DEF Step

LEMMA WriteStateFirst ==
  ASSUME StateFirstInv, NEW w \in writes, InsertBlock(w) \/ SetPostStateRoot(w)
  PROVE  StateFirstInv'
<1>1. TypeOK /\ TypeOK'
  BY WriteTypeOK DEF StateFirstInv
<1>2. /\ db'.states = db.states /\ db'.headers \subseteq db.headers \cup {w[1]}
      /\ writes' \subseteq writes
      /\ UNCHANGED <<durable, pc, block, prune, givenUp>>
  BY <1>1 DEF InsertBlock, SetPostStateRoot, TypeOK, DbType
<1> QED
  BY <1>1, <1>2 DEF StateFirstInv, StoredSafely

LEMMA PruneStateFirst ==
  ASSUME StateFirstInv, NEW b \in Block, PruneState(b) \/ FailPrune(b)
  PROVE  StateFirstInv'
<1>1. TypeOK /\ TypeOK'
  BY PruneTypeOK DEF StateFirstInv
<1>2. CASE PruneState(b)
  <2>1. b \in givenUp
    BY <1>2 DEF PruneState, StateFirstInv
  <2>2. \A c \in Block : StoredSafely(c) => StoredSafely(c)'
    BY <1>1, <1>2, <2>1 DEF PruneState, StoredSafely, TypeOK, DbType
  <2>3. db'.headers = db.headers /\ UNCHANGED <<durable, writes, pc, block>>
    BY <1>1, <1>2 DEF PruneState, TypeOK, DbType
  <2>4. /\ db.headers \subseteq Block /\ durable.headers \subseteq Block
        /\ \A t \in Task : pc[t] # "idle" => block[t] \in Block
        /\ \A w \in writes : w[1] \in Block
    BY <1>1 DEF TypeOK, DbType, Block
  <2>5. prune' \subseteq givenUp'
    BY <1>2 DEF PruneState, StateFirstInv
  <2> QED
    BY <1>1, <2>2, <2>3, <2>4, <2>5 DEF StateFirstInv
<1>3. CASE FailPrune(b)
  BY <1>1, <1>3 DEF FailPrune, StateFirstInv, StoredSafely
<1> QED
  BY <1>2, <1>3

LEMMA CrashStateFirst ==
  ASSUME StateFirstInv, CrashAndRestart
  PROVE  StateFirstInv'
<1>1. TypeOK /\ TypeOK'
  BY CrashTypeOK DEF StateFirstInv
<1>2. PICK left \in Leftovers : db' = left /\ durable' = left
  BY DEF CrashAndRestart
<1>3. /\ left.headers \subseteq durable.headers \cup db.headers
      /\ \A b \in Block : left.states[b] \in {db.states[b], durable.states[b]}
  BY <1>1, LeftoverEntries
<1>4. \A b \in left.headers : b \in Block
  BY <1>1, <1>2 DEF TypeOK, DbType
<1>5. \A b \in left.headers : StoredSafely(b)'
  BY <1>2, <1>3, <1>4 DEF StateFirstInv, StoredSafely, CrashAndRestart
<1> QED
  BY <1>1, <1>2, <1>5 DEF CrashAndRestart, StateFirstInv

\* Whatever imports overlap, and wherever the process dies, the state of every
\* stored header is stored as well unless finality gave it up.
THEOREM StatesPrecedeHeaders == Spec => []HeadersHaveStates
<1>1. Init => StateFirstInv
  BY InitStateFirst
<1>2. StateFirstInv /\ [Next]_vars => StateFirstInv'
  <2> SUFFICES ASSUME StateFirstInv, [Next]_vars PROVE StateFirstInv'
    OBVIOUS
  <2>1. CASE \E t \in Task : Step(t) \/ \E h \in Header : Verify(t, h)
    BY <2>1, StepStateFirst, VerifyStateFirst
  <2>2. CASE \E w \in writes : InsertBlock(w) \/ SetPostStateRoot(w)
    BY <2>2, WriteStateFirst
  <2>3. CASE \E b \in Block : PruneState(b) \/ FailPrune(b)
    BY <2>3, PruneStateFirst
  <2>4. CASE CrashAndRestart
    BY <2>4, CrashStateFirst
  <2>5. CASE UNCHANGED vars
    BY <2>5 DEF vars, StateFirstInv, TypeOK, StoredSafely
  <2> QED
    BY <2>1, <2>2, <2>3, <2>4, <2>5 DEF Next
<1>3. StateFirstInv => HeadersHaveStates
  BY DEF StateFirstInv, StoredSafely, HeadersHaveStates
<1> QED
  BY <1>1, <1>2, <1>3, PTL DEF Spec
-----------------------------------------------------------------------------
(* The best block *)

\* Nothing the process may be restarted with lacks a state or a root.
BestIsUsable ==
    /\ db.best \in db.headers /\ durable.best \in durable.headers
    /\ db.roots[db.best] # None
    /\ db.roots[durable.best] # None /\ durable.roots[durable.best] # None
    /\ db.states[db.best] # None /\ durable.states[db.best] # None
    /\ db.states[durable.best] # None /\ durable.states[durable.best] # None
    /\ db.best \notin prune /\ durable.best \notin prune

\* Parents are persisted before the headers of their children are written.
IsConnected ==
    /\ durable.headers \subseteq db.headers
    /\ \A h \in Header : h \in db.headers => Parent[h] \in durable.headers

\* Pruning and the finalizer know of stored blocks only.
KnowsStored == prune \cup finalizer.tracked \cup {finalizer.last} \subseteq db.headers

\* The block of an import is new to pruning and to the finalizer.
ImportsNew(t) ==
    /\ pc[t] # "idle" =>
        /\ block[t] \notin prune \cup finalizer.tracked \cup {finalizer.last}
        /\ Parent[block[t]] \in db.headers
    /\ pc[t] \in {"stored", "inserting", "best"} =>
        /\ db.states[block[t]] # None /\ durable.states[block[t]] # None
        /\ Parent[block[t]] \in durable.headers
    /\ pc[t] = "inserting" =>
        /\ HeaderOf(t) \notin writes => block[t] \in db.headers
        /\ RootOf(t) \notin writes => db.roots[block[t]] # None
    /\ pc[t] = "best" => db.best = block[t] /\ block[t] \in db.headers

\* The parent of a header that is being written is persisted.
WritesAreConnected == \A w \in writes : Parent[w[1]] \in durable.headers

\* The inductive invariant behind BestIsComplete.
BestInv ==
    /\ TypeOK
    /\ BestIsUsable
    /\ IsConnected
    /\ WritesAreConnected
    /\ KnowsStored
    /\ \A t \in Task : ImportsNew(t)

LEMMA InitBest == Init => BestInv
  BY InitTypeOK, BlockAssumption
     DEF Init, InitialDb, BestInv, BestIsUsable, IsConnected, WritesAreConnected, KnowsStored,
         ImportsNew, Block

LEMMA VerifyBest ==
  ASSUME OneImportAtATime, BestInv, NEW t \in Task, NEW h \in Header, Verify(t, h)
  PROVE  BestInv'
<1>1. TypeOK /\ TypeOK'
  BY VerifyTypeOK DEF BestInv
<1>2. /\ pc' = [pc EXCEPT ![t] = "verified"] /\ block' = [block EXCEPT ![t] = h]
      /\ UNCHANGED <<db, durable, writes, prune, finalizer>>
  BY DEF Verify
<1>3. BestIsUsable' /\ IsConnected' /\ WritesAreConnected' /\ KnowsStored'
  BY <1>2 DEF BestInv, BestIsUsable, IsConnected, WritesAreConnected, KnowsStored
<1>4. h \notin prune \cup finalizer.tracked \cup {finalizer.last} /\ Parent[h] \in db.headers
  BY DEF Verify, Accepts, BestInv, KnowsStored
<1>5. \A s \in Task : s = t
  BY DEF OneImportAtATime
<1>6. \A s \in Task : ImportsNew(s)'
  BY <1>1, <1>2, <1>4, <1>5 DEF ImportsNew, TypeOK
<1> QED
  BY <1>1, <1>3, <1>6 DEF BestInv

\* What a step that leaves the databases and finality alone has to keep.
LEMMA KeepsBest ==
  ASSUME OneImportAtATime, BestInv, TypeOK', NEW t \in Task,
         db' = db, durable' = durable, prune' = prune, finalizer' = finalizer,
         WritesAreConnected', ImportsNew(t)'
  PROVE  BestInv'
<1>1. BestIsUsable' /\ IsConnected' /\ KnowsStored'
  BY DEF BestInv, BestIsUsable, IsConnected, KnowsStored
<1>2. \A s \in Task : ImportsNew(s)'
  BY DEF OneImportAtATime
<1> QED
  BY <1>1, <1>2 DEF BestInv

LEMMA StepBest ==
  ASSUME OneImportAtATime, BestInv, NEW t \in Task, Step(t)
  PROVE  BestInv'
<1> USE DEF Goto, Hold, Return
<1>a. /\ TypeOK /\ TypeOK' /\ BestIsUsable /\ IsConnected /\ WritesAreConnected /\ KnowsStored
      /\ ImportsNew(t)
  BY StepTypeOK DEF BestInv
<1>b. \A s \in Task : s = t
  BY DEF OneImportAtATime
<1>c. pc[t] # "idle" => /\ block[t] \in Header /\ block[t] \in Block
                        /\ Parent[block[t]] \in Block
  BY <1>a, BlockAssumption DEF TypeOK, Block
<1>d. pc[t] \notin {"idle", "verified"} => held[t] \in State /\ held[t] # None
  BY <1>a, BlockAssumption DEF TypeOK
<1>e. /\ pc \in [Task -> {"idle", "verified", "transition", "storing", "stored",
                           "inserting", "best"}]
      /\ block \in [Task -> Header \cup {None}]
      /\ held \in [Task -> State \cup {None}]
      /\ db \in DbType /\ durable \in DbType
      /\ finalizer \in [last : Block, tracked : SUBSET Block]
  BY <1>a DEF TypeOK
<1>1. CASE SwitchToParent(t) \/ FailTransition(t) \/ FinishTransition(t) \/ FailInsert(t)
  <2>1. UNCHANGED <<db, durable, prune, finalizer>> /\ writes' \subseteq writes
    BY <1>1 DEF SwitchToParent, FailTransition, FinishTransition, FailInsert
  <2>2. ImportsNew(t)'
    <3>1. \/ pc' = [pc EXCEPT ![t] = "idle"]
          \/ /\ pc[t] \in {"verified", "transition"} /\ block' = block
             /\ \/ pc' = [pc EXCEPT ![t] = "transition"]
                \/ pc' = [pc EXCEPT ![t] = "storing"]
      BY <1>1 DEF SwitchToParent, FailTransition, FinishTransition, FailInsert
    <3> QED
      BY <1>a, <1>e, <2>1, <3>1 DEF ImportsNew
  <2>3. WritesAreConnected'
    BY <1>a, <2>1 DEF WritesAreConnected
  <2> QED
    BY <1>a, <2>1, <2>2, <2>3, KeepsBest
<1>2. CASE StoreState(t)
  <2>1. /\ db' = [db EXCEPT !.states[block[t]] = held[t]] /\ durable' = db'
        /\ pc[t] = "storing" /\ pc' = [pc EXCEPT ![t] = "stored"] /\ block' = block
        /\ UNCHANGED <<writes, prune, finalizer>>
    BY <1>2 DEF StoreState
  <2>2. db'.headers = db.headers /\ db'.roots = db.roots /\ db'.best = db.best
    BY <1>e, <2>1 DEF DbType
  <2>3. db'.states[block[t]] # None /\ \A b \in Block : db.states[b] # None => db'.states[b] # None
    BY <1>c, <1>d, <1>e, <2>1 DEF DbType
  <2>4. db.best \in Block
    BY <1>e DEF DbType
  <2>5. BestIsUsable'
    BY <1>a, <2>1, <2>2, <2>3, <2>4 DEF BestIsUsable
  <2>6. IsConnected' /\ WritesAreConnected' /\ KnowsStored'
    BY <1>a, <2>1, <2>2 DEF IsConnected, WritesAreConnected, KnowsStored
  <2>7. ImportsNew(t)'
    BY <1>a, <1>e, <2>1, <2>2, <2>3 DEF ImportsNew
  <2> QED
    BY <1>a, <1>b, <2>5, <2>6, <2>7 DEF BestInv
<1>3. CASE FailStoreState(t)
  <2>1. /\ db' = db \/ db' = [db EXCEPT !.states[block[t]] = held[t]]
        /\ durable' = durable /\ pc[t] = "storing"
        /\ pc' = [pc EXCEPT ![t] = "idle"]
        /\ UNCHANGED <<writes, prune, finalizer>>
    BY <1>3 DEF FailStoreState
  <2>2. db'.headers = db.headers /\ db'.roots = db.roots /\ db'.best = db.best
    BY <1>e, <2>1 DEF DbType
  <2>3. \A b \in Block : db.states[b] # None => db'.states[b] # None
    BY <1>c, <1>d, <1>e, <2>1 DEF DbType
  <2>4. db.best \in Block /\ durable.best \in Block
    BY <1>e DEF DbType
  <2>5. BestIsUsable'
    BY <1>a, <2>1, <2>2, <2>3, <2>4 DEF BestIsUsable
  <2>6. IsConnected' /\ WritesAreConnected' /\ KnowsStored'
    BY <1>a, <2>1, <2>2 DEF IsConnected, WritesAreConnected, KnowsStored
  <2>7. ImportsNew(t)'
    BY <1>e, <2>1 DEF ImportsNew
  <2> QED
    BY <1>a, <1>b, <2>5, <2>6, <2>7 DEF BestInv
<1>4. CASE AdoptBlock(t)
  <2>1. /\ UNCHANGED <<db, durable, prune, finalizer, block>>
        /\ pc[t] = "stored" /\ pc' = [pc EXCEPT ![t] = "inserting"]
        /\ held' = [held EXCEPT ![t] = backend]
        /\ writes' = writes \cup {<<block[t], None>>, <<block[t], backend>>}
    BY <1>4 DEF AdoptBlock
  <2>2. WritesAreConnected'
    BY <1>a, <2>1 DEF WritesAreConnected, ImportsNew
  <2>3. ImportsNew(t)'
    BY <1>a, <1>e, <2>1 DEF ImportsNew
  <2> QED
    BY <1>a, <2>1, <2>2, <2>3, KeepsBest
<1>5. CASE SetBest(t)
  <2>1. /\ db' = [db EXCEPT !.best = block[t]] /\ durable' = durable
        /\ pc[t] = "inserting" /\ pc' = [pc EXCEPT ![t] = "best"] /\ block' = block
        /\ UNCHANGED <<writes, prune, finalizer>>
        /\ HeaderOf(t) \notin writes /\ RootOf(t) \notin writes
    BY <1>5 DEF SetBest
  <2>2. /\ db'.headers = db.headers /\ db'.states = db.states /\ db'.roots = db.roots
        /\ db'.best = block[t]
    BY <1>e, <2>1 DEF DbType
  <2>3. BestIsUsable'
    <3>1. block[t] \in db.headers /\ db.roots[block[t]] # None
      BY <1>a, <2>1 DEF ImportsNew
    <3> QED
      BY <1>a, <2>1, <2>2, <3>1 DEF BestIsUsable, ImportsNew
  <2>4. IsConnected' /\ WritesAreConnected' /\ KnowsStored'
    BY <1>a, <2>1, <2>2 DEF IsConnected, WritesAreConnected, KnowsStored
  <2>5. ImportsNew(t)'
    BY <1>a, <1>e, <2>1, <2>2 DEF ImportsNew
  <2> QED
    BY <1>a, <1>b, <2>3, <2>4, <2>5 DEF BestInv
<1>6. CASE PersistBest(t)
  <2>1. /\ pc[t] = "best" /\ pc' = [pc EXCEPT ![t] = "idle"]
        /\ db' = db /\ durable' = db /\ writes' = writes /\ OnBlockImported(block[t])
    BY <1>6 DEF PersistBest
  <2>2. db.best = block[t] /\ block[t] \in db.headers
    BY <1>a, <2>1 DEF ImportsNew
  <2>3. block[t] \notin prune \cup finalizer.tracked \cup {finalizer.last}
    BY <1>a, <2>1 DEF ImportsNew
  <2>4. /\ block[t] \notin prune'
        /\ prune' \cup finalizer'.tracked \cup {finalizer'.last}
             \subseteq prune \cup finalizer.tracked \cup {finalizer.last, block[t]}
    <3>1. CASE UNCHANGED finalityVars
      BY <2>3, <3>1
    <3>2. CASE /\ finalizer' = [finalizer EXCEPT !.tracked = finalizer.tracked \cup {block[t]}]
               /\ prune' = prune
      BY <1>e, <2>3, <3>2
    <3>3. ASSUME NEW f \in Lineage[block[t]] \cap (finalizer.tracked \cup {block[t]}),
                 finalizer' = [last |-> f,
                               tracked |-> {b \in (finalizer.tracked \cup {block[t]}) \ {f} : f \in Lineage[b]}],
                 prune' = prune \cup Dead(finalizer.tracked \cup {block[t]}, f)
          PROVE  <2>4!1
      BY <2>3, <3>3
    <3> QED
      BY <2>1, <3>1, <3>2, <3>3 DEF OnBlockImported
  <2>5. BestIsUsable'
    BY <1>a, <2>1, <2>2, <2>4 DEF BestIsUsable
  <2>6. IsConnected' /\ WritesAreConnected'
    BY <1>a, <2>1 DEF IsConnected, WritesAreConnected
  <2>7. KnowsStored'
    BY <1>a, <2>1, <2>2, <2>4 DEF KnowsStored
  <2>8. ImportsNew(t)'
    BY <1>e, <2>1 DEF ImportsNew
  <2> QED
    BY <1>a, <1>b, <2>5, <2>6, <2>7, <2>8 DEF BestInv
<1> QED
  BY <1>1, <1>2, <1>3, <1>4, <1>5, <1>6 DEF Step

LEMMA WriteBest ==
  ASSUME OneImportAtATime, BestInv, NEW w \in writes, InsertBlock(w) \/ SetPostStateRoot(w)
  PROVE  BestInv'
<1>a. /\ TypeOK /\ TypeOK' /\ BestIsUsable /\ IsConnected /\ WritesAreConnected /\ KnowsStored
  BY WriteTypeOK DEF BestInv
<1>b. db \in DbType /\ durable \in DbType /\ w[1] \in Header /\ w[1] \in Block
  BY <1>a DEF TypeOK, Block
<1>1. /\ db'.states = db.states /\ db'.best = db.best
      /\ db.headers \subseteq db'.headers /\ db'.headers \subseteq db.headers \cup {w[1]}
      /\ w[2] = None => w[1] \in db'.headers
      /\ \A b \in Block : db.roots[b] # None => db'.roots[b] # None
      /\ w[2] # None => db'.roots[w[1]] # None
  BY <1>b DEF InsertBlock, SetPostStateRoot, DbType
<1>2. /\ writes' = writes \ {w}
      /\ UNCHANGED <<durable, pc, block, held, prune, finalizer>>
  BY DEF InsertBlock, SetPostStateRoot
<1>3. db.best \in Block /\ durable.best \in Block
  BY <1>b DEF DbType
<1>4. BestIsUsable' /\ KnowsStored'
  BY <1>a, <1>1, <1>2, <1>3 DEF BestIsUsable, KnowsStored
<1>5. IsConnected' /\ WritesAreConnected'
  BY <1>a, <1>1, <1>2 DEF IsConnected, WritesAreConnected
<1>6. \A t \in Task : ImportsNew(t)'
  <2>1. TAKE t \in Task
  <2>2. ImportsNew(t) /\ (pc[t] # "idle" => block[t] \in Block)
    BY <1>a DEF BestInv, TypeOK, Block
  <2>3. pc[t] = "inserting" => held[t] \in State /\ held[t] # None
    BY <1>a, BlockAssumption DEF TypeOK
  <2>4. pc[t] = "inserting" => /\ HeaderOf(t) \notin writes' => block[t] \in db'.headers
                               /\ RootOf(t) \notin writes' => db'.roots[block[t]] # None
    <3>1. CASE HeaderOf(t) = w
      BY <1>1, <1>2, <2>2, <2>3, <3>1 DEF ImportsNew
    <3>2. CASE RootOf(t) = w
      BY <1>1, <1>2, <2>2, <2>3, <3>2 DEF ImportsNew
    <3>3. CASE HeaderOf(t) # w /\ RootOf(t) # w
      BY <1>1, <1>2, <2>2, <3>3 DEF ImportsNew
    <3> QED
      BY <3>1, <3>2, <3>3
  <2> QED
    BY <1>1, <1>2, <2>2, <2>4 DEF ImportsNew
<1> QED
  BY <1>a, <1>4, <1>5, <1>6 DEF BestInv

LEMMA PruneBest ==
  ASSUME BestInv, NEW b \in Block, PruneState(b) \/ FailPrune(b)
  PROVE  BestInv'
<1>1. TypeOK /\ TypeOK' /\ BestIsUsable /\ IsConnected /\ WritesAreConnected /\ KnowsStored
  BY PruneTypeOK DEF BestInv
<1>2. db \in DbType /\ b \in prune /\ prune' = prune \ {b}
  BY <1>1 DEF TypeOK, PruneState, FailPrune
<1>3. /\ db'.headers = db.headers /\ db'.roots = db.roots /\ db'.best = db.best
      /\ \A c \in Block : c # b => db'.states[c] = db.states[c]
  BY <1>2 DEF PruneState, FailPrune, DbType
<1>4. UNCHANGED <<durable, writes, finalizer, pc, block, held>>
  BY DEF PruneState, FailPrune
<1>5. BestIsUsable'
  <2>1. db.best \in Block /\ durable.best \in Block /\ db.best # b /\ durable.best # b
    BY <1>1, <1>2 DEF TypeOK, DbType, BestIsUsable
  <2> QED
    BY <1>1, <1>2, <1>3, <1>4, <2>1 DEF BestIsUsable
<1>6. IsConnected' /\ WritesAreConnected' /\ KnowsStored'
  BY <1>1, <1>2, <1>3, <1>4 DEF IsConnected, WritesAreConnected, KnowsStored
<1>7. \A t \in Task : ImportsNew(t)'
  <2>1. TAKE t \in Task
  <2>2. ImportsNew(t) /\ (pc[t] # "idle" => block[t] \in Block)
    BY <1>1 DEF BestInv, TypeOK, Block
  <2> QED
    BY <1>2, <1>3, <1>4, <2>2 DEF ImportsNew
<1> QED
  BY <1>1, <1>5, <1>6, <1>7 DEF BestInv

\* Whatever a crash leaves can be restarted with.
LEMMA LeftoversAreUsable ==
  ASSUME BestInv, NEW left \in Leftovers, IsOrdered(left)
  PROVE  /\ left.best \in left.headers
         /\ left.states[left.best] # None
         /\ left.roots[left.best] # None
         /\ \A h \in Header : h \in left.headers => Parent[h] \in left.headers
<1>1. TypeOK /\ BestIsUsable /\ IsConnected
  BY DEF BestInv
<1>2. db.best \in Block /\ durable.best \in Block
  BY <1>1 DEF TypeOK, DbType
<1>3. /\ durable.headers \subseteq left.headers
      /\ left.headers \subseteq durable.headers \cup db.headers
      /\ \A b \in Block : /\ left.states[b] \in {db.states[b], durable.states[b]}
                          /\ left.roots[b] \in {db.roots[b], durable.roots[b]}
      /\ left.best \in {db.best, durable.best}
  BY <1>1, LeftoverEntries
<1>4. left.states[left.best] # None
  BY <1>1, <1>2, <1>3 DEF BestIsUsable
<1>5. left.best \in left.headers /\ left.roots[left.best] # None
  <2>1. CASE left.best = durable.best
    BY <1>1, <1>2, <1>3, <2>1 DEF BestIsUsable
  <2>2. CASE left.best # durable.best
    BY <1>1, <1>3, <2>2 DEF BestIsUsable, IsOrdered
  <2> QED
    BY <2>1, <2>2
<1>6. \A h \in Header : h \in left.headers => Parent[h] \in left.headers
  BY <1>1, <1>3 DEF IsConnected
<1> QED
  BY <1>4, <1>5, <1>6

LEMMA CrashBest ==
  ASSUME BestInv, CrashAndRestart
  PROVE  BestInv'
<1>1. TypeOK /\ TypeOK'
  BY CrashTypeOK DEF BestInv
<1>2. PICK left \in Leftovers :
        /\ IsOrdered(left)
        /\ db' = left /\ durable' = left
        /\ finalizer' = [last |-> left.best, tracked |-> {}]
  BY DEF CrashAndRestart
<1>3. prune' = {} /\ writes' = {} /\ pc' = [t \in Task |-> "idle"]
  BY DEF CrashAndRestart
<1>4. /\ left.best \in left.headers
      /\ left.states[left.best] # None
      /\ left.roots[left.best] # None
      /\ \A h \in Header : h \in left.headers => Parent[h] \in left.headers
  BY <1>2, LeftoversAreUsable
<1>5. BestIsUsable' /\ IsConnected' /\ WritesAreConnected' /\ KnowsStored'
  BY <1>2, <1>3, <1>4 DEF BestIsUsable, IsConnected, WritesAreConnected, KnowsStored
<1>6. \A t \in Task : ImportsNew(t)'
  BY <1>3 DEF ImportsNew
<1> QED
  BY <1>1, <1>5, <1>6 DEF BestInv

\* Wherever the process dies and whatever of its last writes is lost, the best
\* block has its header, its state and its root, and every stored block has its
\* parent stored, while imports do not overlap.
THEOREM BestSurvives ==
  ASSUME OneImportAtATime
  PROVE  Spec => []BestIsComplete
<1>1. Init => BestInv
  BY InitBest
<1>2. BestInv /\ [Next]_vars => BestInv'
  <2> SUFFICES ASSUME BestInv, [Next]_vars PROVE BestInv'
    OBVIOUS
  <2>1. CASE \E t \in Task : Step(t) \/ \E h \in Header : Verify(t, h)
    BY <2>1, StepBest, VerifyBest
  <2>2. CASE \E w \in writes : InsertBlock(w) \/ SetPostStateRoot(w)
    BY <2>2, WriteBest
  <2>3. CASE \E b \in Block : PruneState(b) \/ FailPrune(b)
    BY <2>3, PruneBest
  <2>4. CASE CrashAndRestart
    BY <2>4, CrashBest
  <2>5. CASE UNCHANGED vars
    BY <2>5 DEF vars, BestInv, TypeOK, BestIsUsable, IsConnected, WritesAreConnected,
                KnowsStored, ImportsNew
  <2> QED
    BY <2>1, <2>2, <2>3, <2>4, <2>5 DEF Next
<1>3. BestInv => BestIsComplete
  BY LeftoversAreUsable DEF BestIsComplete, BestInv, IsConnected
<1> QED
  BY <1>1, <1>2, <1>3, PTL DEF Spec
=============================================================================
