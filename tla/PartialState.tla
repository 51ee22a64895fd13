----------------------------- MODULE PartialState -----------------------------
(***************************************************************************)
(* The state a service sees while it accumulates: the state before the     *)
(* block under an `AccumulationStateUpdate`                                *)
(* (jam-host-calls/externalities/state-update.ts), and what the update     *)
(* does to the state once the block is over                                *)
(* (state-merkleization/serialize-state-update.ts), and how the updates of *)
(* the services of one round become one.                                   *)
(*                                                                         *)
(* A code or preimage hash is a member of Hash, with one preimage of       *)
(* PreimageBytes, or a service id where a code hash spells one; a stored   *)
(* value is its length.  An account of the state is                        *)
(*   [info, blobs, lookup, storage]                                        *)
(* with the info None when there is no such service.                       *)
(***************************************************************************)
EXTENDS Integers, Sequences, SequencesExt, FiniteSetsExt, TLC

CONSTANTS
    Service,        \* service ids in use, old and new
    Hash,           \* hashes of preimages and codes
    Key,            \* storage keys, of KeyBytes
    KeyBytes,       \* length of a storage key
    PreimageBytes,  \* length of a preimage
    Slot,           \* timeslot of the block
    None,           \* `null`
    Removed         \* `UpdateStorage.remove`

LookupEntryBytes == 81
StorageEntryBytes == 34

\* calculateThresholdBalance: BASE_SERVICE_BALANCE and so on.
Threshold(items, bytes, gratis) == Max({0, 100 + 10 * items + bytes - gratis})
ThresholdOf(info) == Threshold(info.items, info.bytes, info.gratis)

EmptyUpdate ==
    [created |-> <<>>, updated |-> <<>>, removed |-> {}, preimages |-> <<>>, storage |-> <<>>,
     transfers |-> <<>>, yielded |-> None, queues |-> <<>>, validators |-> None, privileges |-> None]

-----------------------------------------------------------------------------
(* Reading: the update first, then the state.                              *)

GetServiceInfo(state, x, s) ==
    IF s \in x.removed THEN None
    ELSE IF s \in DOMAIN x.updated THEN x.updated[s].account ELSE state[s].info

Stored(account, k) == IF k \in DOMAIN account.storage THEN account.storage[k] ELSE None

GetStorage(state, x, s, k) ==
    IF s \in DOMAIN x.storage /\ k \in DOMAIN x.storage[s]
    THEN IF x.storage[s][k] = Removed THEN None ELSE x.storage[s][k]
    ELSE Stored(state[s], k)

\* The updates of one preimage of s, oldest first.
PreimageUpdates(x, s) == IF s \in DOMAIN x.preimages THEN x.preimages[s] ELSE <<>>
UpdatesOf(x, s, h) == LET ofHash(p) == p.hash = h IN SelectSeq(PreimageUpdates(x, s), ofHash)

\* hasPreimage: any update counts, a request or a removal too.
HasPreimage(state, x, s, h) == UpdatesOf(x, s, h) # <<>> \/ h \in state[s].blobs

\* getPreimage: the first update counts, if it provides the preimage.
GetPreimage(state, x, s, h) ==
    LET updates == UpdatesOf(x, s, h)
    IN  \/ updates # <<>> /\ updates[1].kind = "provide"
        \/ h \in state[s].blobs

\* A plausible bug: the first update of a preimage is taken, not the last.
GetLookupHistoryFirst(state, x, s, h) ==
    LET updates == UpdatesOf(x, s, h)
    IN  IF s \in DOMAIN x.updated /\ x.updated[s].create = h THEN <<>>
        ELSE IF updates = <<>>
             THEN IF h \in DOMAIN state[s].lookup THEN state[s].lookup[h] ELSE None
        ELSE CASE updates[1].kind = "provide" -> <<Slot>>
               [] updates[1].kind = "remove" -> None
               [] updates[1].kind = "set" -> updates[1].slots

\* getLookupHistory: the slots or None.  The code a new service was created
\* with stays requested, whatever happens to it in the block.
GetLookupHistory(state, x, s, h) ==
    LET updates == UpdatesOf(x, s, h)
        last == updates[Len(updates)]
    IN  IF s \in DOMAIN x.updated /\ x.updated[s].create = h THEN <<>>
        ELSE IF updates = <<>>
             THEN IF h \in DOMAIN state[s].lookup THEN state[s].lookup[h] ELSE None
        ELSE CASE last.kind = "provide" -> <<Slot>>
               [] last.kind = "remove" -> None
               [] last.kind = "set" -> last.slots

GetPrivileges(privileges, x) == IF x.privileges = None THEN privileges ELSE x.privileges

-----------------------------------------------------------------------------
(* Writing.                                                                *)

\* updateServiceInfo: a service created in the block stays a created one.
UpdateServiceInfo(x, s, info) ==
    LET create == IF s \in DOMAIN x.updated THEN x.updated[s].create ELSE None
    IN  [x EXCEPT !.updated = (s :> [create |-> create, account |-> info]) @@ @]

CreateService(x, s, info, code) ==
    [x EXCEPT !.created = Append(@, s),
              !.updated = (s :> [create |-> code, account |-> info]) @@ @]

UpdatePreimage(x, s, update) ==
    [x EXCEPT !.preimages = (s :> Append(PreimageUpdates(x, s), update)) @@ @]

UpdateStorage(x, s, k, value) ==
    LET old == IF s \in DOMAIN x.storage THEN x.storage[s] ELSE <<>>
    IN  [x EXCEPT !.storage = (s :> ((k :> value) @@ old)) @@ @]

\* updateServiceStorageUtilisation: refused when the balance does not cover
\* it.  A negative footprint fails an assertion instead.
Covered(info, items, bytes) == info.balance >= Threshold(items, bytes, info.gratis)
UpdateUtilisation(x, s, items, bytes, info) ==
    UpdateServiceInfo(x, s, [info EXCEPT !.items = items, !.bytes = bytes])

-----------------------------------------------------------------------------
(* The end of the block.                                                   *)

ApplyServiceUpdate(account, update) ==
    [account EXCEPT !.info = update.account,
                    !.lookup = IF update.create = None THEN @ ELSE (update.create :> <<>>) @@ @]

Without(f, k) == [i \in DOMAIN f \ {k} |-> f[i]]

\* serializePreimages, one update.
ApplyPreimage(account, update) ==
    CASE update.kind = "provide" ->
            [account EXCEPT !.blobs = @ \cup {update.hash},
                            !.lookup = (update.hash :> <<Slot>>) @@ @]
      [] update.kind = "set" ->
            [account EXCEPT !.lookup = (update.hash :> update.slots) @@ @]
      [] update.kind = "remove" ->
            [account EXCEPT !.blobs = @ \ {update.hash}, !.lookup = Without(@, update.hash)]

ApplyStorage(account, updates) ==
    [account EXCEPT !.storage =
        LET all == updates @@ @
        IN  [k \in {i \in DOMAIN all : all[i] # Removed} |-> all[k]]]

\* serializeStateUpdate: services, preimages, storage, and at last the infos
\* of the removed services: the rest of what they own is not touched.
Apply(state, x, preimages) ==
    [s \in DOMAIN state |->
        LET withInfo == IF s \in DOMAIN x.updated
                        THEN ApplyServiceUpdate(state[s], x.updated[s]) ELSE state[s]
            withPreimages == FoldLeft(ApplyPreimage, withInfo, preimages[s])
            withStorage == IF s \in DOMAIN x.storage
                           THEN ApplyStorage(withPreimages, x.storage[s]) ELSE withPreimages
        IN  IF s \in x.removed THEN [withStorage EXCEPT !.info = None] ELSE withStorage]

-----------------------------------------------------------------------------
(* How the results of the services that accumulated in one round, each on  *)
(* a copy of the same update, become one update                            *)
(* (transition/accumulate/accumulation-result-merge-utils.ts).             *)
(*                                                                         *)
(* A context holds what `createMergeContext` computes: the update the      *)
(* round began with, the privileges at that point and those the result of  *)
(* the manager asks for, and what is merged so far.  A result is           *)
(* [update, gas].                                                          *)

MergeContext(in, privileges, results) ==
    LET now == GetPrivileges(privileges, in)
        byManager == IF now.manager \in DOMAIN results
                     THEN results[now.manager].update.privileges ELSE None
    IN  [in |-> in, now |-> now, byManager |-> IF byManager = None THEN now ELSE byManager,
         out |-> in, transfers |-> <<>>, gas |-> 0]

\* updatePrivilegedService: the holder moves its role, unless the manager did.
Moved(current, byManager, bySelf) == IF current = byManager THEN bySelf ELSE byManager

\* A plausible bug: what any service asks for is the base.
MergePrivilegesOfAnyone(ctx, s, update) ==
    IF update.privileges = None THEN ctx ELSE [ctx EXCEPT !.out.privileges = update.privileges]

\* mergePrivilegedServices
MergePrivileges(ctx, s, update) ==
    LET now == ctx.now
        mgr == ctx.byManager
        self == update.privileges
        base == IF s = now.manager THEN self ELSE GetPrivileges(now, ctx.out)
        registrar == IF s = now.registrar
                     THEN Moved(now.registrar, mgr.registrar, self.registrar) ELSE base.registrar
        delegator == IF s = now.delegator
                     THEN Moved(now.delegator, mgr.delegator, self.delegator) ELSE base.delegator
        assigners == [c \in DOMAIN now.assigners |->
                        IF s = now.assigners[c]
                        THEN Moved(now.assigners[c], mgr.assigners[c], self.assigners[c])
                        ELSE now.assigners[c]]
    IN  IF self = None THEN ctx
        ELSE [ctx EXCEPT !.out.privileges =
                [base EXCEPT !.registrar = registrar, !.delegator = delegator,
                             !.assigners = IF assigners = now.assigners THEN @ ELSE assigners]]

\* mergeValidatorsData and mergeAuthorizationQueues
MergeValidators(ctx, s, update) ==
    IF update.validators # None /\ s = ctx.now.delegator
    THEN [ctx EXCEPT !.out.validators = update.validators] ELSE ctx

MergeQueues(ctx, s, update) ==
    LET own == {c \in DOMAIN update.queues : s = ctx.now.assigners[c]}
    IN  [ctx EXCEPT !.out.queues = [c \in own |-> update.queues[c]] @@ @]

\* mergePreimages: what s provided for others is appended to their updates;
\* its own updates replace whatever is there.
MergePreimages(ctx, s, update) ==
    LET isForOthers(p) == p.kind = "provide" /\ p.for # s
        isOwn(p) == ~isForOthers(p)
        provide(out, p) == UpdatePreimage(out, p.for, p)
    IN  IF s \notin DOMAIN update.preimages THEN ctx
        ELSE [ctx EXCEPT !.out =
                FoldLeft(provide,
                         [@ EXCEPT !.preimages =
                            (s :> SelectSeq(update.preimages[s], isOwn)) @@ @],
                         SelectSeq(update.preimages[s], isForOthers))]

MergeStorage(ctx, s, update) ==
    IF s \in DOMAIN update.storage
    THEN [ctx EXCEPT !.out.storage = (s :> update.storage[s]) @@ @] ELSE ctx

\* mergeCreatedServices: `newCreatedServices` is a set, an id is in it once.
MergeCreated(ctx, s, update) ==
    LET isNew(id) == id \notin ToSet(ctx.in.created)
        isAdded(id) == id \notin ToSet(ctx.out.created)
        created == SelectSeq(update.created, isNew)
    IN  [ctx EXCEPT !.out.created = @ \o SelectSeq(created, isAdded),
                    !.out.updated = [id \in ToSet(created) |-> update.updated[id]] @@ @]

MergeUpdated(ctx, s, update) ==
    IF s \in DOMAIN update.updated
    THEN [ctx EXCEPT !.out.updated = (s :> update.updated[s]) @@ @] ELSE ctx

MergeRemoved(ctx, s, update) ==
    LET removed == update.removed \ ctx.in.removed
    IN  [ctx EXCEPT !.out.removed = @ \cup removed,
                    !.out.preimages =
                        [id \in removed \cap DOMAIN update.preimages |-> update.preimages[id]] @@ @]

\* One round of the loop of mergePerallelAccumulationResults.
MergeResult(ctx, s, result) ==
    LET privileges == MergePrivileges(ctx, s, result.update)
        validators == MergeValidators(privileges, s, result.update)
        queues == MergeQueues(validators, s, result.update)
        preimages == MergePreimages(queues, s, result.update)
        storage == MergeStorage(preimages, s, result.update)
        created == MergeCreated(storage, s, result.update)
        updated == MergeUpdated(created, s, result.update)
        removed == MergeRemoved(updated, s, result.update)
    IN  [removed EXCEPT !.transfers = @ \o result.update.transfers, !.gas = @ + result.gas]

\* mergePerallelAccumulationResults: in the order the services were started.
Merge(in, privileges, results, order) ==
    LET add(ctx, s) == MergeResult(ctx, s, results[s])
    IN  FoldLeft(add, MergeContext(in, privileges, results), order)
=============================================================================
